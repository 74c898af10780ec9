-------------------------- MODULE AtaDriverProofs --------------------------
(***************************************************************************)
(* Theorems about AtaDriver, for sectors of any size, whatever is asked    *)
(* for, whatever controllers and drives there are, and whatever fails.     *)
(***************************************************************************)
EXTENDS AtaDriver, TLAPS

-----------------------------------------------------------------------------
(* The inductive invariant.                                                *)

(* The drive that was asked for, and the sector.                           *)
Target == call.position

TargetLba == call.lba % LBA_LIMIT

InCall == pc # "idle"

(* The arguments of the call in progress, and what follows from the place  *)
(* it has reached.                                                         *)
CallInv ==
  InCall =>
    /\ call.op \in {"read", "write", "identify"}
    /\ call.data \in Contents
    /\ call.op # "identify" => call.lba \in Lbas
    /\ regs[Here].drive = Drive(Target)
    /\ call.op = "write" => buffer = call.data
    /\ pc = "probe" => call.op = "identify"
    /\ pc = "finish" => call.op = "write" /\ i = WORDS
    /\ pc \in {"probe", "wait"} => i = 0
    /\ pc \in {"move", "finish"} => Here \in machine.controllers
    /\ call.op = "identify" /\ pc # "probe" =>
         Here \notin machine.controllers \/ Target \in machine.drives

(* A drive that is not there does nothing.                                 *)
MissingInv == \A p \in Positions \ machine.drives : dev[p].phase = "quiet"

State == dev[Target]

OnMedium == medium[Target][TargetLba]

Active == InCall /\ Target \in machine.drives

(* The command the drive has is the one of the call.                       *)
CommandInv ==
  Active /\ State.phase \in {"busy", "data", "writing"} =>
    /\ State.cmd = call.op
    /\ call.op # "identify" => State.lba = TargetLba
    /\ call.op = "read" /\ State.phase = "data" => State.words = OnMedium
    /\ State.phase = "writing" => call.op = "write"

(* Before the words are moved.                                             *)
WaitInv ==
  Active /\ pc \in {"probe", "wait"} =>
    /\ State.phase \in {"busy", "data", "error"}
    /\ State.moved = 0

(* While words are moved, drive and driver are at the same one; with the   *)
(* last one the drive knows that there are no more.                        *)
MoveInv ==
  Active /\ pc = "move" =>
    /\ State.phase \in {"data", "writing", "quiet", "error"}
    /\ State.phase = "data" => i < WORDS /\ State.moved = i
    /\ call.op # "identify" /\ i < WORDS => State.phase = "data"
    /\ call.op = "read" => State.phase \in {"data", "quiet"}

(* What the words received so far are the bytes of.                        *)
Bytewise(words, n) ==
  \A k \in 0 .. n - 1 : words[k] = Word(call.data[2 * k], call.data[2 * k + 1])

WriteInv ==
  Active /\ call.op = "write" =>
    /\ State.phase = "data" => Bytewise(State.words, i)
    /\ State.phase = "writing" => Bytewise(State.words, WORDS) /\ i = WORDS
    /\ State.phase = "quiet" => Bytewise(OnMedium, WORDS)
    /\ pc = "finish" => State.phase \in {"writing", "quiet", "error"}

ReadInv ==
  Active /\ call.op = "read" /\ pc = "move" =>
    \A j \in 0 .. 2 * i - 1 : buffer[j] = ByteOf(OnMedium, j)

IInv ==
  /\ TypeOK /\ OthersQuiet
  /\ CallInv /\ MissingInv /\ CommandInv /\ WaitInv /\ MoveInv
  /\ WriteInv /\ ReadInv

-----------------------------------------------------------------------------
(* Numbers.                                                                *)

LEMMA Places ==
  /\ \A p \in Positions : /\ Controller(p) \in Controllers /\ Drive(p) \in 0 .. 1
                          /\ 2 * Controller(p) + Drive(p) = p
  /\ \A c \in Controllers, d \in 0 .. 1 : /\ 2 * c + d \in Positions
                                         /\ Controller(2 * c + d) = c
                                         /\ Drive(2 * c + d) = d
BY SMT DEF Positions, Controllers, Controller, Drive

(* What is left of a number divided by 256, and the remainder.             *)
LEMMA Divided ==
  ASSUME NEW n \in Nat
  PROVE  /\ n \div 256 \in Nat
         /\ n % 256 \in Bytes
         /\ n = (n % 256) + 256 * (n \div 256)
<1>1. n = (n % 256) + 256 * (n \div 256) /\ n \div 256 \in Nat
      /\ n % 256 \in Nat /\ n % 256 < 256
  BY SMT
<1>2. QED
  BY <1>1, SMT DEF Bytes

(* The four parts of a number in the registers stand for its sector.       *)
LEMMA Address ==
  ASSUME NEW p \in Positions, NEW lba \in Nat
  PROVE  /\ TaskFile(p, lba) \in Registers
         /\ TaskFile(p, lba).drive = Drive(p)
         /\ LbaOf(TaskFile(p, lba)) = lba % LBA_LIMIT
<1> DEFINE a == lba \div 256
           b == lba \div 65536
           c == lba \div 16777216
<1>1. lba \div 65536 = (lba \div 256) \div 256
      /\ lba \div 16777216 = (lba \div 65536) \div 256
  BY SMT
<1>2. a \in Nat /\ lba % 256 \in Bytes /\ lba = (lba % 256) + 256 * a
  BY Divided
<1> HIDE DEF a
<1>3. b \in Nat /\ a % 256 \in Bytes /\ a = (a % 256) + 256 * b
  BY <1>1, <1>2, Divided DEF a
<1> HIDE DEF b
<1>4. c \in Nat /\ b % 256 \in Bytes /\ b = (b % 256) + 256 * c
  BY <1>1, <1>3, Divided DEF b
<1> HIDE DEF c
<1>5. PICK d \in Nat : c = (c % 16) + 16 * d /\ c % 16 \in 0 .. 15
  <2>1. c \div 16 \in Nat /\ c = (c % 16) + 16 * (c \div 16)
    BY <1>4, SMT
  <2>2. c % 16 \in Nat /\ c % 16 < 16
    BY <1>4, SMT
  <2>3. c % 16 \in 0 .. 15
    BY <2>2, SMT
  <2>4. QED
    BY <2>1, <2>3
<1> DEFINE sum == (lba % 256) + 256 * (a % 256) + 65536 * (b % 256)
                    + 16777216 * (c % 16)
<1>6. lba = 268435456 * d + sum /\ sum \in Nat /\ sum < 268435456
  BY <1>2, <1>3, <1>4, <1>5, SMT DEF Bytes
<1>7. sum = lba % LBA_LIMIT
  <2> HIDE DEF sum
  <2>1. QED
    BY <1>5, <1>6, SMT DEF LBA_LIMIT
<1>8. Drive(p) \in 0 .. 1
  BY Places
<1>9. TaskFile(p, lba) = [drive |-> Drive(p), top |-> c % 16, low |-> lba % 256,
                          mid |-> a % 256, high |-> b % 256]
  BY SMT DEF TaskFile, a, b, c
<1>10. QED
  BY <1>2, <1>3, <1>4, <1>5, <1>7, <1>8, <1>9, SMT DEF Registers, LbaOf

LEMMA AddressTyped ==
  ASSUME NEW r \in Registers
  PROVE  LbaOf(r) \in Nat
<1>1. r.top \in Nat /\ r.low \in Nat /\ r.mid \in Nat /\ r.high \in Nat
  BY SMT DEF Registers, Bytes
<1>2. \A t, l, m, h \in Nat : l + 256 * m + 65536 * h + 16777216 * t >= 0
  BY SMT
<1>3. \A t, l, m, h \in Nat : l + 256 * m + 65536 * h + 16777216 * t \in Int
  BY SMT
<1>4. LbaOf(r) \in Int /\ LbaOf(r) >= 0
  BY <1>1, <1>2, <1>3, SMT DEF LbaOf
<1>5. QED
  BY <1>4, SMT

(* Two bytes make a word, and are the two bytes of that word.              *)
LEMMA WordOfBytes ==
  ASSUME NEW lo \in Bytes, NEW hi \in Bytes
  PROVE  /\ Word(lo, hi) \in Words
         /\ Word(lo, hi) % 256 = lo /\ Word(lo, hi) \div 256 = hi
<1>1. \A x \in 0 .. 255, y \in 0 .. 255 : (x + 256 * y) % 256 = x
  BY SMT
<1>2. \A x \in 0 .. 255, y \in 0 .. 255 : (x + 256 * y) \div 256 = y
  BY SMT
<1>3. Word(lo, hi) \in Words
  BY SMT DEF Bytes, Words, Word
<1>4. QED
  BY <1>1, <1>2, <1>3 DEF Bytes, Word

LEMMA BytesOfWord ==
  ASSUME NEW w \in Words
  PROVE  w % 256 \in Bytes /\ w \div 256 \in Bytes
<1>1. w \in Nat /\ w <= 65535
  BY SMT DEF Words
<1>2. w \div 256 \in Nat /\ w % 256 \in Bytes /\ w = (w % 256) + 256 * (w \div 256)
  BY <1>1, Divided
<1>3. QED
  BY <1>1, <1>2, SMT DEF Bytes

LEMMA Halved ==
  ASSUME WORDS \in Nat, NEW j \in 0 .. 2 * WORDS - 1
  PROVE  /\ j \div 2 \in Index
         /\ \/ j % 2 = 0 /\ j = 2 * (j \div 2)
            \/ j % 2 # 0 /\ j = 2 * (j \div 2) + 1
<1>1. j \div 2 \in Int
  BY SMT
<1>2. j % 2 \in 0 .. 1
  BY SMT
<1>3. j = 2 * (j \div 2) + (j % 2)
  BY SMT
<1> DEFINE k == j \div 2
           r == j % 2
<1> HIDE DEF k, r
<1>4. /\ k \in Index
      /\ \/ r = 0 /\ j = 2 * k
         \/ r # 0 /\ j = 2 * k + 1
  BY <1>1, <1>2, <1>3, SMT DEF Index, k, r
<1>5. QED
  BY <1>4 DEF k, r

(* Word by word the same means byte by byte the same.                      *)
LEMMA AllBytes ==
  ASSUME NEW words \in [Index -> Words], CallInv, InCall, Bytewise(words, WORDS)
  PROVE  BytesOf(words) = call.data
<1>1. WORDS \in Nat \ {0} /\ call.data \in [0 .. 2 * WORDS - 1 -> Bytes]
  BY AtaAssumption DEF CallInv
<1>2. ASSUME NEW j \in 0 .. 2 * WORDS - 1
      PROVE  ByteOf(words, j) = call.data[j]
  <2> DEFINE k == j \div 2
  <2>1. /\ k \in Index
        /\ \/ j % 2 = 0 /\ j = 2 * k
           \/ j % 2 # 0 /\ j = 2 * k + 1
    BY <1>1, Halved
  <2>2. j \div 2 = k
    OBVIOUS
  <2> HIDE DEF k
  <2>3. /\ 2 * k \in 0 .. 2 * WORDS - 1 /\ 2 * k + 1 \in 0 .. 2 * WORDS - 1
        /\ k \in 0 .. WORDS - 1
    BY <1>1, <2>1, SMT DEF Index
  <2>4. words[k] = Word(call.data[2 * k], call.data[2 * k + 1])
    BY <2>3 DEF Bytewise
  <2>5. call.data[2 * k] \in Bytes /\ call.data[2 * k + 1] \in Bytes
    BY <1>1, <2>3
  <2>6. words[k] % 256 = call.data[2 * k] /\ words[k] \div 256 = call.data[2 * k + 1]
    BY <2>4, <2>5, WordOfBytes
  <2>7. QED
    BY <2>1, <2>2, <2>6, SMT DEF ByteOf, Index
<1>3. QED
  BY <1>1, <1>2 DEF BytesOf

-----------------------------------------------------------------------------
(* The driver's steps that move no data.                                   *)

LEMMA TargetSelected ==
  ASSUME IInv, InCall
  PROVE  /\ Selected(Here) = Target
         /\ Target \in Positions /\ Here \in Controllers
BY Places, Zenon DEF IInv, TypeOK, CallInv, Here, Selected, Target

LEMMA AtRest ==
  /\ 0 \in Index /\ NoWords \in [Index -> Words]
  /\ Quiet \in DriveStates /\ Failed \in DriveStates
<1>1. WORDS \in Nat \ {0}
  BY AtaAssumption
<1>2. 0 \in Index
  BY <1>1, SMT DEF Index
<1>3. NoWords \in [Index -> Words]
  BY SMT DEF NoWords, Words
<1>4. QED
  BY <1>2, <1>3, SMT DEF Quiet, Failed, DriveStates

LEMMA InitIInv == Init => IInv
<1> SUFFICES ASSUME Init PROVE IInv
  OBVIOUS
<1>1. WORDS \in Nat \ {0}
  BY AtaAssumption
<1>2. Quiet \in DriveStates
  BY AtRest
<1>3. Cleared \in Registers
  BY SMT DEF Cleared, Registers, Bytes
<1>4. Zero \in [0 .. 2 * WORDS - 1 -> Bytes]
  BY SMT DEF Zero, Bytes
<1>5. TypeOK
  BY <1>1, <1>2, <1>3, <1>4, AtaAssumption
     DEF Init, TypeOK, NoCall, Positions
<1>6. QED
  BY <1>5 DEF Init, IInv, OthersQuiet, CallInv, MissingInv, CommandInv, WaitInv,
              MoveInv, WriteInv, ReadInv, InCall, Active, Quiet

LEMMA ProbeStep ==
  ASSUME IInv, Probe
  PROVE  IInv'
<1>1. TypeOK'
  BY DEF IInv, Probe, Return, TypeOK
<1>2. Selected(Here) = Target /\ Target \in Positions
  BY TargetSelected DEF Probe, InCall
<1>3. CASE Nothing(Here)
  <2>1. pc' = "idle" /\ Target \notin machine.drives
    BY <1>2, <1>3 DEF Probe, Return, Nothing
  <2>2. OthersQuiet'
    BY <1>2, <2>1 DEF IInv, OthersQuiet, MissingInv, Probe, Target
  <2>3. QED
    BY <1>1, <2>1, <2>2
       DEF IInv, Probe, CallInv, MissingInv, CommandInv, WaitInv, MoveInv,
           WriteInv, ReadInv, InCall, Active
<1>4. CASE ~Nothing(Here)
  <2>1. pc' = "wait" /\ pc = "probe"
        /\ (Here \in machine.controllers => Target \in machine.drives)
    BY <1>2, <1>4 DEF Probe, Nothing
  <2>2. UNCHANGED <<medium, machine, regs, dev, call, buffer, i>>
    BY DEF Probe
  <2>3. CallInv'
    BY <2>1, <2>2 DEF IInv, CallInv, InCall, Here, Target
  <2>4. QED
    BY <1>1, <2>1, <2>2, <2>3
       DEF IInv, OthersQuiet, MissingInv, CommandInv, WaitInv, MoveInv,
           WriteInv, ReadInv, InCall, Active, State, Target, TargetLba,
           OnMedium, Bytewise
<1>5. QED
  BY <1>3, <1>4

LEMMA WaitStep ==
  ASSUME IInv, Wait
  PROVE  IInv'
<1>1. TypeOK'
  BY DEF IInv, Wait, Return, TypeOK
<1>2. Selected(Here) = Target /\ Target \in Positions
  BY TargetSelected DEF Wait, InCall
<1>3. /\ pc = "wait" /\ InCall /\ ~Busy(Here)
      /\ UNCHANGED <<medium, machine, regs, dev, call, buffer, i>>
  BY DEF Wait, InCall
<1>4. Here \in machine.controllers
      /\ (Target \in machine.drives => State.phase \in {"data", "error"})
  BY <1>2, <1>3 DEF Busy, IInv, WaitInv, Active, State
<1>5. CASE call.op # "identify" /\ Error(Here) /\ Return(-1)
  <2>1. pc' = "idle" /\ State.phase = "error"
    BY <1>2, <1>5 DEF Return, Error, State
  <2>2. OthersQuiet'
    BY <1>3, <2>1 DEF IInv, OthersQuiet, State, Target
  <2>3. QED
    BY <1>1, <1>3, <2>1, <2>2
       DEF IInv, CallInv, MissingInv, CommandInv, WaitInv, MoveInv,
           WriteInv, ReadInv, InCall, Active
<1>6. CASE (call.op = "identify" \/ ~Error(Here)) /\ pc' = "move"
  <2>1. Target \in machine.drives /\ call.op # "identify" => State.phase = "data"
    BY <1>2, <1>4, <1>6 DEF Error, State
  <2>2. WORDS \in Nat \ {0} /\ i = 0
    BY AtaAssumption, <1>3 DEF IInv, CallInv
  <2>3. CallInv'
    BY <1>3, <1>4, <1>6 DEF IInv, CallInv, InCall, Here, Target
  <2>4. MoveInv'
    <3> SUFFICES ASSUME Active PROVE MoveInv'
      BY <1>3 DEF MoveInv, Active, InCall, Target
    <3>1. State' = State
      BY <1>3 DEF State, Target
    <3>2. State.phase \in {"data", "error"} /\ State.moved = 0
      BY <1>3, <1>4 DEF IInv, WaitInv, Active
    <3>3. call.op # "identify" => State.phase = "data"
      BY <2>1 DEF Active
    <3>4. QED
      BY <1>3, <2>2, <3>1, <3>2, <3>3, SMT DEF MoveInv
  <2>5. WriteInv'
    BY <1>3, <1>6, <2>1
       DEF IInv, WriteInv, Active, InCall, State, Target, TargetLba, OnMedium,
           Bytewise
  <2>6. ReadInv'
    BY <1>3, <2>2, SMT DEF ReadInv
  <2>7. QED
    BY <1>1, <1>3, <1>6, <2>3, <2>4, <2>5, <2>6
       DEF IInv, OthersQuiet, MissingInv, CommandInv, WaitInv, InCall, Active,
           State, Target, TargetLba, OnMedium
<1>7. QED
  BY <1>5, <1>6 DEF Wait

LEMMA MoveDoneStep ==
  ASSUME IInv, MoveDone
  PROVE  IInv'
<1>1. TypeOK'
  BY DEF IInv, MoveDone, Return, TypeOK
<1>2. /\ pc = "move" /\ InCall /\ i = WORDS
      /\ UNCHANGED <<medium, machine, regs, dev, call, buffer, i>>
  BY DEF MoveDone, InCall
<1>3. Target \in Positions
  BY <1>2, TargetSelected
<1>4. WORDS \in Nat
  BY AtaAssumption
<1>5. Active => State.phase # "data" /\ State.phase # "busy"
  BY <1>2, <1>4, SMT DEF IInv, MoveInv
<1>6. CASE call.op # "write" /\ Return(0)
  <2>1. pc' = "idle"
    BY <1>6 DEF Return
  <2>2. State.phase \in {"quiet", "error"}
    <3>1. CASE Target \in machine.drives
      BY <1>2, <1>5, <1>6, <3>1 DEF IInv, Active, CommandInv, MoveInv
    <3>2. CASE Target \notin machine.drives
      BY <1>3, <3>2 DEF IInv, MissingInv, State
    <3>3. QED
      BY <3>1, <3>2
  <2>3. OthersQuiet'
    BY <1>2, <2>1, <2>2 DEF IInv, OthersQuiet, State, Target
  <2>4. QED
    BY <1>1, <1>2, <2>1, <2>3
       DEF IInv, CallInv, MissingInv, CommandInv, WaitInv, MoveInv,
           WriteInv, ReadInv, InCall, Active
<1>7. CASE call.op = "write" /\ pc' = "finish"
  <2>1. CallInv'
    BY <1>2, <1>7 DEF IInv, CallInv, InCall, Here, Target
  <2>2. WriteInv'
    <3>1. Active => State.phase \in {"writing", "quiet", "error"}
      BY <1>2, <1>5 DEF IInv, MoveInv
    <3>2. QED
      BY <1>2, <1>7, <3>1
         DEF IInv, WriteInv, Active, InCall, State, Target, TargetLba,
             OnMedium, Bytewise
  <2>3. QED
    BY <1>1, <1>2, <1>7, <2>1, <2>2
       DEF IInv, OthersQuiet, MissingInv, CommandInv, WaitInv, MoveInv, ReadInv,
           InCall, Active, State, Target, TargetLba, OnMedium
<1>8. QED
  BY <1>6, <1>7 DEF MoveDone

LEMMA FinishStep ==
  ASSUME IInv, Finish
  PROVE  IInv'
<1>1. TypeOK'
  BY DEF IInv, Finish, Return, TypeOK
<1>2. /\ pc = "finish" /\ InCall /\ ~Busy(Here) /\ pc' = "idle"
      /\ UNCHANGED <<medium, machine, regs, dev, call, buffer, i>>
  BY DEF Finish, InCall, Return
<1>3. Selected(Here) = Target /\ Target \in Positions
  BY <1>2, TargetSelected
<1>4. State.phase \in {"quiet", "error"}
  <2>1. CASE Target \in machine.drives
    BY <1>2, <1>3, <2>1 DEF IInv, CallInv, WriteInv, Active, State, Busy
  <2>2. CASE Target \notin machine.drives
    BY <1>3, <2>2 DEF IInv, MissingInv, State
  <2>3. QED
    BY <2>1, <2>2
<1>5. OthersQuiet'
  BY <1>2, <1>4 DEF IInv, OthersQuiet, State, Target
<1>6. QED
  BY <1>1, <1>2, <1>5
     DEF IInv, CallInv, MissingInv, CommandInv, WaitInv, MoveInv,
         WriteInv, ReadInv, InCall, Active

-----------------------------------------------------------------------------
(* The steps of the drives.                                                *)

(* A drive that is at work is the one asked for, with what it was given.   *)
LEMMA AtWork ==
  ASSUME IInv, NEW p \in Positions, dev[p].phase \in {"busy", "data", "writing"}
  PROVE  /\ p = Target /\ Active
         /\ dev[p].phase = "busy" => pc \in {"probe", "wait"} /\ i = 0
         /\ dev[p].phase = "writing" =>
              call.op = "write" /\ pc \in {"move", "finish"} /\ i = WORDS
         /\ call.op # "identify" => TargetLba \in Sectors /\ dev[p].lba = TargetLba
<1>1. p = Target /\ InCall
  BY DEF IInv, OthersQuiet, Target, InCall
<1>2. p \in machine.drives
  BY DEF IInv, MissingInv
<1>3. Active
  BY <1>1, <1>2 DEF Active
<1>4. pc \in {"probe", "wait", "move", "finish"}
  BY <1>1 DEF IInv, TypeOK, InCall
<1>5. dev[p].phase = "busy" => pc \in {"probe", "wait"} /\ i = 0
  BY <1>1, <1>3, <1>4 DEF IInv, MoveInv, WriteInv, CallInv, State
<1>6. dev[p].phase = "writing" =>
        call.op = "write" /\ pc \in {"move", "finish"} /\ i = WORDS
  BY <1>1, <1>3, <1>4 DEF IInv, WaitInv, CommandInv, WriteInv, State
<1>7. call.op # "identify" => TargetLba \in Sectors /\ dev[p].lba = TargetLba
  BY <1>1, <1>3 DEF IInv, CallInv, CommandInv, State, Sectors, TargetLba
<1>8. QED
  BY <1>1, <1>3, <1>5, <1>6, <1>7

LEMMA ReadyStep ==
  ASSUME IInv, NEW p \in Positions, Ready(p)
  PROVE  IInv'
<1>1. /\ dev[p].phase = "busy"
      /\ UNCHANGED <<medium, machine, regs, call, buffer, i, pc, result>>
  BY DEF Ready, driver
<1>2. p = Target /\ Active /\ pc \in {"probe", "wait"} /\ i = 0
  BY <1>1, AtWork
<1>3. dev \in [Positions -> DriveStates]
  BY DEF IInv, TypeOK
<1>4. State.cmd = call.op /\ State.moved = 0 /\ State = dev[p]
      /\ (call.op # "identify" => State.lba = TargetLba /\ TargetLba \in Sectors)
  BY <1>1, <1>2, AtWork DEF IInv, CommandInv, WaitInv, State
<1> DEFINE words == IF dev[p].cmd = "read" THEN medium[p][dev[p].lba] ELSE dev[p].words
           r == [phase |-> "data", cmd |-> dev[p].cmd, lba |-> dev[p].lba,
                 moved |-> 0, words |-> words]
<1>5. words \in [Index -> Words]
  <2>1. dev[p] \in DriveStates
    BY <1>3
  <2>2. dev[p].words \in [Index -> Words]
    BY <2>1 DEF DriveStates
  <2>3. dev[p].cmd = "read" => medium[p][dev[p].lba] \in [Index -> Words]
    BY <1>4 DEF IInv, TypeOK
  <2>4. QED
    BY <2>2, <2>3
<1>6. words = IF State.cmd = "read" THEN OnMedium ELSE State.words
  BY <1>2, <1>4 DEF OnMedium
<1> HIDE DEF words
<1>7. r \in DriveStates /\ dev' = [dev EXCEPT ![p] = r]
  <2>1. dev[p] \in DriveStates /\ 0 \in Index
    BY <1>3, <1>4 DEF DriveStates
  <2>2. QED
    BY <1>5, <2>1 DEF DriveStates, Ready, words
<1>8. /\ State'.phase = "data" /\ State'.cmd = State.cmd /\ State'.lba = State.lba
      /\ State'.moved = 0 /\ State'.words = words
      /\ \A q \in Positions : q # p => dev'[q] = dev[q]
      /\ dev' \in [Positions -> DriveStates]
  <2>1. dev'[p] = r /\ Target' = p
    BY <1>1, <1>2, <1>3, <1>7 DEF Target
  <2>2. dev' \in [Positions -> DriveStates]
    BY <1>3, <1>7
  <2>3. \A q \in Positions : q # p => dev'[q] = dev[q]
    BY <1>3, <1>7
  <2>4. State' = r
    BY <2>1 DEF State
  <2>5. QED
    BY <1>4, <2>2, <2>3, <2>4
<1>9. TypeOK'
  BY <1>1, <1>8 DEF IInv, TypeOK
<1>10. OthersQuiet' /\ CallInv'
  BY <1>1, <1>2, <1>8 DEF IInv, OthersQuiet, CallInv, InCall, Here, Target, Active
<1>11. MissingInv'
  BY <1>1, <1>2, <1>8 DEF IInv, MissingInv, Active
<1>12. CommandInv'
  BY <1>1, <1>2, <1>4, <1>6, <1>8
     DEF CommandInv, Active, InCall, Target, TargetLba, OnMedium
<1>13. WaitInv' /\ MoveInv'
  BY <1>1, <1>2, <1>8 DEF IInv, WaitInv, MoveInv, Active, Target, InCall
<1>14. WriteInv'
  <2>1. Bytewise(State'.words, i)
    BY <1>2, SMT DEF Bytewise
  <2>2. QED
    BY <1>1, <1>2, <1>8, <2>1 DEF WriteInv, Bytewise
<1>15. ReadInv'
  BY <1>1, <1>2 DEF ReadInv
<1>16. QED
  BY <1>9, <1>10, <1>11, <1>12, <1>13, <1>14, <1>15 DEF IInv

(* What storing a sector does to the media.                                *)
LEMMA SectorStored ==
  ASSUME IInv, NEW p \in Positions, dev[p].phase = "writing"
  PROVE  /\ Stored(p) \in [Positions -> [Sectors -> [Index -> Words]]]
         /\ Stored(p)[Target][TargetLba] = State.words
         /\ Stored(p) = [medium EXCEPT ![Target] = [@ EXCEPT ![TargetLba] = State.words]]
<1>1. p = Target /\ TargetLba \in Sectors /\ dev[p].lba = TargetLba
  BY AtWork
<1>2. State \in DriveStates /\ State = dev[p]
  BY <1>1 DEF IInv, TypeOK, State
<1>3. State.words \in [Index -> Words]
  BY <1>2 DEF DriveStates
<1>4. Stored(p) = [medium EXCEPT ![Target] = [@ EXCEPT ![TargetLba] = State.words]]
  BY <1>1, <1>2 DEF Stored
<1>5. medium \in [Positions -> [Sectors -> [Index -> Words]]]
  BY DEF IInv, TypeOK
<1> DEFINE sectors == [medium[Target] EXCEPT ![TargetLba] = State.words]
<1>6. sectors \in [Sectors -> [Index -> Words]] /\ sectors[TargetLba] = State.words
  BY <1>1, <1>3, <1>5
<1>7. Stored(p) = [medium EXCEPT ![Target] = sectors]
  BY <1>4
<1> HIDE DEF sectors
<1>8. /\ Stored(p) \in [Positions -> [Sectors -> [Index -> Words]]]
      /\ Stored(p)[Target] = sectors
  BY <1>1, <1>5, <1>6, <1>7
<1>9. QED
  BY <1>4, <1>6, <1>8

LEMMA FailStep ==
  ASSUME IInv, NEW p \in Positions, Fail(p)
  PROVE  IInv'
<1>1. /\ dev[p].phase \in {"busy", "writing"}
      /\ dev' = [dev EXCEPT ![p] = Failed]
      /\ UNCHANGED <<machine, regs, call, buffer, i, pc, result>>
  BY DEF Fail, driver
<1>2. /\ p = Target /\ Active
      /\ dev[p].phase = "busy" => pc \in {"probe", "wait"} /\ i = 0
      /\ dev[p].phase = "writing" =>
           call.op = "write" /\ pc \in {"move", "finish"} /\ i = WORDS
  BY <1>1, AtWork
<1>3. Failed \in DriveStates
  BY AtRest
<1>4. dev \in [Positions -> DriveStates]
  BY DEF IInv, TypeOK
<1>5. /\ dev' \in [Positions -> DriveStates]
      /\ \A q \in Positions : q # p => dev'[q] = dev[q]
      /\ dev'[p] = Failed
  BY <1>1, <1>3, <1>4
<1>6. State'.phase = "error" /\ State'.moved = 0
  BY <1>1, <1>2, <1>5 DEF State, Target, Failed
<1>7. medium' \in [Positions -> [Sectors -> [Index -> Words]]]
  <2>1. CASE medium' = medium
    BY <2>1 DEF IInv, TypeOK
  <2>2. CASE dev[p].phase = "writing" /\ medium' = Stored(p)
    BY <2>2, SectorStored
  <2>3. QED
    BY <2>1, <2>2 DEF Fail
<1>8. TypeOK'
  BY <1>1, <1>5, <1>7 DEF IInv, TypeOK
<1>9. OthersQuiet' /\ CallInv' /\ MissingInv'
  <2>1. \A q \in Positions : q # p => dev'[q].phase = dev[q].phase
    BY <1>5
  <2>2. p \in machine.drives /\ p = call.position
    BY <1>2 DEF Active, Target
  <2>3. OthersQuiet' /\ MissingInv'
    BY <1>1, <2>1, <2>2, <1>6, <1>2 DEF IInv, OthersQuiet, MissingInv, State, Target
  <2>4. CallInv'
    BY <1>1 DEF IInv, CallInv, InCall, Here, Target
  <2>5. QED
    BY <2>3, <2>4
<1>10. CommandInv' /\ WaitInv'
  BY <1>6 DEF CommandInv, WaitInv
<1>11. MoveInv' /\ WriteInv' /\ ReadInv'
  <2>1. WORDS \in Nat /\ pc' = pc /\ i' = i /\ call' = call
    BY <1>1, AtaAssumption
  <2>2. pc = "move" => call.op = "write" /\ i = WORDS
    BY <1>1, <1>2
  <2>3. ~(pc = "move" /\ i < WORDS)
    BY <2>1, <2>2, SMT
  <2>4. MoveInv'
    BY <1>6, <2>1, <2>2, <2>3 DEF MoveInv
  <2>5. WriteInv' /\ ReadInv'
    BY <1>6, <2>1, <2>2 DEF WriteInv, ReadInv
  <2>6. QED
    BY <2>4, <2>5
<1>12. QED
  BY <1>8, <1>9, <1>10, <1>11 DEF IInv

LEMMA StoreStep ==
  ASSUME IInv, NEW p \in Positions, Store(p)
  PROVE  IInv'
<1>1. /\ dev[p].phase = "writing" /\ medium' = Stored(p)
      /\ dev' = [dev EXCEPT ![p] = Quiet]
      /\ UNCHANGED <<machine, regs, call, buffer, i, pc, result>>
  BY DEF Store, driver
<1>2. /\ p = Target /\ Active
      /\ call.op = "write" /\ pc \in {"move", "finish"} /\ i = WORDS
  BY <1>1, AtWork
<1>3. Quiet \in DriveStates
  BY AtRest
<1>4. dev \in [Positions -> DriveStates]
  BY DEF IInv, TypeOK
<1>5. /\ dev' \in [Positions -> DriveStates]
      /\ \A q \in Positions : q # p => dev'[q] = dev[q]
      /\ dev'[p] = Quiet
  BY <1>1, <1>3, <1>4
<1>6. State'.phase = "quiet"
  BY <1>1, <1>2, <1>5 DEF State, Target, Quiet
<1>7. /\ medium' \in [Positions -> [Sectors -> [Index -> Words]]]
      /\ OnMedium' = State.words
  BY <1>1, SectorStored DEF OnMedium, Target, TargetLba
<1>8. TypeOK'
  BY <1>1, <1>5, <1>7 DEF IInv, TypeOK
<1>9. OthersQuiet' /\ CallInv' /\ MissingInv'
  <2>1. \A q \in Positions : q # p => dev'[q].phase = dev[q].phase
    BY <1>5
  <2>2. p \in machine.drives /\ p = call.position
    BY <1>2 DEF Active, Target
  <2>3. OthersQuiet' /\ MissingInv'
    BY <1>1, <2>1, <2>2, <1>6, <1>2 DEF IInv, OthersQuiet, MissingInv, State, Target
  <2>4. CallInv'
    BY <1>1 DEF IInv, CallInv, InCall, Here, Target
  <2>5. QED
    BY <2>3, <2>4
<1>10. CommandInv' /\ WaitInv' /\ ReadInv'
  BY <1>1, <1>2, <1>6 DEF CommandInv, WaitInv, ReadInv
<1>11. MoveInv'
  <2>1. WORDS \in Nat /\ pc' = pc /\ i' = WORDS /\ call' = call
    BY <1>1, <1>2, AtaAssumption
  <2>2. ~(i' < WORDS')
    BY <2>1, SMT
  <2>3. QED
    BY <1>2, <1>6, <2>1, <2>2 DEF MoveInv
<1>12. WriteInv'
  <2>1. Bytewise(State.words, WORDS)
    BY <1>1, <1>2 DEF IInv, WriteInv, State
  <2>2. Bytewise(OnMedium, WORDS)'
    BY <1>1, <1>7, <2>1 DEF Bytewise
  <2>3. QED
    BY <1>1, <1>2, <1>6, <1>7, <2>2 DEF WriteInv, Bytewise
<1>13. QED
  BY <1>8, <1>9, <1>10, <1>11, <1>12 DEF IInv

-----------------------------------------------------------------------------
(* Moving words.                                                           *)

LEMMA Doubled ==
  ASSUME NEW k \in Nat
  PROVE  /\ (2 * k) % 2 = 0 /\ (2 * k) \div 2 = k
         /\ (2 * k + 1) % 2 # 0 /\ (2 * k + 1) \div 2 = k
<1>1. (2 * k) % 2 = 0 /\ (2 * k) \div 2 = k
  BY SMT
<1>2. (2 * k + 1) % 2 # 0 /\ (2 * k + 1) \div 2 = k
  BY SMT
<1>3. QED
  BY <1>1, <1>2

(* What is known when a word is moved.                                     *)
LEMMA AtWord ==
  ASSUME IInv, pc = "move", i < WORDS, NEW ops, call.op \in ops
  PROVE  /\ WORDS \in Nat /\ i \in Nat /\ i \in Index
         /\ 2 * i \in 0 .. 2 * WORDS - 1 /\ 2 * i + 1 \in 0 .. 2 * WORDS - 1
         /\ Selected(Here) = Target /\ Target \in Positions
         /\ dev \in [Positions -> DriveStates] /\ State \in DriveStates
         /\ InCall
         /\ Moving(ops) <=> Active /\ State.phase = "data"
         /\ Moving(ops) => State.moved = i /\ State.cmd = call.op
         /\ Active /\ call.op # "identify" => Moving(ops)
<1>1. WORDS \in Nat /\ i \in Nat /\ i \in Index
      /\ 2 * i \in 0 .. 2 * WORDS - 1 /\ 2 * i + 1 \in 0 .. 2 * WORDS - 1
  <2>1. WORDS \in Nat /\ i \in 0 .. WORDS
    BY AtaAssumption DEF IInv, TypeOK
  <2>2. QED
    BY <2>1, SMT DEF Index
<1>2. InCall
  BY DEF InCall
<1>3. Selected(Here) = Target /\ Target \in Positions
  BY <1>2, TargetSelected
<1>4. dev \in [Positions -> DriveStates] /\ State \in DriveStates
  BY <1>3 DEF IInv, TypeOK, State
<1>5. Active /\ State.phase = "data" => State.cmd = call.op /\ State.moved = i
  BY DEF IInv, CommandInv, MoveInv
<1>6. Active /\ call.op # "identify" => State.phase = "data"
  BY DEF IInv, MoveInv
<1>7. Moving(ops) <=> Active /\ State.phase = "data"
  <2>1. Moving(ops) <=> Target \in machine.drives /\ State.phase = "data"
                        /\ State.cmd \in ops
    BY <1>3 DEF Moving, State
  <2>2. QED
    BY <1>2, <1>5, <2>1 DEF Active
<1>8. QED
  BY <1>1, <1>2, <1>3, <1>4, <1>5, <1>6, <1>7

(* A step of the loop changes nothing of what is not in progress.          *)
LEMMA OthersKept ==
  ASSUME IInv, pc = "move", Target \in Positions, NEW r \in DriveStates,
         (dev' = [dev EXCEPT ![Target] = r] /\ Active) \/ dev' = dev,
         UNCHANGED <<machine, call, pc>>
  PROVE  /\ dev' \in [Positions -> DriveStates]
         /\ OthersQuiet' /\ MissingInv'
         /\ dev' = [dev EXCEPT ![Target] = r] => State' = r
<1>1. dev \in [Positions -> DriveStates]
  BY DEF IInv, TypeOK
<1>2. dev' \in [Positions -> DriveStates]
  BY <1>1
<1>3. \A q \in Positions : q # Target => dev'[q] = dev[q]
  BY <1>1
<1>4. Target \notin machine.drives => dev' = dev
  BY DEF Active
<1>5. OthersQuiet' /\ MissingInv'
  BY <1>3, <1>4 DEF IInv, OthersQuiet, MissingInv, Target
<1>6. dev' = [dev EXCEPT ![Target] = r] => State' = r
  BY <1>1 DEF State, Target
<1>7. QED
  BY <1>2, <1>5, <1>6

LEMMA MoveInStep ==
  ASSUME IInv, MoveIn
  PROVE  IInv'
<1> DEFINE ops == {"read", "identify"}
           data == IF Moving(ops) THEN State.words[State.moved] ELSE FLOATING
           r == Moved(State, Quiet)
<1>1. /\ pc = "move" /\ call.op # "write" /\ i < WORDS
      /\ UNCHANGED <<medium, machine, regs, call, pc, result>> /\ i' = i + 1
  BY DEF MoveIn
<1>2. call.op \in ops
  BY <1>1 DEF IInv, CallInv, InCall
<1>3. /\ WORDS \in Nat /\ i \in Nat /\ i \in Index
      /\ 2 * i \in 0 .. 2 * WORDS - 1 /\ 2 * i + 1 \in 0 .. 2 * WORDS - 1
      /\ Selected(Here) = Target /\ Target \in Positions
      /\ dev \in [Positions -> DriveStates] /\ State \in DriveStates
      /\ InCall
      /\ Moving(ops) <=> Active /\ State.phase = "data"
      /\ Moving(ops) => State.moved = i /\ State.cmd = call.op
      /\ Active /\ call.op # "identify" => Moving(ops)
  <2> HIDE DEF ops
  <2>1. QED
    BY <1>1, <1>2, AtWord
<1>4. /\ buffer' = [buffer EXCEPT ![2 * i] = data % 256, ![2 * i + 1] = data \div 256]
      /\ dev' = IF Moving(ops) THEN [dev EXCEPT ![Target] = r] ELSE dev
  BY <1>3 DEF MoveIn, State
<1>5. data \in Words
  <2>1. Moving(ops) => State.words[State.moved] \in Words
    BY <1>3 DEF DriveStates
  <2>2. FLOATING \in Words
    BY SMT DEF FLOATING, Words
  <2>3. QED
    BY <2>1, <2>2
<1>6. data % 256 \in Bytes /\ data \div 256 \in Bytes
  BY <1>5, BytesOfWord
<1> DEFINE lo == data % 256
           hi == data \div 256
<1> HIDE DEF data
<1>7. buffer' \in [0 .. 2 * WORDS - 1 -> Bytes]
      /\ buffer'[2 * i] = lo /\ buffer'[2 * i + 1] = hi
      /\ \A j \in 0 .. 2 * i - 1 : buffer'[j] = buffer[j]
  <2>1. buffer \in [0 .. 2 * WORDS - 1 -> Bytes]
    BY DEF IInv, TypeOK
  <2>2. buffer' = [buffer EXCEPT ![2 * i] = lo, ![2 * i + 1] = hi]
    BY <1>4
  <2>3. lo \in Bytes /\ hi \in Bytes
    BY <1>6
  <2> HIDE DEF lo, hi
  <2>4. buffer' \in [0 .. 2 * WORDS - 1 -> Bytes]
    BY <1>3, <2>1, <2>2, <2>3
  <2>5. buffer'[2 * i] = lo /\ buffer'[2 * i + 1] = hi
    BY <1>3, <2>1, <2>2, SMT
  <2>6. \A j \in 0 .. 2 * i - 1 : buffer'[j] = buffer[j]
    BY <1>3, <2>1, <2>2, SMT
  <2>7. QED
    BY <2>4, <2>5, <2>6
<1>8. /\ r \in DriveStates
      /\ r = Quiet \/ /\ State.moved + 1 # WORDS
                      /\ r.phase = State.phase /\ r.cmd = State.cmd
                      /\ r.lba = State.lba /\ r.words = State.words
                      /\ r.moved = State.moved + 1
  <2>1. CASE State.moved + 1 = WORDS
    BY <2>1, AtRest DEF Moved
  <2>2. CASE State.moved + 1 # WORDS
    <3>1. r = [State EXCEPT !.moved = @ + 1]
      BY <2>2 DEF Moved
    <3>2. State.moved \in Index
      BY <1>3 DEF DriveStates
    <3>3. State.moved + 1 \in Index
      BY <1>3, <2>2, <3>2, SMT DEF Index
    <3>4. QED
      BY <1>3, <2>2, <3>1, <3>3 DEF DriveStates
  <2>3. QED
    BY <2>1, <2>2
<1> HIDE DEF r
<1>9. /\ dev' \in [Positions -> DriveStates]
      /\ OthersQuiet' /\ MissingInv'
      /\ dev' = [dev EXCEPT ![Target] = r] => State' = r
  <2>1. (dev' = [dev EXCEPT ![Target] = r] /\ Active) \/ dev' = dev
    BY <1>3, <1>4
  <2>2. QED
    BY <1>1, <1>3, <1>8, <2>1, OthersKept
<1>10. TypeOK'
  <2>1. i' \in 0 .. WORDS
    BY <1>1, <1>3, SMT
  <2>2. QED
    BY <1>1, <1>7, <1>9, <2>1 DEF IInv, TypeOK
<1>11. CallInv' /\ WaitInv' /\ WriteInv'
  BY <1>1 DEF IInv, CallInv, WaitInv, WriteInv, InCall, Here, Target
<1>12. OnMedium' = OnMedium /\ Active' = Active /\ Target' = Target
       /\ TargetLba' = TargetLba
  BY <1>1 DEF OnMedium, Active, InCall, Target, TargetLba
<1>13. CASE Moving(ops)
  <2>1. State' = r /\ Active /\ State.phase = "data" /\ State.moved = i
    BY <1>3, <1>4, <1>9, <1>13
  <2>2. r.phase = "quiet" \/ (r.phase = "data" /\ i + 1 < WORDS /\ r.moved = i + 1)
    <3>1. r = Quiet => r.phase = "quiet"
      BY DEF Quiet
    <3>2. i + 1 # WORDS => i + 1 < WORDS
      BY <1>1, <1>3, SMT
    <3>3. QED
      BY <1>8, <2>1, <3>1, <3>2
  <2>3. CommandInv'
    BY <1>1, <1>8, <1>12, <2>1, <2>2 DEF IInv, CommandInv, Quiet
  <2>4. MoveInv'
    <3>1. i + 1 < WORDS => r.phase = "data"
      <4>1. r = Quiet => i + 1 = WORDS
        BY <1>3, <1>8, <2>1 DEF Quiet, r, Moved
      <4>2. QED
        BY <1>3, <1>8, <2>1, <4>1, SMT
    <3>2. QED
      BY <1>1, <1>12, <2>1, <2>2, <3>1 DEF MoveInv
  <2>5. ReadInv'
    <3> SUFFICES ASSUME call.op = "read", NEW j \in 0 .. 2 * (i + 1) - 1
                 PROVE  buffer'[j] = ByteOf(OnMedium, j)
      BY <1>1, <1>12 DEF ReadInv
    <3>1. State.words = OnMedium
      BY <2>1 DEF IInv, CommandInv
    <3>2. lo = OnMedium[i] % 256 /\ hi = OnMedium[i] \div 256
      BY <1>13, <2>1, <3>1 DEF data
    <3>3. CASE j \in 0 .. 2 * i - 1
      BY <1>1, <1>7, <2>1, <3>3 DEF IInv, ReadInv
    <3>4. CASE j = 2 * i
      BY <1>3, <1>7, <3>2, <3>4, Doubled DEF ByteOf
    <3>5. CASE j = 2 * i + 1
      BY <1>3, <1>7, <3>2, <3>5, Doubled DEF ByteOf
    <3>6. j \in 0 .. 2 * i - 1 \/ j = 2 * i \/ j = 2 * i + 1
      BY <1>3, SMT
    <3>7. QED
      BY <3>3, <3>4, <3>5, <3>6
  <2>6. QED
    BY <1>9, <1>10, <1>11, <2>3, <2>4, <2>5 DEF IInv
<1>14. CASE ~Moving(ops)
  <2>1. dev' = dev /\ (Active => State.phase # "data" /\ call.op = "identify")
    BY <1>3, <1>4, <1>14
  <2>2. State' = State
    BY <1>12, <2>1 DEF State
  <2>3. CommandInv' /\ MoveInv' /\ ReadInv'
    BY <1>1, <1>12, <2>1, <2>2 DEF IInv, CommandInv, MoveInv, ReadInv
  <2>4. QED
    BY <1>9, <1>10, <1>11, <2>3 DEF IInv
<1>15. QED
  BY <1>13, <1>14

LEMMA MoveOutStep ==
  ASSUME IInv, MoveOut
  PROVE  IInv'
<1> DEFINE ops == {"write"}
           word == Word(buffer[2 * i], buffer[2 * i + 1])
           words == [State.words EXCEPT ![State.moved] = word]
           received == [State EXCEPT !.words = words]
           r == Moved(received, [received EXCEPT !.phase = "writing"])
<1>1. /\ pc = "move" /\ call.op = "write" /\ i < WORDS
      /\ UNCHANGED <<medium, machine, regs, call, buffer, pc, result>> /\ i' = i + 1
  BY DEF MoveOut
<1>2. /\ WORDS \in Nat /\ i \in Nat /\ i \in Index
      /\ 2 * i \in 0 .. 2 * WORDS - 1 /\ 2 * i + 1 \in 0 .. 2 * WORDS - 1
      /\ Selected(Here) = Target /\ Target \in Positions
      /\ dev \in [Positions -> DriveStates] /\ State \in DriveStates
      /\ InCall
      /\ Moving(ops) <=> Active /\ State.phase = "data"
      /\ Moving(ops) => State.moved = i /\ State.cmd = call.op
      /\ Active /\ call.op # "identify" => Moving(ops)
  <2>1. call.op \in ops
    BY <1>1
  <2> HIDE DEF ops
  <2>2. QED
    BY <1>1, <2>1, AtWord
<1>3. dev' = IF Moving(ops) THEN [dev EXCEPT ![Target] = r] ELSE dev
  BY <1>2 DEF MoveOut, State
<1>4. word \in Words /\ buffer = call.data
  <2>1. buffer \in [0 .. 2 * WORDS - 1 -> Bytes]
    BY DEF IInv, TypeOK
  <2>2. QED
    BY <1>1, <1>2, <2>1, WordOfBytes DEF IInv, CallInv
<1> HIDE DEF word
<1>5. State.words \in [Index -> Words] /\ State.moved \in Index
  BY <1>2 DEF DriveStates
<1>6. words \in [Index -> Words]
  BY <1>4, <1>5
<1> HIDE DEF words
<1>7. received \in DriveStates
      /\ received = [phase |-> State.phase, cmd |-> State.cmd, lba |-> State.lba,
                     moved |-> State.moved, words |-> words]
  BY <1>2, <1>6, SMT DEF DriveStates
<1> HIDE DEF received
<1>8. /\ r \in DriveStates
      /\ r.cmd = State.cmd /\ r.lba = State.lba /\ r.words = words
      /\ \/ r.phase = "writing" /\ State.moved + 1 = WORDS
         \/ /\ State.moved + 1 # WORDS
            /\ r.phase = State.phase /\ r.moved = State.moved + 1
  <2>1. CASE State.moved + 1 = WORDS
    <3>1. r = [received EXCEPT !.phase = "writing"]
      BY <1>7, <2>1 DEF Moved
    <3>2. QED
      BY <1>7, <2>1, <3>1 DEF DriveStates
  <2>2. CASE State.moved + 1 # WORDS
    <3>1. r = [received EXCEPT !.moved = received.moved + 1]
      BY <1>7, <2>2 DEF Moved
    <3>2. State.moved + 1 \in Index
      BY <1>2, <1>5, <2>2, SMT DEF Index
    <3>3. QED
      BY <1>7, <2>2, <3>1, <3>2 DEF DriveStates
  <2>3. QED
    BY <2>1, <2>2
<1> HIDE DEF r
<1>9. /\ dev' \in [Positions -> DriveStates]
      /\ OthersQuiet' /\ MissingInv'
      /\ dev' = [dev EXCEPT ![Target] = r] => State' = r
  <2>1. (dev' = [dev EXCEPT ![Target] = r] /\ Active) \/ dev' = dev
    BY <1>2, <1>3
  <2>2. QED
    BY <1>1, <1>2, <1>8, <2>1, OthersKept
<1>10. TypeOK'
  <2>1. i' \in 0 .. WORDS
    BY <1>1, <1>2, SMT
  <2>2. QED
    BY <1>1, <1>9, <2>1 DEF IInv, TypeOK
<1>11. CallInv' /\ WaitInv' /\ ReadInv'
  BY <1>1 DEF IInv, CallInv, WaitInv, ReadInv, InCall, Here, Target
<1>12. OnMedium' = OnMedium /\ Active' = Active /\ Target' = Target
       /\ TargetLba' = TargetLba
  BY <1>1 DEF OnMedium, Active, InCall, Target, TargetLba
<1>13. CASE Active
  <2>1. State' = r /\ State.phase = "data" /\ State.moved = i /\ State.cmd = "write"
    BY <1>1, <1>2, <1>3, <1>9, <1>13
  <2>2. \/ r.phase = "writing" /\ i + 1 = WORDS
        \/ r.phase = "data" /\ i + 1 < WORDS /\ r.moved = i + 1
    <3>1. i + 1 # WORDS => i + 1 < WORDS
      BY <1>1, <1>2, SMT
    <3>2. QED
      BY <1>8, <2>1, <3>1
  <2>3. CommandInv'
    BY <1>1, <1>8, <1>12, <2>1, <2>2 DEF IInv, CommandInv
  <2>4. MoveInv'
    <3>1. i + 1 < WORDS => r.phase = "data"
      BY <1>2, <2>2, SMT
    <3>2. QED
      BY <1>1, <1>12, <2>1, <2>2, <3>1 DEF MoveInv
  <2>5. Bytewise(words, i + 1)
    <3>1. Bytewise(State.words, i)
      BY <1>1, <1>13, <2>1 DEF IInv, WriteInv
    <3>2. words[i] = Word(call.data[2 * i], call.data[2 * i + 1])
      BY <1>2, <1>4, <1>5, <2>1 DEF words, word
    <3>3. ASSUME NEW k \in 0 .. (i + 1) - 1
          PROVE  words[k] = Word(call.data[2 * k], call.data[2 * k + 1])
      <4>1. CASE k = i
        BY <3>2, <4>1
      <4>2. CASE k # i
        <5>1. k \in 0 .. i - 1 /\ k \in Index
          BY <1>1, <1>2, <4>2, SMT DEF Index
        <5>2. words[k] = State.words[k]
          BY <1>5, <2>1, <4>2, <5>1 DEF words
        <5>3. QED
          BY <3>1, <5>1, <5>2 DEF Bytewise
      <4>3. QED
        BY <4>1, <4>2
    <3>4. QED
      BY <3>3 DEF Bytewise
  <2>6. WriteInv'
    <3>1. Bytewise(State.words, i)'
      BY <1>1, <1>8, <2>1, <2>5 DEF Bytewise
    <3>2. State'.phase = "writing" => i' = WORDS /\ Bytewise(State.words, WORDS)'
      BY <1>1, <1>8, <2>1, <2>2, <2>5 DEF Bytewise
    <3>3. QED
      BY <1>1, <1>8, <2>1, <2>2, <3>1, <3>2 DEF WriteInv
  <2>7. QED
    BY <1>9, <1>10, <1>11, <2>3, <2>4, <2>6 DEF IInv
<1>14. CASE ~Active
  BY <1>9, <1>10, <1>11, <1>12, <1>14
     DEF IInv, CommandInv, MoveInv, WriteInv
<1>15. QED
  BY <1>13, <1>14

-----------------------------------------------------------------------------
(* A call begins.                                                          *)

LEMMA CommandStep ==
  ASSUME IInv,
         NEW op \in {"read", "write", "identify"}, NEW p \in Positions,
         NEW lba \in {0} \union Lbas, NEW data \in Contents,
         NEW registers \in Registers, registers.drive = Drive(p),
         op # "identify" => lba \in Lbas /\ LbaOf(registers) = lba % LBA_LIMIT,
         Command(op, p, lba, data, registers),
         pc' = IF op = "identify" THEN "probe" ELSE "wait"
  PROVE  IInv'
<1> DEFINE r == Accepted(op, LbaOf(registers))
<1>1. /\ pc = "idle"
      /\ call' = [op |-> op, position |-> p, lba |-> lba, data |-> data]
      /\ buffer' = data /\ i' = 0 /\ result' = 0
      /\ regs' = [regs EXCEPT ![Controller(p)] = registers]
      /\ UNCHANGED <<medium, machine>>
  BY DEF Command
<1>2. Controller(p) \in Controllers /\ 2 * Controller(p) + Drive(p) = p
  BY Places
<1>3. dev' = IF p \in machine.drives THEN [dev EXCEPT ![p] = r] ELSE dev
  BY <1>2, Zenon DEF Command
<1>4. r \in DriveStates /\ r.phase = "busy" /\ r.cmd = op /\ r.moved = 0
      /\ r.lba = LbaOf(registers)
  <2>1. LbaOf(registers) \in Nat
    BY AddressTyped
  <2>2. QED
    BY <2>1, AtRest DEF Accepted, DriveStates
<1> HIDE DEF r
<1>5. dev \in [Positions -> DriveStates] /\ regs \in [Controllers -> Registers]
  BY DEF IInv, TypeOK
<1>6. /\ dev' \in [Positions -> DriveStates]
      /\ \A q \in Positions : q # p => dev'[q] = dev[q]
      /\ p \in machine.drives => dev'[p] = r
      /\ p \notin machine.drives => dev'[p] = dev[p]
  BY <1>3, <1>4, <1>5
<1>7. /\ regs' \in [Controllers -> Registers]
      /\ regs'[Controller(p)] = registers
  BY <1>1, <1>2, <1>5
<1>8. Target' = p /\ Here' = Controller(p) /\ call'.op = op /\ call'.lba = lba
      /\ call'.data = data
  BY <1>1 DEF Target, Here
<1>9. TypeOK'
  <2>1. data \in [0 .. 2 * WORDS - 1 -> Bytes]
    BY AtaAssumption
  <2>2. i' \in 0 .. WORDS
    BY <1>1, AtaAssumption, SMT
  <2>3. call' \in [op : {"none", "read", "write", "identify"},
                   position : Positions, lba : {0} \union Lbas,
                   data : {Zero} \union Contents]
    BY <1>1
  <2>4. pc' \in {"idle", "probe", "wait", "move", "finish"} /\ result' \in {0, -1}
    BY <1>1
  <2>5. /\ medium' \in [Positions -> [Sectors -> [Index -> Words]]]
        /\ machine' \in Machines
    BY <1>1 DEF IInv, TypeOK
  <2>6. buffer' \in [0 .. 2 * WORDS - 1 -> Bytes]
    BY <1>1, <2>1
  <2>7. QED
    BY <1>6, <1>7, <2>2, <2>3, <2>4, <2>5, <2>6 DEF TypeOK
<1>10. OthersQuiet' /\ MissingInv'
  BY <1>1, <1>6, <1>8 DEF IInv, OthersQuiet, MissingInv, Target
<1>11. CallInv'
  BY <1>1, <1>7, <1>8 DEF CallInv
<1>12. ASSUME Active'
       PROVE  State'.phase = "busy" /\ State'.cmd = op /\ State'.moved = 0
              /\ State'.lba = LbaOf(registers)
  <2>1. p \in machine.drives
    BY <1>1, <1>8, <1>12 DEF Active
  <2>2. State' = r
    BY <1>6, <1>8, <2>1 DEF State
  <2>3. QED
    BY <1>4, <2>2
<1>13. CommandInv' /\ WaitInv'
  BY <1>8, <1>12 DEF CommandInv, WaitInv, TargetLba
<1>14. MoveInv' /\ WriteInv' /\ ReadInv'
  BY <1>12 DEF MoveInv, WriteInv, ReadInv
<1>15. QED
  BY <1>9, <1>10, <1>11, <1>13, <1>14 DEF IInv

LEMMA SectorCallStep ==
  ASSUME IInv, NEW p \in Positions, NEW lba \in Lbas, NEW data \in Contents,
         ata_read_sector_disk(p, lba, data) \/ ata_write_sector_disk(p, lba, data)
  PROVE  IInv'
<1>1. lba \in Nat
  BY AtaAssumption
<1>2. TaskFile(p, lba) \in Registers /\ TaskFile(p, lba).drive = Drive(p)
      /\ LbaOf(TaskFile(p, lba)) = lba % LBA_LIMIT
  BY <1>1, Address
<1>3. PICK op \in {"read", "write"} :
        Command(op, p, lba, data, TaskFile(p, lba)) /\ pc' = "wait"
  BY DEF ata_read_sector_disk, ata_write_sector_disk
<1>4. QED
  BY <1>2, <1>3, CommandStep

LEMMA IdentifyStep ==
  ASSUME IInv, NEW p \in Positions, NEW data \in Contents, identify(p, data)
  PROVE  IInv'
<1> DEFINE registers == [regs[Controller(p)] EXCEPT !.drive = Drive(p), !.top = 0]
<1>1. registers \in Registers /\ registers.drive = Drive(p)
  <2>1. Controller(p) \in Controllers /\ Drive(p) \in 0 .. 1
    BY Places
  <2> DEFINE old == regs[Controller(p)]
             half == [old EXCEPT !.drive = Drive(p)]
  <2>2. old \in Registers
    BY <2>1 DEF IInv, TypeOK
  <2>3. registers = [half EXCEPT !.top = 0]
    BY Zenon
  <2> HIDE DEF old, registers
  <2>4. half \in Registers /\ half.drive = Drive(p)
    BY <2>1, <2>2, SMT DEF Registers
  <2> HIDE DEF half
  <2>5. QED
    BY <2>1, <2>3, <2>4, SMT DEF Registers
<1>2. Command("identify", p, 0, data, registers) /\ pc' = "probe"
  BY DEF identify
<1> HIDE DEF registers
<1>3. QED
  BY <1>1, <1>2, CommandStep

LEMMA PowerLossStep ==
  ASSUME IInv, PowerLoss
  PROVE  IInv'
<1>1. medium' \in [Positions -> [Sectors -> [Index -> Words]]]
  <2>1. CASE medium' = medium
    BY <2>1 DEF IInv, TypeOK
  <2>2. CASE medium' # medium
    BY <2>2, SectorStored DEF PowerLoss
  <2>3. QED
    BY <2>1, <2>2
<1>2. /\ Cleared \in Registers /\ Zero \in [0 .. 2 * WORDS - 1 -> Bytes]
      /\ 0 \in 0 .. WORDS
  <2>1. Cleared \in Registers
    BY SMT DEF Cleared, Registers, Bytes
  <2>2. Zero \in [0 .. 2 * WORDS - 1 -> Bytes]
    BY SMT DEF Zero, Bytes
  <2>3. 0 \in 0 .. WORDS
    BY AtaAssumption, SMT
  <2>4. QED
    BY <2>1, <2>2, <2>3
<1>3. TypeOK'
  BY <1>1, <1>2, AtRest DEF PowerLoss, TypeOK, NoCall, Positions
<1>4. pc' = "idle" /\ \A p \in Positions : dev'[p].phase = "quiet"
  BY DEF PowerLoss, Quiet
<1>5. QED
  BY <1>3, <1>4
     DEF IInv, OthersQuiet, CallInv, MissingInv, CommandInv, WaitInv, MoveInv,
         WriteInv, ReadInv, InCall, Active

LEMMA StutterStep ==
  ASSUME IInv, UNCHANGED vars
  PROVE  IInv'
BY DEF vars, driver, IInv, TypeOK, OthersQuiet, CallInv, MissingInv, CommandInv,
       WaitInv, MoveInv, WriteInv, ReadInv, InCall, Active, Here, Target,
       TargetLba, State, OnMedium, Bytewise

LEMMA StepIInv ==
  ASSUME IInv, [Next]_vars
  PROVE  IInv'
<1>1. CASE Call
  <2>1. CASE \E data \in Contents, lba \in Lbas :
               ata_read_sector(lba, data) \/ ata_write_sector(lba, data)
    <3>1. 0 \in Positions
      BY SMT DEF Positions
    <3>2. QED
      BY <2>1, <3>1, SectorCallStep DEF ata_read_sector, ata_write_sector
  <2>2. CASE \E data \in Contents, lba \in Lbas, p \in Positions :
               \/ ata_read_sector_disk(p, lba, data)
               \/ ata_write_sector_disk(p, lba, data)
    BY <2>2, SectorCallStep
  <2>3. CASE \E data \in Contents, p \in Positions : identify(p, data)
    BY <2>3, IdentifyStep
  <2>4. QED
    BY <1>1, <2>1, <2>2, <2>3 DEF Call
<1>2. CASE Run
  BY <1>2, ProbeStep, WaitStep, MoveInStep, MoveOutStep, MoveDoneStep, FinishStep
     DEF Run
<1>3. CASE Device
  BY <1>3, ReadyStep, FailStep, StoreStep DEF Device
<1>4. CASE PowerLoss
  BY <1>4, PowerLossStep
<1>5. CASE UNCHANGED vars
  BY <1>5, StutterStep
<1>6. QED
  BY <1>1, <1>2, <1>3, <1>4, <1>5 DEF Next

LEMMA Invariance == Spec => []IInv
BY InitIInv, StepIInv, PTL DEF Spec

(* Every variable keeps its type; the registers are written with bytes.    *)
THEOREM TypeCorrect == Spec => []TypeOK
BY Invariance, PTL DEF IInv

(* No drive is left in the middle of a command when the driver turns to    *)
(* another one of the same controller (filesystem.c, ata_write_sector_disk *)
(* waits for the drive after the last word).                               *)
THEOREM OthersAlwaysQuiet == Spec => []OthersQuiet
BY Invariance, PTL DEF IInv

-----------------------------------------------------------------------------
(* What the callers see.                                                   *)

Seen(m) == [p \in Positions |-> [l \in Sectors |-> BytesOf(m[p][l])]]

Request == IF pc = "idle" THEN [op |-> "none"] ELSE call

Reply ==
  IF pc = "idle" /\ call # NoCall
    THEN [result |-> result, data |-> buffer] ELSE [result |-> 1]

Unseen == UNCHANGED <<Seen(medium), machine, Request, Reply>>

LEMMA UnseenStutters == Unseen => UNCHANGED Promise!vars
BY DEF Unseen, Promise!vars, Seen, Request, Reply

(* A step inside a call that leaves the media alone is not seen.           *)
LEMMA InsideUnseen ==
  ASSUME InCall, InCall', UNCHANGED <<medium, machine, call>>
  PROVE  Unseen
BY DEF InCall, Unseen, Seen, Request, Reply

LEMMA InitMaps == Init => Promise!Init
BY DEF Init, Promise!Init, Promise!NoRequest, Promise!NoAnswer

LEMMA CommandMaps ==
  ASSUME NEW op \in {"read", "write", "identify"}, NEW p \in Positions,
         NEW lba \in {0} \union Lbas, NEW data \in Contents, NEW registers,
         Command(op, p, lba, data, registers), InCall'
  PROVE  Promise!Next
<1>1. /\ pc = "idle" /\ pc' # "idle"
      /\ call' = [op |-> op, position |-> p, lba |-> lba, data |-> data]
      /\ UNCHANGED <<medium, machine>>
  BY DEF Command, InCall
<1>2. call' \in Promise!Requests
  BY <1>1 DEF Promise!Requests
<1>3. Promise!Ask(call')
  BY <1>1 DEF Promise!Ask, Promise!NoRequest, Promise!NoAnswer
<1>4. QED
  BY <1>2, <1>3 DEF Promise!Next

(* What a function answers when it returns, and what that needs.           *)
LEMMA ReturnMaps ==
  ASSUME IInv, InCall, NEW value \in {0, -1}, Return(value),
         UNCHANGED <<medium, machine, call, buffer>>,
         Here \in machine.controllers,
         Target \in machine.drives /\ value = 0 /\ call.op \in {"read", "write"} =>
           BytesOf(OnMedium) = buffer,
         call.op = "identify" /\ value = 0 => Target \in machine.drives
  PROVE  Promise!Next
<1>1. call.op \in {"read", "write", "identify"}
  BY DEF IInv, CallInv
<1>2. call # NoCall /\ call # [op |-> "none"]
  <2>1. NoCall.op = "none"
    BY DEF NoCall
  <2>2. [op |-> "none"].op = "none"
    OBVIOUS
  <2>3. QED
    BY <1>1, <2>1, <2>2
<1>3. Reply' = [result |-> value, data |-> buffer] /\ Request = call
      /\ Request' = [op |-> "none"]
  BY <1>2 DEF Reply, Request, Return, InCall
<1>4. Reply'.result = value /\ Reply'.data = buffer
  BY <1>3
<1>5. call.op \in {"read", "write"} => Seen(medium)[Target][TargetLba] = BytesOf(OnMedium)
  <2>1. Target \in Positions
    BY TargetSelected
  <2>2. call.op \in {"read", "write"} => TargetLba \in Sectors
    BY DEF IInv, CallInv, Sectors, TargetLba
  <2>3. QED
    BY <2>1, <2>2 DEF Seen, OnMedium
<1>6. TargetLba = Promise!Sector(call.lba)
  BY DEF TargetLba, Promise!Sector, LBA_LIMIT
<1>7. call.op = "write" => buffer = call.data
  BY DEF IInv, CallInv
<1>8. Promise!Kept(value, buffer)
  BY <1>3, <1>5, <1>6, <1>7
     DEF Promise!Kept, Promise!Present, Promise!Controller, Request, Seen, Here,
         Controller, Target
<1>9. Promise!Answer(value, buffer)
  BY <1>2, <1>3, <1>8
     DEF Promise!Answer, Promise!NoRequest, Request, Reply, Seen
<1>10. QED
  BY <1>4, <1>9 DEF Promise!Next, Reply

LEMMA MoveDoneMaps ==
  ASSUME IInv, MoveDone
  PROVE  Promise!Next \/ Unseen
<1>1. /\ pc = "move" /\ InCall /\ i = WORDS
      /\ UNCHANGED <<medium, machine, regs, dev, call, buffer, i>>
  BY DEF MoveDone, InCall
<1>2. CASE call.op = "write" /\ pc' = "finish"
  BY <1>1, <1>2, InsideUnseen DEF InCall
<1>3. CASE call.op # "write" /\ Return(0)
  <2>1. Here \in machine.controllers
    BY <1>1 DEF IInv, CallInv
  <2>2. call.op = "identify" => Target \in machine.drives
    BY <1>1, <2>1 DEF IInv, CallInv
  <2>3. Target \in machine.drives /\ call.op = "read" => BytesOf(OnMedium) = buffer
    <3> SUFFICES ASSUME Target \in machine.drives, call.op = "read"
                 PROVE  BytesOf(OnMedium) = buffer
      OBVIOUS
    <3>1. \A j \in 0 .. 2 * WORDS - 1 : buffer[j] = ByteOf(OnMedium, j)
      BY <1>1 DEF IInv, ReadInv, Active
    <3>2. buffer \in [0 .. 2 * WORDS - 1 -> Bytes]
      BY DEF IInv, TypeOK
    <3>3. QED
      BY <3>1, <3>2 DEF BytesOf
  <2>4. QED
    BY <1>1, <1>3, <2>1, <2>2, <2>3, ReturnMaps
<1>4. QED
  BY <1>2, <1>3 DEF MoveDone

LEMMA FinishMaps ==
  ASSUME IInv, Finish
  PROVE  Promise!Next
<1> DEFINE value == IF Error(Here) THEN -1 ELSE 0
<1>1. /\ pc = "finish" /\ InCall /\ ~Busy(Here) /\ Return(value)
      /\ UNCHANGED <<medium, machine, regs, dev, call, buffer, i>>
  BY DEF Finish, InCall
<1>2. Selected(Here) = Target /\ Target \in Positions
  BY <1>1, TargetSelected
<1>3. Here \in machine.controllers /\ call.op = "write" /\ buffer = call.data
  BY <1>1 DEF IInv, CallInv
<1>4. ASSUME Target \in machine.drives, value = 0
      PROVE  BytesOf(OnMedium) = buffer
  <2>1. Active
    BY <1>1, <1>4 DEF Active
  <2>2. State.phase = "quiet"
    BY <1>1, <1>2, <1>3, <1>4, <2>1 DEF IInv, WriteInv, Busy, Error, State
  <2>3. Bytewise(OnMedium, WORDS)
    BY <1>3, <2>1, <2>2 DEF IInv, WriteInv
  <2>4. OnMedium \in [Index -> Words]
    <3>1. TargetLba \in Sectors
      BY <1>1, <1>3 DEF IInv, CallInv, TargetLba, Sectors
    <3>2. QED
      BY <1>2, <3>1 DEF IInv, TypeOK, OnMedium
  <2>5. QED
    BY <1>1, <1>3, <2>3, <2>4, AllBytes DEF IInv
<1>5. value \in {0, -1}
  OBVIOUS
<1> HIDE DEF value
<1>6. QED
  BY <1>1, <1>3, <1>4, <1>5, ReturnMaps

LEMMA WaitMaps ==
  ASSUME IInv, Wait
  PROVE  Promise!Next \/ Unseen
<1>1. /\ pc = "wait" /\ InCall /\ ~Busy(Here)
      /\ UNCHANGED <<medium, machine, regs, dev, call, buffer, i>>
  BY DEF Wait, InCall
<1>2. Here \in machine.controllers
  BY <1>1 DEF Busy
<1>3. CASE call.op # "identify" /\ Return(-1)
  BY <1>1, <1>2, <1>3, ReturnMaps
<1>4. CASE pc' = "move"
  BY <1>1, <1>4, InsideUnseen DEF InCall
<1>5. QED
  BY <1>3, <1>4 DEF Wait

LEMMA ProbeMaps ==
  ASSUME IInv, Probe
  PROVE  Promise!Next \/ Unseen
<1>1. /\ pc = "probe" /\ InCall
      /\ UNCHANGED <<medium, machine, regs, dev, call, buffer, i>>
  BY DEF Probe, InCall
<1>2. CASE Nothing(Here) /\ Return(-1)
  BY <1>1, <1>2, ReturnMaps DEF Nothing
<1>3. CASE pc' = "wait"
  BY <1>1, <1>3, InsideUnseen DEF InCall
<1>4. QED
  BY <1>2, <1>3 DEF Probe

(* The sector of the call, written as a whole.                             *)
LEMMA CommitMaps ==
  ASSUME IInv, NEW p \in Positions, dev[p].phase = "writing"
  PROVE  /\ Request = call /\ call.op = "write" /\ Target \in machine.drives
         /\ Seen(Stored(p)) = [Seen(medium) EXCEPT
                                 ![Target] = [@ EXCEPT ![TargetLba] = call.data]]
<1>1. /\ p = Target /\ Active /\ call.op = "write" /\ i = WORDS
      /\ TargetLba \in Sectors
  BY AtWork
<1>2. Stored(p) = [medium EXCEPT ![Target] = [@ EXCEPT ![TargetLba] = State.words]]
  BY SectorStored
<1>3. medium \in [Positions -> [Sectors -> [Index -> Words]]]
      /\ State \in DriveStates
  BY <1>1 DEF IInv, TypeOK, State
<1>4. BytesOf(State.words) = call.data
  <2>1. Bytewise(State.words, WORDS)
    BY <1>1 DEF IInv, WriteInv, State
  <2>2. State.words \in [Index -> Words]
    BY <1>3 DEF DriveStates
  <2>3. QED
    BY <1>1, <2>1, <2>2, AllBytes DEF IInv, Active
<1> DEFINE old == Seen(medium)
           new == [old EXCEPT ![Target] = [@ EXCEPT ![TargetLba] = call.data]]
<1>5. ASSUME NEW q \in Positions, NEW l \in Sectors
      PROVE  BytesOf(Stored(p)[q][l]) = new[q][l]
  <2>1. old[q][l] = BytesOf(medium[q][l])
    BY DEF Seen
  <2>2. DOMAIN old = Positions /\ DOMAIN old[q] = Sectors
    BY DEF Seen
  <2> HIDE DEF old
  <2>3. CASE q = Target /\ l = TargetLba
    <3>1. new[q][l] = call.data
      BY <1>1, <2>2, <2>3
    <3>2. Stored(p)[q][l] = State.words
      BY <2>3, SectorStored
    <3>3. QED
      BY <1>4, <3>1, <3>2
  <2>4. CASE q # Target \/ l # TargetLba
    <3>1. new[q][l] = old[q][l]
      BY <1>1, <2>2, <2>4
    <3>2. Stored(p)[q][l] = medium[q][l]
      BY <1>1, <1>2, <1>3, <2>4
    <3>3. QED
      BY <2>1, <3>1, <3>2
  <2>5. QED
    BY <2>3, <2>4
<1>6. new = [q \in Positions |-> [l \in Sectors |-> new[q][l]]]
  <2>1. old = [q \in Positions |-> [l \in Sectors |-> old[q][l]]]
    BY DEF Seen
  <2> HIDE DEF old
  <2>2. QED
    BY <1>1, <2>1
<1> HIDE DEF new
<1>7. Seen(Stored(p)) = new
  BY <1>5, <1>6 DEF Seen
<1>8. QED
  BY <1>1, <1>7 DEF new, Request, Active, InCall

LEMMA DeviceMaps ==
  ASSUME IInv, Device
  PROVE  Promise!Next \/ Unseen
<1>1. PICK p \in Positions : Ready(p) \/ Fail(p) \/ Store(p)
  BY DEF Device
<1>2. UNCHANGED <<machine, call, buffer, pc, result>>
  BY <1>1 DEF Ready, Fail, Store, driver
<1>3. medium' = medium \/ (dev[p].phase = "writing" /\ medium' = Stored(p))
  BY <1>1 DEF Ready, Fail, Store
<1>4. Request' = Request /\ Reply' = Reply
  BY <1>2 DEF Request, Reply
<1>5. CASE medium' = medium
  BY <1>2, <1>4, <1>5 DEF Unseen, Seen
<1>6. CASE dev[p].phase = "writing" /\ medium' = Stored(p)
  <2>1. /\ Request = call /\ call.op = "write" /\ Target \in machine.drives
        /\ Seen(medium') = [Seen(medium) EXCEPT
                              ![Target] = [@ EXCEPT ![TargetLba] = call.data]]
    BY <1>6, CommitMaps
  <2>2. TargetLba = Promise!Sector(call.lba)
    BY DEF TargetLba, Promise!Sector, LBA_LIMIT
  <2>3. Promise!Commit
    <3>1. Request # [op |-> "none"]
      <4>1. [op |-> "none"].op = "none"
        OBVIOUS
      <4>2. QED
        BY <2>1, <4>1
    <3>2. Seen(medium') = [Seen(medium) EXCEPT ![call.position] =
                             [@ EXCEPT ![Promise!Sector(call.lba)] = call.data]]
      BY <2>1, <2>2 DEF Target
    <3>3. QED
      BY <1>2, <1>4, <2>1, <3>1, <3>2, Zenon
         DEF Promise!Commit, Promise!NoRequest, Promise!Present, Promise!Written,
             Request, Reply, Seen, Target
  <2>4. QED
    BY <2>3 DEF Promise!Next
<1>7. QED
  BY <1>3, <1>5, <1>6

LEMMA PowerLossMaps ==
  ASSUME IInv, PowerLoss
  PROVE  Promise!Next
<1>1. /\ machine' \in Machines /\ pc' = "idle" /\ call' = NoCall
      /\ Request' = [op |-> "none"] /\ Reply' = [result |-> 1]
  BY DEF PowerLoss, Request, Reply, NoCall
<1>2. CASE medium' = medium
  <2>1. Seen(medium') = Seen(medium)
    BY <1>2
  <2>2. Promise!PowerLoss
    BY <1>1, <2>1, Zenon
       DEF Promise!PowerLoss, Promise!NoRequest, Promise!NoAnswer, Request, Reply, Seen
  <2>3. QED
    BY <2>2 DEF Promise!Next
<1>3. CASE medium' # medium
  <2>1. PICK p \in Positions : dev[p].phase = "writing" /\ medium' = Stored(p)
    BY <1>3 DEF PowerLoss
  <2>2. /\ Request = call /\ call.op = "write" /\ Target \in machine.drives
        /\ Seen(medium') = [Seen(medium) EXCEPT
                              ![Target] = [@ EXCEPT ![TargetLba] = call.data]]
    BY <2>1, CommitMaps
  <2>3. TargetLba = Promise!Sector(call.lba)
    BY DEF TargetLba, Promise!Sector, LBA_LIMIT
  <2>4. Request # [op |-> "none"]
    <3>1. [op |-> "none"].op = "none"
      OBVIOUS
    <3>2. QED
      BY <2>2, <3>1
  <2>5. Seen(medium') = [Seen(medium) EXCEPT ![call.position] =
                           [@ EXCEPT ![Promise!Sector(call.lba)] = call.data]]
    BY <2>2, <2>3 DEF Target
  <2>6. Promise!PowerLoss
    BY <1>1, <2>2, <2>4, <2>5, Zenon
       DEF Promise!PowerLoss, Promise!NoRequest, Promise!NoAnswer, Promise!Present,
           Promise!Written, Request, Reply, Seen, Target
  <2>7. QED
    BY <2>6 DEF Promise!Next
<1>4. QED
  BY <1>2, <1>3

LEMMA CallMaps ==
  ASSUME IInv, Call
  PROVE  Promise!Next
<1>1. 0 \in Positions
  BY SMT DEF Positions
<1>2. CASE \E data \in Contents, lba \in Lbas, p \in Positions :
             \/ ata_read_sector_disk(p, lba, data)
             \/ ata_write_sector_disk(p, lba, data)
  <2>1. PICK data \in Contents, lba \in Lbas, p \in Positions :
          \/ ata_read_sector_disk(p, lba, data)
          \/ ata_write_sector_disk(p, lba, data)
    BY <1>2
  <2>2. PICK op \in {"read", "write"} :
          Command(op, p, lba, data, TaskFile(p, lba)) /\ pc' = "wait"
    BY <2>1 DEF ata_read_sector_disk, ata_write_sector_disk
  <2>3. QED
    BY <2>2, CommandMaps DEF InCall
<1>3. CASE \E data \in Contents, p \in Positions : identify(p, data)
  <2>1. PICK data \in Contents, p \in Positions : identify(p, data)
    BY <1>3
  <2>2. PICK registers :
          Command("identify", p, 0, data, registers) /\ pc' = "probe"
    BY <2>1 DEF identify
  <2>3. QED
    BY <2>2, CommandMaps DEF InCall
<1>4. QED
  BY <1>1, <1>2, <1>3 DEF Call, ata_read_sector, ata_write_sector

LEMMA StepMaps ==
  ASSUME IInv, [Next]_vars
  PROVE  [Promise!Next]_Promise!vars
<1>1. Promise!Next \/ Unseen
  <2>1. CASE Call
    BY <2>1, CallMaps
  <2>2. CASE Run
    <3>1. CASE MoveIn \/ MoveOut
      BY <3>1, InsideUnseen DEF MoveIn, MoveOut, InCall
    <3>2. QED
      BY <2>2, <3>1, ProbeMaps, WaitMaps, MoveDoneMaps, FinishMaps DEF Run
  <2>3. CASE Device
    BY <2>3, DeviceMaps
  <2>4. CASE PowerLoss
    BY <2>4, PowerLossMaps
  <2>5. CASE UNCHANGED vars
    BY <2>5 DEF vars, driver, Unseen, Seen, Request, Reply
  <2> QED
    BY <2>4, <2>5, <2>3, <2>1, <2>2 DEF Next
<1>2. QED
  BY <1>1, UnseenStutters

(* A sector written and answered with 0 is on the drive that was asked for *)
(* and at its place, whole; what is read is what is there; a call that     *)
(* fails, or a power loss, leaves every other sector alone (the sector     *)
(* functions of filesystem.c as their callers use them).                   *)
THEOREM StoreImplemented == Spec => ImplementsStore
<1>1. IInv /\ [Next]_vars => [Promise!Next]_Promise!vars
  BY StepMaps
<1>2. Init => Promise!Init
  BY InitMaps
<1>3. QED
  BY <1>1, <1>2, Invariance, PTL DEF Spec, ImplementsStore, Promise!Spec

-----------------------------------------------------------------------------
(* Why a call comes to its end.                                            *)

(* A drive at work has one step before it, to its data or to an error.     *)
Work(phase) == IF phase \in {"busy", "writing"} THEN 1 ELSE 0

(* Two steps for each word still to be moved, and one for each stage; with *)
(* the last word of a write the drive has work again.                      *)
LeftAt(at, k, phase) ==
  CASE at = "idle"   -> 0
    [] at = "finish" -> 1 + Work(phase)
    [] at = "move"   -> 2 + 2 * (WORDS - k) + Work(phase)
    [] at = "wait"   -> 3 + 2 * WORDS + Work(phase)
    [] at = "probe"  -> 4 + 2 * WORDS + Work(phase)

Left == LeftAt(pc, i, State.phase)

LEMMA LeftIs ==
  ASSUME NEW k, NEW phase
  PROVE  /\ LeftAt("idle", k, phase) = 0
         /\ LeftAt("finish", k, phase) = 1 + Work(phase)
         /\ LeftAt("move", k, phase) = 2 + 2 * (WORDS - k) + Work(phase)
         /\ LeftAt("wait", k, phase) = 3 + 2 * WORDS + Work(phase)
         /\ LeftAt("probe", k, phase) = 4 + 2 * WORDS + Work(phase)
         /\ Work(phase) \in {0, 1}
BY DEF LeftAt, Work

LEMMA LeftBound ==
  ASSUME IInv
  PROVE  Left \in 0 .. 5 + 2 * WORDS
<1>1. WORDS \in Nat /\ i \in 0 .. WORDS
  BY AtaAssumption DEF IInv, TypeOK
<1>2. pc \in {"idle", "probe", "wait", "move", "finish"}
  BY DEF IInv, TypeOK
<1> QED
  BY <1>1, <1>2, LeftIs DEF Left

LEMMA RunAdvances ==
  ASSUME IInv, Run
  PROVE  Left' < Left
<1>1. WORDS \in Nat /\ i \in 0 .. WORDS
  BY AtaAssumption DEF IInv, TypeOK
<1>2. call' = call /\ Target' = Target
  BY DEF Run, Probe, Wait, MoveIn, MoveOut, MoveDone, Finish, Target
<1>3. CASE Probe
  <2>1. pc = "probe" /\ pc' \in {"idle", "wait"} /\ State' = State
    BY <1>2, <1>3 DEF Probe, Return, State
  <2> QED
    BY <1>1, <2>1, LeftIs DEF Left
<1>4. CASE Wait
  <2>1. pc = "wait" /\ pc' \in {"idle", "move"} /\ State' = State /\ i' = i
    BY <1>2, <1>4 DEF Wait, Return, State
  <2> QED
    BY <1>1, <2>1, LeftIs DEF Left
<1>5. CASE MoveIn \/ MoveOut
  <2>1. pc = "move" /\ pc' = "move" /\ i < WORDS /\ i' = i + 1
    BY <1>5 DEF MoveIn, MoveOut
  <2>2. CASE State' = State
    BY <1>1, <2>1, <2>2, LeftIs DEF Left
  <2>3. CASE State.phase = "data"
    <3>1. Work(State.phase) = 0
      BY <2>3 DEF Work
    <3> QED
      BY <1>1, <2>1, <3>1, LeftIs DEF Left
  <2>4. State' = State \/ State.phase = "data"
    <3>1. Selected(Here) = Target /\ dev \in [Positions -> DriveStates]
      BY <2>1, TargetSelected DEF InCall, IInv, TypeOK
    <3>2. dev' = dev \/ State.phase = "data"
      BY <1>5, <3>1 DEF MoveIn, MoveOut, Moving, State
    <3> QED
      BY <1>2, <3>2 DEF State
  <2> QED
    BY <2>2, <2>3, <2>4
<1>6. CASE MoveDone
  <2>1. /\ pc = "move" /\ pc' \in {"idle", "finish"} /\ State' = State
        /\ i' = i /\ i = WORDS
    BY <1>2, <1>6 DEF MoveDone, Return, State
  <2> QED
    BY <1>1, <2>1, LeftIs DEF Left
<1>7. CASE Finish
  <2>1. pc = "finish" /\ pc' = "idle"
    BY <1>7 DEF Finish, Return
  <2> QED
    BY <1>1, <2>1, LeftIs DEF Left
<1> QED
  BY <1>3, <1>4, <1>5, <1>6, <1>7 DEF Run

LEMMA DeviceAdvances ==
  ASSUME IInv, Device
  PROVE  Left' < Left
<1>1. PICK p \in Positions : Ready(p) \/ Fail(p) \/ Store(p)
  BY DEF Device
<1>2. dev[p].phase \in {"busy", "writing"} /\ UNCHANGED driver
  BY <1>1 DEF Ready, Fail, Store, driver
<1>3. p = Target /\ InCall
  BY <1>2, AtWork DEF Active
<1>4. pc' = pc /\ i' = i /\ Target' = Target
  BY <1>2 DEF driver, Target
<1>5. Work(State.phase) = 1
  BY <1>2, <1>3 DEF Work, State
<1>6. State'.phase \in {"data", "error", "quiet"}
  BY <1>1, <1>3, <1>4 DEF Ready, Fail, Store, State, Failed, Quiet, IInv, TypeOK
<1>7. Work(State'.phase) = 0
  BY <1>6 DEF Work
<1>8. WORDS \in Nat /\ i \in 0 .. WORDS
  BY AtaAssumption DEF IInv, TypeOK
<1>9. pc \in {"probe", "wait", "move", "finish"}
  BY <1>3 DEF IInv, TypeOK, InCall
<1> QED
  BY <1>4, <1>5, <1>7, <1>8, <1>9, LeftIs DEF Left

(* Driver and drive together take a call to its end: every step of either  *)
(* brings it nearer, from at most five steps and two for each word of the  *)
(* sector.  The loops of filesystem.c poll for as long as the drive takes, *)
(* but the drive has only so many things to do before it is done.          *)
THEOREM CallsAdvance ==
  Spec => /\ [](Left \in 0 .. 5 + 2 * WORDS)
          /\ [][Run \/ Device => Left' < Left]_vars
<1>1. IInv => Left \in 0 .. 5 + 2 * WORDS
  BY LeftBound
<1>2. IInv /\ [Next]_vars => [Run \/ Device => Left' < Left]_vars
  BY RunAdvances, DeviceAdvances
<1> QED
  BY <1>1, <1>2, Invariance, PTL DEF Spec

=============================================================================
