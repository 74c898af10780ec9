------------------------------ MODULE Console ------------------------------
(***************************************************************************)
(* The text screen and the keyboard (print.c), and the loop of a prompt    *)
(* around them: print the prompt, read a line, run the command.            *)
(*                                                                         *)
(* A character at a time goes to the screen or comes from the keyboard.    *)
(* What the commands print, and which command a line names, is left open;  *)
(* colours are left out.  The keyboard is polled only while a line is      *)
(* read, so what it sends at other times is a key pressed later, or none.  *)
(***************************************************************************)
EXTENDS Integers, Sequences

CONSTANTS
  NUM_ROWS, NUM_COLS,  \* the size of the screen
  BufferSize,          \* the size of the command line buffer
  Char,                \* the characters, and what else may be printed
  Prompt,              \* the characters of the prompt
  Outputs,             \* what a command may print
  key_map,             \* the character of each key, 0 for a function key ...
  shifted_key_map      \* ... and the one it has with shift or caps lock

VARIABLES
  buffer,              \* the screen memory, a character for every cell
  row, col,            \* the place of the next character
  shift_pressed,       \* whether get_char takes a shift key to be down
  caps_lock_enabled,
  line,                \* the command line, called buffer in read_input
  i,                   \* the index of its next character
  pc,                  \* "print" or "read"
  out,                 \* the characters still to be printed
  down                 \* history: the shift keys get_char has seen go down

screen == <<buffer, row, col>>
modifiers == <<shift_pressed, caps_lock_enabled, down>>
vars == <<screen, modifiers, line, i, pc, out>>

(* A definition that begins with Bad is a plausible slip in the definition *)
(* it is named after; the specification uses none.                         *)

-----------------------------------------------------------------------------
(* Where something is printed, Newline stands for a call of print_newline  *)
(* and Clear for one of print_clear.                                       *)
NUL == "NUL"
Newline == "newline"
Clear == "clear"

Blank == "blank"

Keys == DOMAIN key_map

Shifts == {"left", "right"}

Cells == 0 .. NUM_ROWS * NUM_COLS - 1

Indices == 0 .. BufferSize - 1

(* The address of the cell the next character is for; behind a full row    *)
(* that is the first cell of the row below.                                *)
Cursor == col + NUM_COLS * row

Printable == Char \ {Newline, Clear}

ASSUME ConsoleAssumption ==
  /\ NUM_ROWS \in Nat \ {0} /\ NUM_COLS \in Nat \ {0}
  /\ BufferSize \in Nat \ {0}
  /\ {NUL, Newline, Clear, Blank} \subseteq Char
  /\ Prompt \in Seq(Printable)
  /\ Len(Prompt) + BufferSize - 1 <= (NUM_ROWS - 1) * NUM_COLS
  /\ Outputs \subseteq Seq(Char)
  /\ key_map \in [Keys -> Printable]
  /\ shifted_key_map \in [Keys -> Printable]

(* The screen has been cleared, and the kernel has its first messages to   *)
(* print.                                                                  *)
Init ==
  /\ buffer = [a \in Cells |-> Blank]
  /\ row = 0 /\ col = 0
  /\ shift_pressed = 0 /\ caps_lock_enabled = 0 /\ down = {}
  /\ line = [k \in Indices |-> NUL] /\ i = 0
  /\ pc = "print" /\ out \in {text \o Prompt : text \in Outputs}

-----------------------------------------------------------------------------
(* The screen.                                                             *)

BadScrolled == [a \in Cells |->
  IF a + NUM_COLS \in Cells THEN buffer[a + NUM_COLS] ELSE buffer[a]]

(* The rows have moved up and the last one is clear.                       *)
Scrolled == [a \in Cells |->
  IF a + NUM_COLS \in Cells THEN buffer[a + NUM_COLS] ELSE Blank]

print_newline ==
  /\ col' = 0
  /\ \/ row < NUM_ROWS - 1 /\ row' = row + 1 /\ buffer' = buffer
     \/ row >= NUM_ROWS - 1 /\ row' = row /\ buffer' = Scrolled

(* print_clear leaves col alone.                                           *)
print_clear == buffer' = [a \in Cells |-> Blank] /\ row' = 0 /\ col' = col

BadFullRow == col > NUM_COLS

FullRow == col >= NUM_COLS

(* print_char for a character other than newline and backspace: behind a   *)
(* full row it starts a new one first.                                     *)
PutChar(c) ==
  \/ /\ ~FullRow
     /\ buffer' = [buffer EXCEPT ![Cursor] = c]
     /\ row' = row /\ col' = col + 1
  \/ /\ FullRow /\ row < NUM_ROWS - 1
     /\ buffer' = [buffer EXCEPT ![NUM_COLS * (row + 1)] = c]
     /\ row' = row + 1 /\ col' = 1
  \/ /\ FullRow /\ row >= NUM_ROWS - 1
     /\ buffer' = [Scrolled EXCEPT ![NUM_COLS * row] = c]
     /\ row' = row /\ col' = 1

BadBackspace ==
  /\ col' = IF col > 0 THEN col - 1 ELSE 0
  /\ row' = row
  /\ buffer' = [buffer EXCEPT ![col' + NUM_COLS * row'] = Blank]

(* print_char('\b'): the last character goes, also from the row above.     *)
Backspace ==
  /\ \/ col = 0 /\ row > 0 /\ row' = row - 1 /\ col' = NUM_COLS - 1
     \/ col = 0 /\ row = 0 /\ row' = row /\ col' = col
     \/ col > 0 /\ row' = row /\ col' = col - 1
  /\ buffer' = [buffer EXCEPT ![col' + NUM_COLS * row'] = Blank]

-----------------------------------------------------------------------------
(* Printing.                                                               *)

PrintNext ==
  /\ pc = "print" /\ out # <<>>
  /\ CASE Head(out) = Newline -> print_newline
       [] Head(out) = Clear   -> print_clear
       [] OTHER               -> PutChar(Head(out))
  /\ out' = Tail(out)
  /\ UNCHANGED <<modifiers, line, i, pc>>

(* The prompt stands; read_input begins.                                   *)
PrintDone ==
  /\ pc = "print" /\ out = <<>>
  /\ pc' = "read"
  /\ line' = [k \in Indices |-> NUL] /\ i' = 0
  /\ UNCHANGED <<screen, modifiers, out>>

-----------------------------------------------------------------------------
(* get_char: modifiers.                                                    *)

(* read_input waits for a character while there is room for one.           *)
Reading == pc = "read" /\ i < BufferSize - 1

ShiftPressed(s) ==
  /\ Reading
  /\ shift_pressed' = 1 /\ down' = down \union {s}
  /\ UNCHANGED <<screen, caps_lock_enabled, line, i, pc, out>>

BadShiftReleased(s) ==
  /\ Reading
  /\ shift_pressed' = IF s = "left" THEN 0 ELSE shift_pressed
  /\ down' = down \ {s}
  /\ UNCHANGED <<screen, caps_lock_enabled, line, i, pc, out>>

ShiftReleased(s) ==
  /\ Reading
  /\ shift_pressed' = 0 /\ down' = down \ {s}
  /\ UNCHANGED <<screen, caps_lock_enabled, line, i, pc, out>>

CapsLockPressed ==
  /\ Reading
  /\ caps_lock_enabled' = 1 - caps_lock_enabled
  /\ UNCHANGED <<screen, shift_pressed, down, line, i, pc, out>>

-----------------------------------------------------------------------------
(* read_input: the characters.                                             *)

Shifted == shift_pressed = 1 \/ caps_lock_enabled = 1

Character(key) == IF Shifted THEN shifted_key_map[key] ELSE key_map[key]

Type(key) ==
  /\ Reading
  /\ line' = [line EXCEPT ![i] = Character(key)]
  /\ i' = i + 1
  /\ PutChar(Character(key))
  /\ UNCHANGED <<modifiers, pc, out>>

BadErase ==
  /\ Reading
  /\ IF i > 0 THEN i' = i - 1 /\ line' = [line EXCEPT ![i'] = NUL]
              ELSE UNCHANGED <<line, i>>
  /\ Backspace
  /\ UNCHANGED <<modifiers, pc, out>>

(* The backspace key; on an empty line it does nothing.                    *)
Erase ==
  /\ Reading /\ i > 0
  /\ i' = i - 1
  /\ line' = [line EXCEPT ![i'] = NUL]
  /\ Backspace
  /\ UNCHANGED <<modifiers, pc, out>>

(* The command line as the string the commands see.                        *)
Command ==
  LET end == CHOOSE k \in Indices :
               line[k] = NUL /\ \A l \in Indices : l < k => line[l] # NUL
  IN  [k \in 1 .. end |-> line[k - 1]]

(* Nothing happens for an empty command; the others print something, the   *)
(* command itself perhaps.                                                 *)
Run ==
  \/ Command' = <<>> /\ out' = Prompt
  \/ /\ Command' # <<>>
     /\ \E text \in Outputs \union {Command' \o <<Newline>>} : out' = text \o Prompt

(* The enter key, or no more room: read_input returns.                     *)
Submit ==
  /\ pc = "read"
  /\ line' = [line EXCEPT ![i] = NUL]
  /\ print_newline
  /\ pc' = "print" /\ Run
  /\ UNCHANGED <<modifiers, i>>

Next ==
  \/ PrintNext \/ PrintDone
  \/ \E s \in Shifts : ShiftPressed(s) \/ ShiftReleased(s)
  \/ CapsLockPressed
  \/ \E key \in Keys : Type(key)
  \/ Erase \/ Submit

Spec == Init /\ [][Next]_vars

-----------------------------------------------------------------------------
(* The first cell of the prompt whose line is being read.                  *)
Start == Cursor - i - Len(Prompt)

TypeOK ==
  /\ buffer \in [Cells -> Char]
  /\ row \in 0 .. NUM_ROWS - 1 /\ col \in 0 .. NUM_COLS
  /\ shift_pressed \in 0 .. 1 /\ caps_lock_enabled \in 0 .. 1
  /\ line \in [Indices -> Printable] /\ i \in Indices
  /\ pc \in {"print", "read"} /\ out \in Seq(Char)
  /\ down \subseteq Shifts

(* What the user sees is what is in the line's buffer: the cells up to the *)
(* cursor show the whole prompt and the characters typed, wrapped and      *)
(* scrolled and corrected as they may be, and the rest of the buffer is 0. *)
(* (To the commands a line ends at its first 0, so at a function key's.)   *)
EchoMatchesLine ==
  pc = "read" =>
    /\ Start >= 0
    /\ \A k \in 1 .. Len(Prompt) : buffer[Start + k - 1] = Prompt[k]
    /\ \A k \in 0 .. i - 1 : buffer[Start + Len(Prompt) + k] = line[k]
    /\ \A k \in Indices : k >= i => line[k] = NUL

(* Nothing is left behind the cursor: not by a correction, not by a scroll.*)
NothingBehindCursor == \A a \in Cells : a >= Cursor => buffer[a] = Blank

(* get_char takes shift to be down only while one of the two keys is, and  *)
(* always while both are.  It has one flag for them: when one of the two   *)
(* goes up while the other stays down, the flag is cleared.                *)
ShiftWhileDown ==
  /\ shift_pressed = 1 => down # {}
  /\ down = Shifts => shift_pressed = 1

(* Editing a line never touches what was printed before it: that stays, or *)
(* moves up with the prompt when the screen scrolls.                       *)
OutputKept ==
  [][pc = "read" /\ pc' = "read" =>
       \A a \in 0 .. Start - 1 :
         a - (Start - Start') >= 0 => buffer'[a - (Start - Start')] = buffer[a]]_vars

=============================================================================
