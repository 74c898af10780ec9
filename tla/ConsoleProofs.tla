--------------------------- MODULE ConsoleProofs ---------------------------
(***************************************************************************)
(* Theorems about the screen and the line editor, for every size of        *)
(* screen, prompt and line, every keyboard and every output.               *)
(*                                                                         *)
(* The argument is by addresses: a character moves the cursor by one or,   *)
(* when the screen scrolls, everything by a row (PutRight).  The inductive *)
(* invariant adds to the checked ones that the prompt is being printed     *)
(* whole: the end of out is what is missing of it (PromptToCome), the      *)
(* cells before the cursor are what stands already (PromptStands).         *)
(***************************************************************************)
EXTENDS Console, WellFoundedInduction, TLAPS

Total == NUM_ROWS * NUM_COLS

(* The characters of the prompt that are on the screen, once its last      *)
(* Len(Prompt) characters are all that is left to print.                   *)
Printed == Len(Prompt) - Len(out)

PromptToCome ==
  pc = "print" =>
    \A j \in 1 .. Len(Prompt) : j > Printed =>
      j - Printed \in 1 .. Len(out) /\ out[j - Printed] = Prompt[j]

PromptStands ==
  pc = "print" =>
    /\ Cursor >= Printed
    /\ \A j \in 1 .. Len(Prompt) : j <= Printed =>
         buffer[Cursor - Printed + j - 1] = Prompt[j]

IInv ==
  /\ TypeOK /\ PromptToCome /\ PromptStands
  /\ EchoMatchesLine /\ NothingBehindCursor /\ ShiftWhileDown

-----------------------------------------------------------------------------
(* Rows and addresses.                                                     *)

LEMMA SizeFacts ==
  /\ NUM_ROWS \in Nat \ {0} /\ NUM_COLS \in Nat \ {0}
  /\ BufferSize \in Nat \ {0} /\ Len(Prompt) \in Nat
  /\ Total \in Nat
  /\ Len(Prompt) + BufferSize - 1 <= Total - NUM_COLS
  /\ Cells = 0 .. Total - 1
<1>1. /\ NUM_ROWS \in Nat \ {0} /\ NUM_COLS \in Nat \ {0}
      /\ BufferSize \in Nat \ {0} /\ Len(Prompt) \in Nat
      /\ Len(Prompt) + BufferSize - 1 <= (NUM_ROWS - 1) * NUM_COLS
  BY ConsoleAssumption
<1>2. NUM_ROWS * NUM_COLS \in Nat
      /\ (NUM_ROWS - 1) * NUM_COLS = NUM_ROWS * NUM_COLS - NUM_COLS
  BY <1>1
<1> QED
  BY <1>1, <1>2 DEF Total, Cells

(* Row r begins at a multiple of the width and ends on the screen.         *)
LEMMA RowFacts ==
  ASSUME NEW r \in 0 .. NUM_ROWS - 1
  PROVE  /\ NUM_COLS * r \in Nat
         /\ NUM_COLS * (r + 1) = NUM_COLS * r + NUM_COLS
         /\ NUM_COLS * (r - 1) = NUM_COLS * r - NUM_COLS
         /\ NUM_COLS * r <= Total - NUM_COLS
         /\ (r = 0 => NUM_COLS * r = 0) /\ (r > 0 => NUM_COLS * r >= NUM_COLS)
         /\ (r >= NUM_ROWS - 1 => NUM_COLS * r = Total - NUM_COLS)
<1>1. NUM_ROWS \in Nat \ {0} /\ NUM_COLS \in Nat \ {0}
  BY SizeFacts
<1>2. NUM_COLS * r \in Nat
      /\ NUM_COLS * (r + 1) = NUM_COLS * r + NUM_COLS
      /\ NUM_COLS * (r - 1) = NUM_COLS * r - NUM_COLS
  BY <1>1
<1>3. NUM_COLS * (NUM_ROWS - 1) = Total - NUM_COLS
  BY <1>1 DEF Total
<1>4. NUM_COLS * r <= NUM_COLS * (NUM_ROWS - 1)
  BY <1>1
<1>5. r >= NUM_ROWS - 1 => r = NUM_ROWS - 1
  BY <1>1
<1>6. (r = 0 => NUM_COLS * r = 0) /\ (r > 0 => NUM_COLS * r >= NUM_COLS)
  BY <1>1
<1> QED
  BY <1>2, <1>3, <1>4, <1>5, <1>6

LEMMA CursorFacts ==
  ASSUME TypeOK
  PROVE  /\ Cursor \in 0 .. Total
         /\ NUM_COLS * row \in Nat
         /\ Cursor = col + NUM_COLS * row
         /\ (~FullRow => Cursor < Total)
         /\ (FullRow => Cursor = NUM_COLS * row + NUM_COLS)
         /\ (FullRow /\ row >= NUM_ROWS - 1 => Cursor = Total)
<1>1. row \in 0 .. NUM_ROWS - 1 /\ col \in 0 .. NUM_COLS
  BY DEF TypeOK
<1>2. /\ NUM_COLS * row \in Nat /\ NUM_COLS * row <= Total - NUM_COLS
      /\ (row >= NUM_ROWS - 1 => NUM_COLS * row = Total - NUM_COLS)
  BY <1>1, RowFacts
<1> DEFINE w == NUM_COLS * row
<1>3. w \in Nat /\ w <= Total - NUM_COLS /\ Cursor = col + w
      /\ (row >= NUM_ROWS - 1 => w = Total - NUM_COLS)
  BY <1>2 DEF Cursor
<1> HIDE DEF w
<1>4. NUM_COLS \in Nat /\ Total \in Nat
  BY SizeFacts
<1>5. /\ Cursor \in 0 .. Total
      /\ (~FullRow => Cursor < Total)
      /\ (FullRow => Cursor = w + NUM_COLS)
      /\ (FullRow /\ row >= NUM_ROWS - 1 => Cursor = Total)
  BY <1>1, <1>3, <1>4 DEF FullRow
<1> QED
  BY <1>2, <1>3, <1>5 DEF w

LEMMA ScrolledFacts ==
  ASSUME buffer \in [Cells -> Char]
  PROVE  /\ Scrolled \in [Cells -> Char]
         /\ \A a \in Cells : a + NUM_COLS \in Cells =>
              Scrolled[a] = buffer[a + NUM_COLS]
         /\ \A a \in Cells : a + NUM_COLS \notin Cells => Scrolled[a] = Blank
<1>1. Blank \in Char
  BY ConsoleAssumption
<1> QED
  BY <1>1 DEF Scrolled

-----------------------------------------------------------------------------
(* The screen.                                                             *)

(* How far a step that puts one character moves what stands already.       *)
Shift == Cursor + 1 - Cursor'

(* What a step that puts character c does to the screen: it stands before  *)
(* the cursor, and all that was before it is there, a row higher or not.   *)
Puts(c) ==
  /\ buffer' \in [Cells -> Char] /\ row' \in 0 .. NUM_ROWS - 1
  /\ col' \in 0 .. NUM_COLS
  /\ Cursor' \in 1 .. Total
  /\ Shift = 0 \/ (Shift = NUM_COLS /\ Cursor = Total)
  /\ buffer'[Cursor' - 1] = c
  /\ \A a \in 0 .. Cursor' - 2 : buffer'[a] = buffer[a + Shift]
  /\ \A a \in Cells : a >= Cursor' => buffer'[a] = Blank

LEMMA PutRight ==
  ASSUME TypeOK, NothingBehindCursor, NEW c \in Char, PutChar(c)
  PROVE  Puts(c)
<1>1. /\ row \in 0 .. NUM_ROWS - 1 /\ col \in 0 .. NUM_COLS
      /\ buffer \in [Cells -> Char]
  BY DEF TypeOK
<1>2. NUM_ROWS \in Nat \ {0} /\ NUM_COLS \in Nat \ {0} /\ Total \in Nat
      /\ Cells = 0 .. Total - 1
  BY SizeFacts
<1>3. \A a \in Cells : a >= Cursor => buffer[a] = Blank
  BY DEF NothingBehindCursor
<1> DEFINE w == NUM_COLS * row
<1>4. /\ w \in Nat /\ w <= Total - NUM_COLS
      /\ NUM_COLS * (row + 1) = w + NUM_COLS
      /\ (row >= NUM_ROWS - 1 => w = Total - NUM_COLS)
  BY <1>1, RowFacts
<1>5. /\ Cursor \in 0 .. Total /\ Cursor = col + w
      /\ (~FullRow => Cursor < Total)
      /\ (FullRow => Cursor = w + NUM_COLS)
  BY CursorFacts
<1>6. Cursor' = col' + NUM_COLS * row'
  BY DEF Cursor
<1>7. CASE ~FullRow
  <2>1. /\ buffer' = [buffer EXCEPT ![Cursor] = c]
        /\ row' = row /\ col' = col + 1
    BY <1>7 DEF PutChar
  <2>2. NUM_COLS * row' = w
    BY <2>1
  <2> HIDE DEF w
  <2>3. col < NUM_COLS
    BY <1>1, <1>2, <1>7 DEF FullRow
  <2>4. col' \in 0 .. NUM_COLS /\ row' \in 0 .. NUM_ROWS - 1
    BY <1>1, <1>2, <2>1, <2>3
  <2>5. Cursor' = Cursor + 1 /\ Cursor \in Cells /\ Cursor < Total
    BY <1>1, <1>2, <1>4, <1>5, <1>6, <1>7, <2>1, <2>2
  <2>6. Shift = 0 /\ Cursor' \in 1 .. Total /\ Cursor' - 1 = Cursor
    BY <1>2, <1>5, <2>5 DEF Shift
  <2>7. /\ buffer' \in [Cells -> Char] /\ buffer'[Cursor] = c
        /\ \A a \in Cells : a # Cursor => buffer'[a] = buffer[a]
    BY <1>1, <2>1, <2>5
  <2>8. \A a \in 0 .. Cursor' - 2 : buffer'[a] = buffer[a + Shift]
    <3>1. TAKE a \in 0 .. Cursor' - 2
    <3>2. a \in Cells /\ a # Cursor /\ a + Shift = a
      BY <1>2, <1>5, <2>5, <2>6
    <3> QED
      BY <2>7, <3>2
  <2>9. \A a \in Cells : a >= Cursor' => buffer'[a] = Blank
    BY <1>2, <1>3, <1>5, <2>5, <2>7
  <2> QED
    BY <2>4, <2>6, <2>7, <2>8, <2>9 DEF Puts
<1>8. CASE FullRow /\ row < NUM_ROWS - 1
  <2>1. /\ buffer' = [buffer EXCEPT ![NUM_COLS * (row + 1)] = c]
        /\ row' = row + 1 /\ col' = 1
    BY <1>1, <1>2, <1>8 DEF PutChar
  <2>2. NUM_COLS * row' = w + NUM_COLS /\ w + NUM_COLS <= Total - NUM_COLS
    BY <1>1, <1>2, <1>4, <1>8, <2>1, RowFacts
  <2> HIDE DEF w
  <2>3. buffer' = [buffer EXCEPT ![Cursor] = c]
    BY <1>4, <1>5, <1>8, <2>1
  <2>4. col' \in 0 .. NUM_COLS /\ row' \in 0 .. NUM_ROWS - 1
    BY <1>1, <1>2, <1>8, <2>1
  <2>5. Cursor' = Cursor + 1 /\ Cursor \in Cells /\ Cursor < Total
    BY <1>1, <1>2, <1>4, <1>5, <1>6, <1>8, <2>1, <2>2
  <2>6. Shift = 0 /\ Cursor' \in 1 .. Total /\ Cursor' - 1 = Cursor
    BY <1>2, <1>5, <2>5 DEF Shift
  <2>7. /\ buffer' \in [Cells -> Char] /\ buffer'[Cursor] = c
        /\ \A a \in Cells : a # Cursor => buffer'[a] = buffer[a]
    BY <1>1, <2>3, <2>5
  <2>8. \A a \in 0 .. Cursor' - 2 : buffer'[a] = buffer[a + Shift]
    <3>1. TAKE a \in 0 .. Cursor' - 2
    <3>2. a \in Cells /\ a # Cursor /\ a + Shift = a
      BY <1>2, <1>5, <2>5, <2>6
    <3> QED
      BY <2>7, <3>2
  <2>9. \A a \in Cells : a >= Cursor' => buffer'[a] = Blank
    BY <1>2, <1>3, <1>5, <2>5, <2>7
  <2> QED
    BY <2>4, <2>6, <2>7, <2>8, <2>9 DEF Puts
<1>9. CASE FullRow /\ row >= NUM_ROWS - 1
  <2>1. /\ buffer' = [Scrolled EXCEPT ![NUM_COLS * row] = c]
        /\ row' = row /\ col' = 1
    BY <1>1, <1>2, <1>9 DEF PutChar
  <2>2. NUM_COLS * row' = w /\ buffer' = [Scrolled EXCEPT ![w] = c]
    BY <2>1
  <2> HIDE DEF w
  <2>3. w = Total - NUM_COLS /\ Cursor = Total
    BY <1>2, <1>4, <1>5, <1>9
  <2>4. col' \in 0 .. NUM_COLS /\ row' \in 0 .. NUM_ROWS - 1
    BY <1>1, <1>2, <2>1
  <2>5. Cursor' = w + 1 /\ w \in Cells
    BY <1>2, <1>4, <1>6, <2>1, <2>2
  <2>6. Shift = NUM_COLS /\ Cursor' \in 1 .. Total /\ Cursor' - 1 = w
    BY <1>2, <1>4, <2>3, <2>5 DEF Shift
  <2>7. /\ Scrolled \in [Cells -> Char]
        /\ \A a \in Cells : a + NUM_COLS \in Cells =>
             Scrolled[a] = buffer[a + NUM_COLS]
        /\ \A a \in Cells : a + NUM_COLS \notin Cells => Scrolled[a] = Blank
    BY <1>1, ScrolledFacts
  <2>8. /\ buffer' \in [Cells -> Char] /\ buffer'[w] = c
        /\ \A a \in Cells : a # w => buffer'[a] = Scrolled[a]
    BY <2>2, <2>5, <2>7
  <2>9. \A a \in 0 .. Cursor' - 2 : buffer'[a] = buffer[a + Shift]
    <3>1. TAKE a \in 0 .. Cursor' - 2
    <3>2. a \in Cells /\ a # w /\ a + NUM_COLS \in Cells
      BY <1>2, <1>4, <2>3, <2>5
    <3> QED
      BY <2>6, <2>7, <2>8, <3>2
  <2>10. \A a \in Cells : a >= Cursor' => buffer'[a] = Blank
    <3>1. TAKE a \in Cells
    <3>2. HAVE a >= Cursor'
    <3>3. a # w /\ a + NUM_COLS \notin Cells
      BY <1>2, <1>4, <2>3, <2>5, <3>2
    <3> QED
      BY <2>7, <2>8, <3>3
  <2> QED
    BY <2>3, <2>4, <2>6, <2>8, <2>9, <2>10 DEF Puts
<1> QED
  BY <1>1, <1>2, <1>7, <1>8, <1>9

LEMMA PutsFacts ==
  ASSUME TypeOK, NEW c \in Char, Puts(c)
  PROVE  /\ Cursor' \in 1 .. Total /\ Cursor' = Cursor + 1 - Shift
         /\ Shift \in Int /\ (Shift = 0 \/ (Shift = NUM_COLS /\ Cursor = Total))
         /\ buffer'[Cursor' - 1] = c
         /\ \A a \in 0 .. Cursor' - 2 : buffer'[a] = buffer[a + Shift]
<1>1. Cursor \in 0 .. Total /\ Total \in Nat
  BY CursorFacts, SizeFacts
<1>2. /\ Cursor' \in 1 .. Total
      /\ Shift = 0 \/ (Shift = NUM_COLS /\ Cursor = Total)
      /\ buffer'[Cursor' - 1] = c
      /\ \A a \in 0 .. Cursor' - 2 : buffer'[a] = buffer[a + Shift]
  BY DEF Puts
<1>3. Cursor \in Int /\ Cursor' \in Int
  BY <1>1, <1>2
<1>4. \A a, b \in Int : a = b + 1 - (b + 1 - a) /\ b + 1 - a \in Int
  OBVIOUS
<1>5. Cursor' = Cursor + 1 - Shift /\ Shift \in Int
  BY <1>3, <1>4, Zenon DEF Shift
<1> QED
  BY <1>2, <1>5

(* The backspace takes the character before the cursor and nothing else.   *)
LEMMA BackspaceRight ==
  ASSUME TypeOK, NothingBehindCursor, Cursor > 0, Backspace
  PROVE  /\ buffer' \in [Cells -> Char] /\ row' \in 0 .. NUM_ROWS - 1
         /\ col' \in 0 .. NUM_COLS
         /\ Cursor' = Cursor - 1
         /\ \A a \in Cells : a # Cursor' => buffer'[a] = buffer[a]
         /\ NothingBehindCursor'
<1>1. /\ row \in 0 .. NUM_ROWS - 1 /\ col \in 0 .. NUM_COLS
      /\ buffer \in [Cells -> Char]
  BY DEF TypeOK
<1>2. /\ NUM_ROWS \in Nat \ {0} /\ NUM_COLS \in Nat \ {0} /\ Total \in Nat
      /\ Cells = 0 .. Total - 1 /\ Blank \in Char
  BY SizeFacts, ConsoleAssumption
<1>3. /\ NUM_COLS * row \in Nat
      /\ NUM_COLS * (row - 1) = NUM_COLS * row - NUM_COLS
      /\ (row = 0 => NUM_COLS * row = 0)
  BY <1>1, RowFacts
<1>4. Cursor \in 0 .. Total /\ Cursor = col + NUM_COLS * row
  BY CursorFacts
<1>5. \/ col = 0 /\ row > 0 /\ row' = row - 1 /\ col' = NUM_COLS - 1
      \/ col > 0 /\ row' = row /\ col' = col - 1
  BY <1>1, <1>3, <1>4 DEF Backspace
<1>6. Cursor' = col' + NUM_COLS * row'
  BY DEF Cursor
<1>7. /\ row' \in 0 .. NUM_ROWS - 1 /\ col' \in 0 .. NUM_COLS
      /\ Cursor' = Cursor - 1
  <2>1. CASE col = 0 /\ row > 0 /\ row' = row - 1 /\ col' = NUM_COLS - 1
    <3>1. NUM_COLS * row' = NUM_COLS * row - NUM_COLS
      BY <1>3, <2>1
    <3> DEFINE w == NUM_COLS * row
               v == NUM_COLS * row'
    <3>2. v = w - NUM_COLS /\ w \in Nat /\ Cursor = col + w
          /\ Cursor' = col' + v
      BY <1>3, <1>4, <1>6, <3>1
    <3> HIDE DEF w, v
    <3> QED
      BY <1>1, <1>2, <2>1, <3>2
  <2>2. CASE col > 0 /\ row' = row /\ col' = col - 1
    <3> DEFINE w == NUM_COLS * row
    <3>1. w \in Nat /\ Cursor = col + w /\ Cursor' = col' + w
      BY <1>3, <1>4, <1>6, <2>2
    <3> HIDE DEF w
    <3> QED
      BY <1>1, <1>2, <2>2, <3>1
  <2> QED
    BY <1>5, <2>1, <2>2
<1>8. buffer' = [buffer EXCEPT ![Cursor'] = Blank]
  BY <1>6 DEF Backspace
<1>9. Cursor' \in Cells
  BY <1>2, <1>4, <1>7
<1>10. /\ buffer' \in [Cells -> Char] /\ buffer'[Cursor'] = Blank
       /\ \A a \in Cells : a # Cursor' => buffer'[a] = buffer[a]
  BY <1>1, <1>2, <1>8, <1>9
<1>11. \A a \in Cells : a >= Cursor' => buffer'[a] = Blank
  <2>1. TAKE a \in Cells
  <2>2. HAVE a >= Cursor'
  <2>3. a = Cursor' \/ a >= Cursor
    BY <1>2, <1>4, <1>7, <2>2
  <2> QED
    BY <1>7, <1>10, <2>3 DEF NothingBehindCursor
<1>12. NothingBehindCursor'
  BY <1>2, <1>11 DEF NothingBehindCursor, Cells
<1> QED
  BY <1>7, <1>10, <1>12

LEMMA NewlineRight ==
  ASSUME TypeOK, NothingBehindCursor, print_newline
  PROVE  /\ buffer' \in [Cells -> Char] /\ row' \in 0 .. NUM_ROWS - 1
         /\ col' \in 0 .. NUM_COLS
         /\ Cursor' \in Nat
         /\ NothingBehindCursor'
<1>1. /\ row \in 0 .. NUM_ROWS - 1 /\ col \in 0 .. NUM_COLS
      /\ buffer \in [Cells -> Char]
  BY DEF TypeOK
<1>2. /\ NUM_ROWS \in Nat \ {0} /\ NUM_COLS \in Nat \ {0} /\ Total \in Nat
      /\ Cells = 0 .. Total - 1
  BY SizeFacts
<1> DEFINE w == NUM_COLS * row
<1>3. /\ w \in Nat /\ w <= Total - NUM_COLS
      /\ NUM_COLS * (row + 1) = w + NUM_COLS
      /\ (row >= NUM_ROWS - 1 => w = Total - NUM_COLS)
  BY <1>1, RowFacts
<1>4. Cursor \in 0 .. Total /\ Cursor = col + w
  BY CursorFacts
<1>5. Cursor' = col' + NUM_COLS * row'
  BY DEF Cursor
<1>6. \A a \in Cells : a >= Cursor => buffer[a] = Blank
  BY DEF NothingBehindCursor
<1>7. CASE row < NUM_ROWS - 1
  <2>1. col' = 0 /\ row' = row + 1 /\ buffer' = buffer
    BY <1>1, <1>2, <1>7 DEF print_newline
  <2>2. NUM_COLS * row' = w + NUM_COLS
    BY <1>3, <2>1
  <2> HIDE DEF w
  <2>3. Cursor' = w + NUM_COLS
    BY <1>2, <1>3, <1>5, <2>1, <2>2
  <2>4. Cursor' \in Nat /\ Cursor' >= Cursor
    BY <1>1, <1>2, <1>3, <1>4, <2>3
  <2>5. \A a \in Cells : a >= Cursor' => buffer'[a] = Blank
    BY <1>2, <1>4, <1>6, <2>1, <2>4
  <2>6. NothingBehindCursor'
    BY <2>5 DEF NothingBehindCursor, Cells
  <2> QED
    BY <1>1, <1>2, <1>7, <2>1, <2>4, <2>6
<1>8. CASE row >= NUM_ROWS - 1
  <2>1. col' = 0 /\ row' = row /\ buffer' = Scrolled
    BY <1>1, <1>2, <1>8 DEF print_newline
  <2>2. NUM_COLS * row' = w
    BY <2>1
  <2> HIDE DEF w
  <2>3. Cursor' = Total - NUM_COLS /\ Cursor' \in Nat
    BY <1>2, <1>3, <1>5, <1>8, <2>1, <2>2
  <2>4. /\ Scrolled \in [Cells -> Char]
        /\ \A a \in Cells : a + NUM_COLS \notin Cells => Scrolled[a] = Blank
    BY <1>1, ScrolledFacts
  <2>5. \A a \in Cells : a >= Cursor' => buffer'[a] = Blank
    BY <1>2, <2>1, <2>3, <2>4
  <2>6. NothingBehindCursor'
    BY <2>5 DEF NothingBehindCursor, Cells
  <2> QED
    BY <1>1, <1>2, <2>1, <2>3, <2>4, <2>6
<1> QED
  BY <1>1, <1>2, <1>7, <1>8

LEMMA ClearRight ==
  ASSUME TypeOK, print_clear
  PROVE  /\ buffer' \in [Cells -> Char] /\ row' \in 0 .. NUM_ROWS - 1
         /\ col' \in 0 .. NUM_COLS
         /\ Cursor' \in Nat
         /\ NothingBehindCursor'
<1>1. /\ col \in 0 .. NUM_COLS /\ NUM_ROWS \in Nat \ {0}
      /\ NUM_COLS \in Nat \ {0} /\ Blank \in Char
  BY SizeFacts, ConsoleAssumption DEF TypeOK
<1>2. buffer' = [a \in Cells |-> Blank] /\ row' = 0 /\ col' = col
  BY DEF print_clear
<1>3. Cursor' = col
  BY <1>1, <1>2 DEF Cursor
<1>4. NothingBehindCursor'
  BY <1>2 DEF NothingBehindCursor, Cells
<1> QED
  BY <1>1, <1>2, <1>3, <1>4

-----------------------------------------------------------------------------
(* What is to be printed, and the command line as a string.                *)

(* A text with the prompt behind it: the prompt is its end.                *)
LEMMA PromptLast ==
  ASSUME NEW text \in Seq(Char), NEW o, o = text \o Prompt
  PROVE  /\ o \in Seq(Char) /\ Len(Prompt) - Len(o) \in Int
         /\ Len(Prompt) - Len(o) <= 0
         /\ \A j \in 1 .. Len(Prompt) :
              /\ j - (Len(Prompt) - Len(o)) \in 1 .. Len(o)
              /\ o[j - (Len(Prompt) - Len(o))] = Prompt[j]
<1>1. Prompt \in Seq(Char)
  <2>1. Prompt \in Seq(Printable) /\ Printable \subseteq Char
    BY ConsoleAssumption DEF Printable
  <2> QED
    BY <2>1
<1>2. o \in Seq(Char) /\ Len(o) = Len(text) + Len(Prompt)
      /\ Len(text) \in Nat /\ Len(Prompt) \in Nat
  BY <1>1
<1>3. \A j \in 1 .. Len(Prompt) : o[j + Len(text)] = Prompt[j]
  BY <1>1
<1>4. \A j \in 1 .. Len(Prompt) :
        j - (Len(Prompt) - Len(o)) = j + Len(text)
        /\ j + Len(text) \in 1 .. Len(o)
  BY <1>2
<1> QED
  BY <1>2, <1>3, <1>4

(* A line with a 0 in it has a first one.                                  *)
LEMMA EndExists ==
  ASSUME NEW ln \in [Indices -> Printable], NEW k \in Indices, ln[k] = NUL
  PROVE  \E e \in Indices :
           ln[e] = NUL /\ \A l \in Indices : l < e => ln[l] # NUL
<1> DEFINE T == {n \in Indices : ln[n] = NUL}
<1>1. T \subseteq Nat /\ T # {}
  BY SizeFacts DEF Indices
<1>2. PICK e \in T : \A y \in T : ~ (<<y, e>> \in OpToRel(<, Nat))
  BY <1>1, NatLessThanWellFounded, WFMin
<1>3. \A y \in T : ~ (y < e)
  BY <1>1, <1>2 DEF OpToRel
<1> QED
  BY <1>3

LEMMA RunTyped ==
  ASSUME NEW k \in Indices, line' \in [Indices -> Printable],
         line'[k] = NUL, Run
  PROVE  \E text \in Seq(Char) : out' = text \o Prompt
<1>1. {NUL, Newline, Clear, Blank} \subseteq Char /\ Printable \subseteq Char
      /\ Prompt \in Seq(Printable) /\ Outputs \subseteq Seq(Char)
  BY ConsoleAssumption DEF Printable
<1> DEFINE end == CHOOSE e \in Indices :
             line'[e] = NUL /\ \A l \in Indices : l < e => line'[l] # NUL
<1>2. end \in Indices
  BY EndExists
<1>3. Command' = [e \in 1 .. end |-> line'[e - 1]]
  BY DEF Command
<1> HIDE DEF end
<1>4. end \in Nat /\ \A e \in 1 .. end : e - 1 \in Indices
  BY <1>2, SizeFacts DEF Indices
<1>5. Command' \in Seq(Char)
  BY <1>1, <1>3, <1>4
<1>6. Command' \o <<Newline>> \in Seq(Char)
  BY <1>1, <1>5
<1>7. CASE Command' = <<>> /\ out' = Prompt
  <2>1. out' = <<>> \o Prompt /\ <<>> \in Seq(Char)
    BY <1>1, <1>7
  <2> QED
    BY <2>1, Zenon
<1>8. CASE \E text \in Outputs \union {Command' \o <<Newline>>} :
             out' = text \o Prompt
  BY <1>1, <1>6, <1>8
<1> QED
  BY <1>7, <1>8 DEF Run

-----------------------------------------------------------------------------
(* The inductive invariant.                                                *)

LEMMA InitIInv == Init => IInv
<1> SUFFICES ASSUME Init PROVE IInv
  OBVIOUS
<1>1. /\ NUM_ROWS \in Nat \ {0} /\ NUM_COLS \in Nat \ {0}
      /\ BufferSize \in Nat \ {0} /\ Cells = 0 .. Total - 1
  BY SizeFacts
<1>2. /\ NUL \in Printable /\ Blank \in Char /\ Outputs \subseteq Seq(Char)
  BY ConsoleAssumption DEF Printable, NUL, Newline, Clear
<1>3. PICK text \in Outputs : out = text \o Prompt
  BY DEF Init
<1>4. /\ out \in Seq(Char) /\ Printed \in Int /\ Printed <= 0
      /\ \A j \in 1 .. Len(Prompt) :
           j - Printed \in 1 .. Len(out) /\ out[j - Printed] = Prompt[j]
  BY <1>2, <1>3, PromptLast DEF Printed
<1>5. NUM_COLS * 0 = 0
  BY <1>1
<1>6. Cursor = 0
  BY <1>5 DEF Init, Cursor
<1>7. TypeOK
  BY <1>1, <1>2, <1>4 DEF Init, TypeOK, Indices
<1>8. PromptToCome /\ PromptStands
  BY <1>4, <1>6 DEF PromptToCome, PromptStands
<1>9. EchoMatchesLine /\ ShiftWhileDown
  BY DEF Init, EchoMatchesLine, ShiftWhileDown, Shifts
<1>10. NothingBehindCursor
  BY DEF Init, NothingBehindCursor
<1> QED
  BY <1>7, <1>8, <1>9, <1>10 DEF IInv

LEMMA PrintNextKeepsIInv == IInv /\ PrintNext => IInv'
<1> SUFFICES ASSUME IInv, PrintNext PROVE IInv'
  OBVIOUS
<1>1. /\ TypeOK /\ PromptToCome /\ PromptStands
      /\ NothingBehindCursor /\ ShiftWhileDown
  BY DEF IInv
<1>2. /\ pc = "print" /\ out # <<>> /\ out \in Seq(Char)
      /\ out' = Tail(out)
      /\ UNCHANGED <<modifiers, line, i, pc>>
  BY <1>1 DEF PrintNext, TypeOK
<1> DEFINE n == Len(out)
           L == Len(Prompt)
<1>3. /\ n \in Nat \ {0} /\ Head(out) \in Char /\ Head(out) = out[1]
      /\ out' \in Seq(Char) /\ Len(out') = n - 1
      /\ \A k \in 1 .. n - 1 : out'[k] = out[k + 1]
  BY <1>2
<1>4. /\ L \in Nat /\ NUM_COLS \in Nat \ {0} /\ Total \in Nat
      /\ L <= Total - NUM_COLS /\ Cells = 0 .. Total - 1
  BY SizeFacts
<1>5. Printed = L - n /\ Printed' = Printed + 1 /\ Printed \in Int
  BY <1>3, <1>4 DEF Printed
<1>6. Cursor \in 0 .. Total
  BY <1>1, CursorFacts
<1>7. \/ Head(out) = Newline /\ print_newline
      \/ Head(out) = Clear /\ print_clear
      \/ Head(out) # Newline /\ Head(out) # Clear /\ PutChar(Head(out))
  BY DEF PrintNext
<1>8. /\ buffer' \in [Cells -> Char] /\ row' \in 0 .. NUM_ROWS - 1
      /\ col' \in 0 .. NUM_COLS /\ Cursor' \in Nat
      /\ NothingBehindCursor'
  <2>1. CASE print_newline
    BY <1>1, <2>1, NewlineRight
  <2>2. CASE print_clear
    BY <1>1, <2>2, ClearRight
  <2>3. CASE PutChar(Head(out))
    <3>1. Puts(Head(out))
      BY <1>1, <1>3, <2>3, PutRight
    <3> QED
      BY <1>4, <3>1 DEF Puts, NothingBehindCursor, Cells
  <2> QED
    BY <1>7, <2>1, <2>2, <2>3
<1>9. TypeOK'
  BY <1>1, <1>2, <1>3, <1>8 DEF TypeOK, modifiers
<1>10. PromptToCome'
  <2>1. SUFFICES ASSUME NEW j \in 1 .. L, j > Printed'
                 PROVE  j - Printed' \in 1 .. Len(out')
                        /\ out'[j - Printed'] = Prompt[j]
    BY <1>2 DEF PromptToCome
  <2>2. j - Printed \in 1 .. n /\ out[j - Printed] = Prompt[j]
    BY <1>1, <1>2, <1>5, <2>1 DEF PromptToCome
  <2>3. j - Printed' \in 1 .. n - 1 /\ j - Printed' + 1 = j - Printed
    BY <1>3, <1>5, <2>1, <2>2
  <2> QED
    BY <1>3, <2>2, <2>3
<1>11. PromptStands'
  <2>1. CASE Printed < 0
    BY <1>2, <1>5, <1>8, <2>1 DEF PromptStands
  <2>2. CASE Printed >= 0
    <3>1. Printed + 1 \in 1 .. L /\ Printed + 1 - Printed = 1
      BY <1>3, <1>4, <1>5, <2>2
    <3>2. Head(out) = Prompt[Printed + 1]
      BY <1>1, <1>2, <1>3, <1>5, <3>1 DEF PromptToCome
    <3>3. Head(out) \in Printable
      BY <3>1, <3>2, ConsoleAssumption
    <3>4. PutChar(Head(out))
      BY <1>7, <3>3 DEF Printable
    <3>5. Puts(Head(out))
      BY <1>1, <1>3, <3>4, PutRight
    <3>6. /\ Cursor' \in 1 .. Total /\ Cursor' = Cursor + 1 - Shift
          /\ Shift \in Int /\ (Shift = 0 \/ (Shift = NUM_COLS /\ Cursor = Total))
          /\ buffer'[Cursor' - 1] = Head(out)
          /\ \A a \in 0 .. Cursor' - 2 : buffer'[a] = buffer[a + Shift]
      BY <1>1, <1>3, <3>5, PutsFacts
    <3>7. Cursor >= Printed
          /\ \A j \in 1 .. L : j <= Printed =>
               buffer[Cursor - Printed + j - 1] = Prompt[j]
      BY <1>1, <1>2 DEF PromptStands
    <3>8. Printed + 1 <= L
      BY <3>1
    <3>9. Cursor' >= Printed'
      BY <1>4, <1>5, <1>6, <3>6, <3>7, <3>8
    <3>10. ASSUME NEW j \in 1 .. L, j <= Printed'
           PROVE  buffer'[Cursor' - Printed' + j - 1] = Prompt[j]
      <4>1. CASE j = Printed + 1
        <5>1. Cursor' - Printed' + j - 1 = Cursor' - 1
          BY <1>5, <3>6, <4>1
        <5> QED
          BY <3>2, <3>6, <4>1, <5>1
      <4>2. CASE j <= Printed
        <5>1. Cursor' - Printed' + j - 1 \in 0 .. Cursor' - 2
          BY <1>5, <3>6, <3>9, <4>2
        <5>2. Cursor' - Printed' + j - 1 + Shift = Cursor - Printed + j - 1
          BY <1>4, <1>5, <1>6, <3>6
        <5> QED
          BY <3>6, <3>7, <4>2, <5>1, <5>2
      <4> QED
        BY <1>5, <3>10, <4>1, <4>2
    <3> QED
      BY <3>9, <3>10 DEF PromptStands
  <2> QED
    BY <1>5, <2>1, <2>2
<1>12. EchoMatchesLine' /\ ShiftWhileDown'
  BY <1>1, <1>2 DEF EchoMatchesLine, ShiftWhileDown, modifiers
<1> QED
  BY <1>8, <1>9, <1>10, <1>11, <1>12 DEF IInv

LEMMA PrintDoneKeepsIInv == IInv /\ PrintDone => IInv'
<1> SUFFICES ASSUME IInv, PrintDone PROVE IInv'
  OBVIOUS
<1>1. /\ TypeOK /\ PromptStands /\ NothingBehindCursor /\ ShiftWhileDown
  BY DEF IInv
<1>2. /\ pc = "print" /\ out = <<>> /\ pc' = "read"
      /\ line' = [k \in Indices |-> NUL] /\ i' = 0
      /\ UNCHANGED <<buffer, row, col, shift_pressed, caps_lock_enabled,
                     down, out>>
  BY DEF PrintDone, screen, modifiers
<1>3. /\ NUL \in Printable /\ BufferSize \in Nat \ {0} /\ Len(Prompt) \in Nat
      /\ Total \in Nat
  BY SizeFacts, ConsoleAssumption DEF Printable, NUL, Newline, Clear
<1>4. Cursor \in 0 .. Total
  BY <1>1, CursorFacts
<1>5. Cursor' = Cursor
  BY <1>2 DEF Cursor
<1>6. TypeOK'
  BY <1>1, <1>2, <1>3 DEF TypeOK, Indices
<1>7. Printed = Len(Prompt)
  BY <1>2, <1>3 DEF Printed
<1>8. /\ Cursor >= Len(Prompt)
      /\ \A j \in 1 .. Len(Prompt) :
           buffer[Cursor - Len(Prompt) + j - 1] = Prompt[j]
  BY <1>2, <1>3, <1>1, <1>7 DEF PromptStands
<1>9. Start' = Cursor - Len(Prompt)
  BY <1>2, <1>3, <1>4, <1>5 DEF Start
<1>10. EchoMatchesLine'
  <2>1. Start' >= 0
    BY <1>3, <1>4, <1>8, <1>9
  <2>2. \A k \in 1 .. Len(Prompt) : buffer'[Start' + k - 1] = Prompt[k]
    BY <1>2, <1>8, <1>9
  <2>3. \A k \in 0 .. i' - 1 : buffer'[Start' + Len(Prompt) + k] = line'[k]
    BY <1>2
  <2>4. \A k \in Indices : k >= i' => line'[k] = NUL
    BY <1>2
  <2> QED
    BY <2>1, <2>2, <2>3, <2>4 DEF EchoMatchesLine, Indices
<1>11. PromptToCome' /\ PromptStands'
  BY <1>2 DEF PromptToCome, PromptStands
<1>12. NothingBehindCursor' /\ ShiftWhileDown'
  BY <1>1, <1>2, <1>5 DEF NothingBehindCursor, ShiftWhileDown, Cells
<1> QED
  BY <1>6, <1>10, <1>11, <1>12 DEF IInv

(* What leaves screen, line and program counter alone, and shift_pressed   *)
(* set only with a shift key down and always with both.                    *)
LEMMA ModifiersKeepIInv ==
  ASSUME IInv,
         UNCHANGED <<buffer, row, col, line, i, pc, out>>,
         shift_pressed' \in 0 .. 1, caps_lock_enabled' \in 0 .. 1,
         down' \subseteq Shifts, shift_pressed' = 1 => down' # {},
         down' = Shifts => shift_pressed' = 1
  PROVE  IInv'
<1>1. Cursor' = Cursor /\ Start' = Start /\ Printed' = Printed
  BY DEF Cursor, Start, Printed
<1>2. TypeOK'
  BY DEF IInv, TypeOK
<1>3. PromptToCome' /\ PromptStands'
  BY <1>1 DEF IInv, PromptToCome, PromptStands
<1>4. EchoMatchesLine'
  BY <1>1 DEF IInv, EchoMatchesLine, Indices
<1>5. NothingBehindCursor' /\ ShiftWhileDown'
  BY <1>1 DEF IInv, NothingBehindCursor, ShiftWhileDown, Cells
<1> QED
  BY <1>2, <1>3, <1>4, <1>5 DEF IInv

LEMMA ShiftKeysKeepIInv ==
  ASSUME IInv, NEW s \in Shifts, ShiftPressed(s) \/ ShiftReleased(s)
  PROVE  IInv'
<1>1. down \subseteq Shifts /\ caps_lock_enabled \in 0 .. 1
  BY DEF IInv, TypeOK
<1>2. CASE ShiftPressed(s)
  BY <1>1, <1>2, ModifiersKeepIInv DEF ShiftPressed, screen
<1>3. CASE ShiftReleased(s)
  <2>1. s \notin down' /\ down' \subseteq Shifts /\ shift_pressed' = 0
    BY <1>1, <1>3 DEF ShiftReleased
  <2> QED
    BY <1>1, <1>3, <2>1, ModifiersKeepIInv DEF ShiftReleased, screen
<1> QED
  BY <1>2, <1>3

LEMMA CapsLockKeepsIInv == IInv /\ CapsLockPressed => IInv'
<1> SUFFICES ASSUME IInv, CapsLockPressed PROVE IInv'
  OBVIOUS
<1>1. down \subseteq Shifts /\ shift_pressed \in 0 .. 1
      /\ (shift_pressed = 1 => down # {}) /\ (down = Shifts => shift_pressed = 1)
      /\ caps_lock_enabled \in 0 .. 1
  BY DEF IInv, TypeOK, ShiftWhileDown
<1>2. caps_lock_enabled' \in 0 .. 1
  BY <1>1 DEF CapsLockPressed
<1> QED
  BY <1>1, <1>2, ModifiersKeepIInv DEF CapsLockPressed, screen

LEMMA ReadingFacts ==
  ASSUME IInv, pc = "read"
  PROVE  /\ i \in Nat /\ i <= BufferSize - 1 /\ Len(Prompt) \in Nat
         /\ Cursor \in 0 .. Total /\ Start \in Nat
         /\ Cursor = Start + Len(Prompt) + i
         /\ Start <= Cursor - i /\ i <= Cursor
<1>1. BufferSize \in Nat \ {0} /\ Len(Prompt) \in Nat /\ Total \in Nat
  BY SizeFacts
<1>2. i \in Nat /\ i <= BufferSize - 1
  BY <1>1 DEF IInv, TypeOK, Indices
<1>3. Cursor \in 0 .. Total
  BY CursorFacts DEF IInv
<1>4. Start >= 0
  BY DEF IInv, EchoMatchesLine
<1>5. Start = Cursor - i - Len(Prompt)
  BY DEF Start
<1> QED
  BY <1>1, <1>2, <1>3, <1>4, <1>5

LEMMA TypeFacts ==
  ASSUME IInv, NEW key \in Keys, Type(key)
  PROVE  /\ pc = "read" /\ i < BufferSize - 1 /\ i' = i + 1
         /\ line' = [line EXCEPT ![i] = Character(key)]
         /\ UNCHANGED <<modifiers, pc, out>>
         /\ Character(key) \in Printable /\ Puts(Character(key))
         /\ Start' = Start - Shift /\ Start' \in Nat
<1>1. /\ pc = "read" /\ i < BufferSize - 1 /\ i' = i + 1
      /\ line' = [line EXCEPT ![i] = Character(key)]
      /\ PutChar(Character(key)) /\ UNCHANGED <<modifiers, pc, out>>
  BY DEF Type, Reading
<1>2. Character(key) \in Printable
  BY ConsoleAssumption DEF Character
<1>3. Printable \subseteq Char
  BY DEF Printable
<1>4. Puts(Character(key))
  BY <1>1, <1>2, <1>3, PutRight DEF IInv
<1>5. /\ Cursor' \in 1 .. Total /\ Cursor' = Cursor + 1 - Shift
      /\ Shift \in Int /\ (Shift = 0 \/ (Shift = NUM_COLS /\ Cursor = Total))
  BY <1>2, <1>3, <1>4, PutsFacts DEF IInv
<1>6. /\ i \in Nat /\ Len(Prompt) \in Nat /\ Cursor \in 0 .. Total
      /\ Start \in Nat /\ Cursor = Start + Len(Prompt) + i
  BY <1>1, ReadingFacts
<1>7. /\ BufferSize \in Nat /\ NUM_COLS \in Nat /\ Total \in Nat
      /\ Len(Prompt) + BufferSize - 1 <= Total - NUM_COLS
  BY SizeFacts
<1>8. Start' = Cursor' - (i + 1) - Len(Prompt)
  BY <1>1 DEF Start
<1>9. Start' = Start - Shift
  BY <1>5, <1>6, <1>8
<1>10. Start - Shift \in Nat
  <2>1. CASE Shift = 0
    BY <1>6, <2>1
  <2>2. CASE Shift = NUM_COLS /\ Cursor = Total
    BY <1>1, <1>6, <1>7, <2>2
  <2> QED
    BY <1>5, <2>1, <2>2
<1> QED
  BY <1>1, <1>2, <1>4, <1>9, <1>10

LEMMA TypeKeepsIInv ==
  ASSUME IInv, NEW key \in Keys, Type(key)
  PROVE  IInv'
<1> DEFINE c == Character(key)
           L == Len(Prompt)
<1>1. /\ pc = "read" /\ i < BufferSize - 1 /\ i' = i + 1
      /\ line' = [line EXCEPT ![i] = c]
      /\ UNCHANGED <<modifiers, pc, out>>
      /\ c \in Printable /\ Puts(c)
      /\ Start' = Start - Shift /\ Start' \in Nat
  BY TypeFacts
<1>2. /\ i \in Nat /\ L \in Nat /\ Cursor \in 0 .. Total
      /\ Start \in Nat /\ Cursor = Start + L + i
  BY <1>1, ReadingFacts
<1>3. c \in Char
  BY <1>1 DEF Printable
<1> HIDE DEF c
<1>4. /\ Cursor' \in 1 .. Total /\ Cursor' = Cursor + 1 - Shift
      /\ Shift \in Int
      /\ buffer'[Cursor' - 1] = c
      /\ \A a \in 0 .. Cursor' - 2 : buffer'[a] = buffer[a + Shift]
  BY <1>1, <1>3, PutsFacts DEF IInv
<1>5. BufferSize \in Nat \ {0} /\ Total \in Nat
  BY SizeFacts
<1>6. line \in [Indices -> Printable] /\ i \in Indices
  BY DEF IInv, TypeOK
<1>7. i' \in Indices
  BY <1>1, <1>2, <1>5 DEF Indices
<1>8. /\ line' \in [Indices -> Printable] /\ line'[i] = c
      /\ \A k \in Indices : k # i => line'[k] = line[k]
  BY <1>1, <1>6
<1>9. TypeOK'
  BY <1>1, <1>7, <1>8 DEF IInv, TypeOK, Puts, modifiers
<1>10. /\ \A k \in 1 .. L : buffer[Start + k - 1] = Prompt[k]
       /\ \A k \in 0 .. i - 1 : buffer[Start + L + k] = line[k]
       /\ \A k \in Indices : k >= i => line[k] = NUL
  BY <1>1 DEF IInv, EchoMatchesLine
<1>11. Cursor' = Start' + L + i + 1
  BY <1>1, <1>2, <1>4
<1>12. \A k \in 1 .. L : buffer'[Start' + k - 1] = Prompt[k]
  <2>1. TAKE k \in 1 .. L
  <2>2. Start' + k - 1 \in 0 .. Cursor' - 2
    <3>1. \A s, n, m \in Nat : \A j \in 1 .. n :
             s + j - 1 \in 0 .. (s + n + m + 1) - 2
      OBVIOUS
    <3>2. Start' \in Nat /\ L \in Nat /\ i \in Nat
      BY <1>1, <1>2
    <3> QED
      BY <1>11, <2>1, <3>1, <3>2, Zenon
  <2>3. Start' + k - 1 + Shift = Start + k - 1
    BY <1>1, <1>2, <1>4
  <2> QED
    BY <1>4, <1>10, <2>2, <2>3
<1>13. \A k \in 0 .. i' - 1 : buffer'[Start' + L + k] = line'[k]
  <2>1. TAKE k \in 0 .. i' - 1
  <2>2. CASE k = i
    <3>1. Start' + L + k = Cursor' - 1
      BY <1>1, <1>2, <1>11, <2>2
    <3> QED
      BY <1>4, <1>8, <2>2, <3>1
  <2>3. CASE k # i
    <3>1. k \in 0 .. i - 1 /\ k \in Indices
      BY <1>1, <1>2, <1>5, <2>3 DEF Indices
    <3>2. Start' + L + k \in 0 .. Cursor' - 2
      BY <1>1, <1>2, <1>11, <3>1
    <3>3. Start' + L + k + Shift = Start + L + k
      BY <1>1, <1>2, <1>4
    <3> QED
      BY <1>4, <1>8, <1>10, <2>3, <3>1, <3>2, <3>3
  <2> QED
    BY <2>2, <2>3
<1>14. \A k \in Indices : k >= i' => line'[k] = NUL
  <2>1. TAKE k \in Indices
  <2>2. HAVE k >= i'
  <2>3. k # i /\ k >= i
    BY <1>1, <1>2, <2>2 DEF Indices
  <2> QED
    BY <1>8, <1>10, <2>3
<1>15. EchoMatchesLine'
  BY <1>1, <1>12, <1>13, <1>14 DEF EchoMatchesLine, Indices
<1>16. NothingBehindCursor'
  BY <1>1 DEF Puts, NothingBehindCursor, Cells
<1>17. PromptToCome' /\ PromptStands' /\ ShiftWhileDown'
  BY <1>1 DEF IInv, PromptToCome, PromptStands, ShiftWhileDown, modifiers
<1> QED
  BY <1>9, <1>15, <1>16, <1>17 DEF IInv

LEMMA EraseFacts ==
  ASSUME IInv, Erase
  PROVE  /\ pc = "read" /\ i > 0 /\ i' = i - 1 /\ i' \in Indices
         /\ line' = [line EXCEPT ![i'] = NUL]
         /\ UNCHANGED <<modifiers, pc, out>>
         /\ buffer' \in [Cells -> Char] /\ row' \in 0 .. NUM_ROWS - 1
         /\ col' \in 0 .. NUM_COLS
         /\ Cursor' = Cursor - 1
         /\ \A a \in Cells : a # Cursor' => buffer'[a] = buffer[a]
         /\ NothingBehindCursor'
         /\ Start' = Start
<1>1. /\ pc = "read" /\ i < BufferSize - 1 /\ i > 0 /\ i' = i - 1
      /\ line' = [line EXCEPT ![i'] = NUL]
      /\ Backspace /\ UNCHANGED <<modifiers, pc, out>>
  BY DEF Erase, Reading
<1>2. /\ i \in Nat /\ Len(Prompt) \in Nat /\ Cursor \in 0 .. Total
      /\ i <= Cursor
  BY <1>1, ReadingFacts
<1>3. Cursor > 0
  BY <1>1, <1>2
<1>4. /\ buffer' \in [Cells -> Char] /\ row' \in 0 .. NUM_ROWS - 1
      /\ col' \in 0 .. NUM_COLS
      /\ Cursor' = Cursor - 1
      /\ \A a \in Cells : a # Cursor' => buffer'[a] = buffer[a]
      /\ NothingBehindCursor'
  BY <1>1, <1>3, BackspaceRight DEF IInv
<1>5. Start' = Cursor' - i' - Len(Prompt) /\ Start = Cursor - i - Len(Prompt)
  BY DEF Start
<1>6. Start' = Start
  BY <1>1, <1>2, <1>4, <1>5
<1>7. BufferSize \in Nat
  BY SizeFacts
<1>8. i' \in Indices
  BY <1>1, <1>2, <1>7 DEF Indices
<1> QED
  BY <1>1, <1>4, <1>6, <1>8

LEMMA EraseKeepsIInv == IInv /\ Erase => IInv'
<1> SUFFICES ASSUME IInv, Erase PROVE IInv'
  OBVIOUS
<1> DEFINE L == Len(Prompt)
<1>1. /\ pc = "read" /\ i > 0 /\ i' = i - 1 /\ i' \in Indices
      /\ line' = [line EXCEPT ![i'] = NUL]
      /\ UNCHANGED <<modifiers, pc, out>>
      /\ buffer' \in [Cells -> Char] /\ row' \in 0 .. NUM_ROWS - 1
      /\ col' \in 0 .. NUM_COLS
      /\ Cursor' = Cursor - 1
      /\ \A a \in Cells : a # Cursor' => buffer'[a] = buffer[a]
      /\ NothingBehindCursor' /\ Start' = Start
  BY EraseFacts
<1>2. /\ i \in Nat /\ L \in Nat /\ Cursor \in 0 .. Total
      /\ Start \in Nat /\ Cursor = Start + L + i
  BY <1>1, ReadingFacts
<1>3. /\ BufferSize \in Nat \ {0} /\ Total \in Nat /\ Cells = 0 .. Total - 1
      /\ NUL \in Printable
  BY SizeFacts, ConsoleAssumption DEF Printable, NUL, Newline, Clear
<1>4. line \in [Indices -> Printable]
  BY DEF IInv, TypeOK
<1>5. /\ line' \in [Indices -> Printable] /\ line'[i'] = NUL
      /\ \A k \in Indices : k # i' => line'[k] = line[k]
  BY <1>1, <1>3, <1>4
<1>6. TypeOK'
  BY <1>1, <1>5 DEF IInv, TypeOK, modifiers
<1>7. /\ \A k \in 1 .. L : buffer[Start + k - 1] = Prompt[k]
      /\ \A k \in 0 .. i - 1 : buffer[Start + L + k] = line[k]
      /\ \A k \in Indices : k >= i => line[k] = NUL
  BY <1>1 DEF IInv, EchoMatchesLine
<1>8. \A a \in 0 .. Cursor - 2 : buffer'[a] = buffer[a]
  <2>1. TAKE a \in 0 .. Cursor - 2
  <2>2. a \in Cells /\ a # Cursor'
    BY <1>1, <1>2, <1>3
  <2> QED
    BY <1>1, <2>2
<1>9. \A k \in 1 .. L : buffer'[Start' + k - 1] = Prompt[k]
  <2>1. TAKE k \in 1 .. L
  <2>2. Start + k - 1 \in 0 .. Cursor - 2
    BY <1>1, <1>2
  <2> QED
    BY <1>1, <1>7, <1>8, <2>2
<1>10. \A k \in 0 .. i' - 1 : buffer'[Start' + L + k] = line'[k]
  <2>1. TAKE k \in 0 .. i' - 1
  <2>2. /\ Start + L + k \in 0 .. Cursor - 2 /\ k \in 0 .. i - 1
        /\ k # i' /\ k \in Indices
    BY <1>1, <1>2, <1>3 DEF Indices
  <2> QED
    BY <1>1, <1>5, <1>7, <1>8, <2>2
<1>11. \A k \in Indices : k >= i' => line'[k] = NUL
  <2>1. TAKE k \in Indices
  <2>2. HAVE k >= i'
  <2>3. k = i' \/ k >= i
    BY <1>1, <1>2, <2>2 DEF Indices
  <2> QED
    BY <1>5, <1>7, <2>3
<1>12. EchoMatchesLine'
  BY <1>1, <1>2, <1>9, <1>10, <1>11 DEF EchoMatchesLine, Indices
<1>13. PromptToCome' /\ PromptStands' /\ ShiftWhileDown'
  BY <1>1 DEF IInv, PromptToCome, PromptStands, ShiftWhileDown, modifiers
<1> QED
  BY <1>1, <1>6, <1>12, <1>13 DEF IInv

LEMMA SubmitKeepsIInv == IInv /\ Submit => IInv'
<1> SUFFICES ASSUME IInv, Submit PROVE IInv'
  OBVIOUS
<1>1. /\ pc = "read" /\ line' = [line EXCEPT ![i] = NUL]
      /\ print_newline /\ pc' = "print" /\ Run
      /\ UNCHANGED <<modifiers, i>>
  BY DEF Submit
<1>2. /\ line \in [Indices -> Printable] /\ i \in Indices
  BY DEF IInv, TypeOK
<1>3. NUL \in Printable
  BY ConsoleAssumption DEF Printable, NUL, Newline, Clear
<1>4. line' \in [Indices -> Printable] /\ line'[i] = NUL
  BY <1>1, <1>2, <1>3
<1>5. PICK text \in Seq(Char) : out' = text \o Prompt
  BY <1>1, <1>2, <1>4, RunTyped
<1>6. /\ out' \in Seq(Char) /\ Printed' \in Int /\ Printed' <= 0
      /\ \A j \in 1 .. Len(Prompt) :
           j - Printed' \in 1 .. Len(out') /\ out'[j - Printed'] = Prompt[j]
  BY <1>5, PromptLast DEF Printed
<1>7. /\ buffer' \in [Cells -> Char] /\ row' \in 0 .. NUM_ROWS - 1
      /\ col' \in 0 .. NUM_COLS /\ Cursor' \in Nat
      /\ NothingBehindCursor'
  BY <1>1, NewlineRight DEF IInv
<1>8. TypeOK'
  BY <1>1, <1>4, <1>6, <1>7 DEF IInv, TypeOK, modifiers
<1>9. PromptToCome'
  BY <1>6 DEF PromptToCome
<1>10. PromptStands'
  BY <1>6, <1>7 DEF PromptStands
<1>11. EchoMatchesLine' /\ ShiftWhileDown'
  BY <1>1 DEF IInv, EchoMatchesLine, ShiftWhileDown, modifiers
<1> QED
  BY <1>7, <1>8, <1>9, <1>10, <1>11 DEF IInv

LEMMA StepIInv == IInv /\ [Next]_vars => IInv'
<1> SUFFICES ASSUME IInv, [Next]_vars PROVE IInv'
  OBVIOUS
<1>1. CASE PrintNext
  BY <1>1, PrintNextKeepsIInv
<1>2. CASE PrintDone
  BY <1>2, PrintDoneKeepsIInv
<1>3. CASE \E s \in Shifts : ShiftPressed(s) \/ ShiftReleased(s)
  BY <1>3, ShiftKeysKeepIInv
<1>4. CASE CapsLockPressed
  BY <1>4, CapsLockKeepsIInv
<1>5. CASE \E key \in Keys : Type(key)
  BY <1>5, TypeKeepsIInv
<1>6. CASE Erase
  BY <1>6, EraseKeepsIInv
<1>7. CASE Submit
  BY <1>7, SubmitKeepsIInv
<1>8. CASE UNCHANGED vars
  <2>1. /\ UNCHANGED <<buffer, row, col, line, i, pc, out>>
        /\ UNCHANGED <<shift_pressed, caps_lock_enabled, down>>
    BY <1>8 DEF vars, screen, modifiers
  <2>2. /\ shift_pressed \in 0 .. 1 /\ caps_lock_enabled \in 0 .. 1
        /\ down \subseteq Shifts /\ (shift_pressed = 1 => down # {})
        /\ (down = Shifts => shift_pressed = 1)
    BY DEF IInv, TypeOK, ShiftWhileDown
  <2> QED
    BY <2>1, <2>2, ModifiersKeepIInv
<1> QED
  BY <1>1, <1>2, <1>3, <1>4, <1>5, <1>6, <1>7, <1>8 DEF Next

-----------------------------------------------------------------------------
(* The theorems.                                                           *)

LEMMA AlwaysIInv == Spec => []IInv
<1>1. Init => IInv
  BY InitIInv
<1>2. IInv /\ [Next]_vars => IInv'
  BY StepIInv
<1> QED
  BY <1>1, <1>2, PTL DEF Spec

(* The cursor stays on the screen or behind its last row, and the index of *)
(* read_input inside its buffer.                                           *)
THEOREM TypeCorrect == Spec => []TypeOK
<1>1. IInv => TypeOK
  BY DEF IInv
<1> QED
  BY <1>1, AlwaysIInv, PTL

(* What read_input and print_char show of a line is what its buffer holds, *)
(* on a screen and with a line of any size.                                *)
THEOREM EchoAlwaysMatches == Spec => []EchoMatchesLine
<1>1. IInv => EchoMatchesLine
  BY DEF IInv
<1> QED
  BY <1>1, AlwaysIInv, PTL

(* Corrections and scrolling leave nothing behind the cursor.              *)
THEOREM NeverBehindCursor == Spec => []NothingBehindCursor
<1>1. IInv => NothingBehindCursor
  BY DEF IInv
<1> QED
  BY <1>1, AlwaysIInv, PTL

(* get_char takes shift to be down only while a shift key is, and always   *)
(* while both are.                                                         *)
THEOREM ShiftAlwaysHeld == Spec => []ShiftWhileDown
<1>1. IInv => ShiftWhileDown
  BY DEF IInv
<1> QED
  BY <1>1, AlwaysIInv, PTL

(* Editing a line leaves what was printed before it, or moves it up with   *)
(* the prompt.                                                             *)
THEOREM OutputAlwaysKept == Spec => OutputKept
<1>1. IInv /\ [Next]_vars =>
        [pc = "read" /\ pc' = "read" =>
           \A a \in 0 .. Start - 1 :
             a - (Start - Start') >= 0 =>
               buffer'[a - (Start - Start')] = buffer[a]]_vars
  <2> SUFFICES ASSUME IInv, Next, pc = "read", pc' = "read",
                      NEW a \in 0 .. Start - 1, a - (Start - Start') >= 0
               PROVE  buffer'[a - (Start - Start')] = buffer[a]
    OBVIOUS
  <2>1. /\ i \in Nat /\ Len(Prompt) \in Nat /\ Cursor \in 0 .. Total
        /\ Start \in Nat /\ Cursor = Start + Len(Prompt) + i
    BY ReadingFacts
  <2>2. Total \in Nat /\ Cells = 0 .. Total - 1
    BY SizeFacts
  <2>3. a \in Int /\ a >= 0 /\ a <= Start - 1
    BY <2>1
  <2>4. CASE PrintNext \/ PrintDone \/ Submit
    BY <2>4 DEF PrintNext, PrintDone, Submit
  <2>5. CASE UNCHANGED <<buffer, row, col, i>>
    <3>1. Start' = Start
      BY <2>5 DEF Start, Cursor
    <3>2. a - (Start - Start') = a
      BY <2>1, <2>3, <3>1
    <3> QED
      BY <2>5, <3>2
  <2>6. CASE \E s \in Shifts : ShiftPressed(s) \/ ShiftReleased(s)
    BY <2>5, <2>6 DEF ShiftPressed, ShiftReleased, screen
  <2>7. CASE CapsLockPressed
    BY <2>5, <2>7 DEF CapsLockPressed, screen
  <2>8. CASE Erase
    <3>1. /\ Start' = Start /\ Cursor' = Cursor - 1 /\ i > 0
          /\ \A b \in Cells : b # Cursor' => buffer'[b] = buffer[b]
      BY <2>8, EraseFacts
    <3>2. a - (Start - Start') = a /\ a \in Cells /\ a # Cursor'
      BY <2>1, <2>2, <2>3, <3>1
    <3> QED
      BY <3>1, <3>2
  <2>9. CASE \E key \in Keys : Type(key)
    <3>1. PICK key \in Keys : Type(key)
      BY <2>9
    <3>2. /\ Character(key) \in Char /\ Puts(Character(key)) /\ i' = i + 1
          /\ Start' = Start - Shift /\ Start' \in Nat
      BY <3>1, TypeFacts DEF Printable
    <3>3. /\ Cursor' = Cursor + 1 - Shift /\ Shift \in Int
          /\ \A b \in 0 .. Cursor' - 2 : buffer'[b] = buffer[b + Shift]
      BY <3>2, PutsFacts DEF IInv
    <3>4. a - (Start - Start') = a - Shift
      BY <2>1, <3>2, <3>3
    <3>5. a - Shift \in 0 .. Cursor' - 2 /\ a - Shift + Shift = a
      BY <2>1, <2>3, <3>2, <3>3, <3>4
    <3> QED
      BY <3>3, <3>4, <3>5
  <2> QED
    BY <2>4, <2>6, <2>7, <2>8, <2>9 DEF Next
<1> QED
  BY <1>1, AlwaysIInv, PTL DEF Spec, OutputKept

=============================================================================
