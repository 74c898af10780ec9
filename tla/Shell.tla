------------------------------- MODULE Shell -------------------------------
(***************************************************************************)
(* The two prompts: the kernel's (main.c) and the disk tool's              *)
(* (disktool_cmd.c), with the functions on strings (string.c) that take a  *)
(* line apart, and those that print numbers (print.c).                     *)
(*                                                                         *)
(* A line is a sequence of words and single characters: a word that means  *)
(* something to a prompt, a space, a digit and a letter are each one       *)
(* element.  What a command does once it has been called is left to the    *)
(* other modules; the loops over the digits of a number are one turn a     *)
(* step.                                                                   *)
(***************************************************************************)
EXTENDS Integers, Sequences

CONSTANTS
  MODULUS,    \* 2^32: numbers wrap around there
  DIGITS,     \* room for digits in print_int, 10
  Lines,      \* what may be typed
  Numbers     \* what may be displayed

VARIABLES
  prompt,     \* "kernel" or "disktool"
  line,       \* the line typed last
  rest,       \* what strtoul has not looked at yet
  number,     \* result of strtoul, or num of the print functions
  fs_type,
  color,      \* of kernel_main, and ...
  tool_color, \* ... of start_disktool, 0 outside of it
  digits,     \* characters of a number being printed
  call,       \* the function called for the line, with its arguments
  pc

parsing == <<rest, number, fs_type, digits>>
vars == <<prompt, line, color, tool_color, call, pc, parsing>>

(* A definition that begins with Bad is a plausible slip in the definition *)
(* it is named after; the specification uses none.                         *)

-----------------------------------------------------------------------------
BASE == 10

(* There is room for the largest number, and the numbers of the colors are *)
(* positive as an int.                                                     *)
ASSUME ShellAssumption ==
  /\ MODULUS \in Nat \ {0} /\ DIGITS \in Nat \ {0}
  /\ LET power[k \in 0 .. DIGITS] == IF k = 0 THEN 1 ELSE BASE * power[k - 1]
     IN  MODULUS <= power[DIGITS]
  /\ 14 < MODULUS \div 2
  /\ Lines \subseteq Seq(STRING)
  /\ Numbers \subseteq 0 .. MODULUS - 1

(* The characters that strtoul takes for 0 to 10.  Any other letter counts *)
(* more, any other character ends the number.                              *)
Symbols == <<"0", "1", "2", "3", "4", "5", "6", "7", "8", "9", "A">>

BadDigits == 0 .. BASE

Digits == 0 .. BASE - 1

Stands(c, d) == d \in 0 .. 10 /\ Symbols[d + 1] = c

BadWrapped(n) == n

Wrapped(n) == n % MODULUS

(* The same bits as an int.                                                *)
ToInt(n) == IF n < MODULUS \div 2 THEN n ELSE n - MODULUS

Space == " "

(* strcmp and strncmp.                                                     *)
Is(word) == line = <<word>>

Begins(word) == Len(line) > 1 /\ line[1] = word /\ line[2] = Space

(* What follows the word and the space.                                    *)
Argument == SubSeq(line, 3, Len(line))

(* strchr(s, ' '): the first space, 0 when there is none.                  *)
FirstSpace(s) ==
  IF \E k \in DOMAIN s : s[k] = Space
    THEN CHOOSE k \in DOMAIN s : s[k] = Space /\ \A l \in 1 .. k - 1 : s[l] # Space
    ELSE 0

BadFsType(s) == IF s # <<"ext4">> THEN "FS_EXT4" ELSE "FS_FAT32"

parse_fs_type(s) == IF s = <<"ext4">> THEN "FS_EXT4" ELSE "FS_FAT32"

NoCall == [f |-> "none", n |-> 0, fs |-> "none"]

Plain(f) == [NoCall EXCEPT !.f = f]

Init ==
  /\ prompt = "kernel" /\ line = <<>>
  /\ rest = <<>> /\ number = 0 /\ fs_type = "none" /\ digits = <<>>
  /\ color = 0 /\ tool_color = 0
  /\ call = NoCall /\ pc = "prompt"

-----------------------------------------------------------------------------
(* read_input; what the functions called for the last line had in their    *)
(* variables is gone.                                                      *)
ReadLine(typed) ==
  /\ pc = "prompt"
  /\ line' = typed /\ call' = NoCall
  /\ rest' = <<>> /\ number' = 0 /\ fs_type' = "none" /\ digits' = <<>>
  /\ pc' = IF typed = <<>> THEN "prompt" ELSE "dispatch"
  /\ UNCHANGED <<prompt, color, tool_color>>

At(which) == pc = "dispatch" /\ prompt = which

(* A command that is a call, and no more.                                  *)
Make(c) ==
  /\ call' = c /\ pc' = "prompt"
  /\ UNCHANGED <<prompt, line, color, tool_color, parsing>>

(* strtoul is called on s, for the command f.                              *)
Parse(f, s, fs) ==
  /\ call' = Plain(f) /\ rest' = s /\ number' = 0 /\ fs_type' = fs
  /\ pc' = "strtoul"
  /\ UNCHANGED <<prompt, line, color, tool_color, digits>>

-----------------------------------------------------------------------------
(* The kernel's prompt.                                                    *)

KernelWords == {"help", "clear", "dsks", "about", "checkfs", "partitions"}

KernelWord == \E w \in KernelWords : At("kernel") /\ Is(w) /\ Make(Plain(w))

Echo == At("kernel") /\ Begins("echo") /\ Make(Plain("echo"))

StartDiskTool ==
  /\ At("kernel") /\ Is("disktool")
  /\ prompt' = "disktool" /\ tool_color' = color
  /\ call' = Plain("start_disktool") /\ pc' = "prompt"
  /\ UNCHANGED <<line, color, parsing>>

SetColor == At("kernel") /\ Begins("setcolor") /\ Parse("setcolor", Argument, "none")

KernelUnknown ==
  /\ At("kernel")
  /\ ~Is("disktool") /\ \A w \in KernelWords : ~Is(w)
  /\ ~Begins("echo") /\ ~Begins("setcolor")
  /\ Make(NoCall)

-----------------------------------------------------------------------------
(* The disk tool's prompt.                                                 *)

ToolWords == {"help", "partinfo"}

ToolWord == \E w \in ToolWords : At("disktool") /\ Is(w) /\ Make(Plain(w))

(* The functions that display numbers: any number of them.                 *)
Display(f) ==
  /\ call' = Plain(f) /\ pc' = "list"
  /\ UNCHANGED <<prompt, line, color, tool_color, parsing>>

ListDisks == At("disktool") /\ Is("listdisks") /\ Display("list_disks")

Update == At("disktool") /\ Is("update") /\ Display("init_disktool")

Format ==
  /\ At("disktool")
  /\ \/ /\ Is("format")
        /\ Make([f |-> "format_disk", n |-> 0, fs |-> "FS_EXT4"])
     \/ /\ Begins("format")
        /\ Make([f |-> "format_disk", n |-> 0, fs |-> parse_fs_type(Argument)])

SelectDisk ==
  At("disktool") /\ Begins("selectdisk") /\ Parse("select_disk", Argument, "none")

(* The size string is cut off at the first space behind it.                *)
NewPart ==
  LET k == FirstSpace(Argument) IN
  /\ At("disktool") /\ Begins("newpart")
  /\ \/ k = 0 /\ Parse("create_partition_mb", Argument, "FS_FAT32")
     \/ /\ k # 0
        /\ Parse("create_partition_mb", SubSeq(Argument, 1, k - 1),
                 parse_fs_type(SubSeq(Argument, k + 1, Len(Argument))))

DelPart ==
  At("disktool") /\ Begins("delpart") /\ Parse("delete_partition", Argument, "none")

Exit ==
  /\ At("disktool") /\ Is("exit")
  /\ prompt' = "kernel" /\ call' = Plain("exit") /\ pc' = "prompt"
  /\ tool_color' = 0
  /\ UNCHANGED <<line, color, parsing>>

ToolUnknown ==
  /\ At("disktool")
  /\ \A w \in ToolWords \union {"listdisks", "update", "format", "exit"} : ~Is(w)
  /\ \A w \in {"format", "selectdisk", "newpart", "delpart"} : ~Begins(w)
  /\ Make(NoCall)

-----------------------------------------------------------------------------
(* strtoul, and what is done with its result.                              *)

TakeDigit ==
  /\ pc = "strtoul" /\ rest # <<>>
  /\ \E d \in Digits :
       Stands(Head(rest), d) /\ number' = Wrapped(number * BASE + d)
  /\ rest' = Tail(rest)
  /\ UNCHANGED <<prompt, line, fs_type, color, tool_color, digits, call, pc>>

NumberEnds == rest # <<>> => \A d \in Digits : ~Stands(Head(rest), d)

(* The size of a partition stays unsigned.                                 *)
CallWithNumber ==
  /\ pc = "strtoul" /\ NumberEnds /\ call.f # "setcolor"
  /\ call' = [f |-> call.f, fs |-> fs_type,
              n |-> IF call.f = "create_partition_mb" THEN number ELSE ToInt(number)]
  /\ pc' = "prompt"
  /\ UNCHANGED <<prompt, line, color, tool_color, parsing>>

(* A number that is no color is complained about, and kept all the same.   *)
ColorSet ==
  /\ pc = "strtoul" /\ NumberEnds /\ call.f = "setcolor"
  /\ color' = ToInt(number) /\ pc' = "prompt"
  /\ UNCHANGED <<prompt, line, tool_color, call, parsing>>

-----------------------------------------------------------------------------
(* Numbers are displayed.                                                  *)

(* list_disks uses print_int, init_disktool print_dec.                     *)
PrintNumber(n) ==
  /\ pc = "list"
  /\ call' = [call EXCEPT !.n = n]
  /\ number' = n
  /\ digits' = IF n = 0 THEN <<"0">> ELSE <<>>
  /\ pc' = IF call.f = "list_disks" THEN "print_int" ELSE "print_dec"
  /\ UNCHANGED <<prompt, line, color, tool_color, rest, fs_type>>

Listed ==
  /\ pc = "list" /\ pc' = "prompt"
  /\ UNCHANGED <<prompt, line, color, tool_color, call, parsing>>

LastDigit == Symbols[(number % BASE) + 1]

(* print_int fills its buffer from the end and prints from where it got.   *)
PrintIntNext ==
  /\ pc = "print_int" /\ number > 0 /\ Len(digits) < DIGITS
  /\ digits' = <<LastDigit>> \o digits
  /\ number' = number \div BASE
  /\ UNCHANGED <<prompt, line, color, tool_color, call, pc, rest, fs_type>>

PrintIntDone ==
  /\ pc = "print_int" /\ (number = 0 \/ Len(digits) = DIGITS)
  /\ pc' = "list"
  /\ UNCHANGED <<prompt, line, color, tool_color, call, parsing>>

(* print_dec fills it from the start and prints backwards.                 *)
PrintDecNext ==
  /\ pc = "print_dec" /\ number > 0
  /\ digits' = Append(digits, LastDigit)
  /\ number' = number \div BASE
  /\ UNCHANGED <<prompt, line, color, tool_color, call, pc, rest, fs_type>>

PrintDecDone ==
  /\ pc = "print_dec" /\ number = 0
  /\ digits' = [k \in 1 .. Len(digits) |-> digits[Len(digits) + 1 - k]]
  /\ pc' = "list"
  /\ UNCHANGED <<prompt, line, color, tool_color, call, rest, number, fs_type>>

-----------------------------------------------------------------------------
Next ==
  \/ \E typed \in Lines : ReadLine(typed)
  \/ KernelWord \/ Echo \/ StartDiskTool \/ SetColor \/ KernelUnknown
  \/ ToolWord \/ ListDisks \/ Update \/ Format \/ SelectDisk \/ NewPart \/ DelPart
  \/ Exit \/ ToolUnknown
  \/ TakeDigit \/ CallWithNumber \/ ColorSet
  \/ \E n \in Numbers : PrintNumber(n)
  \/ PrintIntNext \/ PrintIntDone \/ PrintDecNext \/ PrintDecDone \/ Listed

Spec == Init /\ [][Next]_vars

-----------------------------------------------------------------------------
Ints == 0 - MODULUS .. MODULUS - 1

WithNumber == {"select_disk", "delete_partition", "create_partition_mb"}

Callees ==
  KernelWords \union ToolWords \union WithNumber \union
  {"none", "echo", "setcolor", "start_disktool", "exit",
   "list_disks", "init_disktool", "format_disk"}

TypeOK ==
  /\ prompt \in {"kernel", "disktool"} /\ line \in Seq(STRING)
  /\ rest \in Seq(STRING) /\ number \in 0 .. MODULUS - 1
  /\ fs_type \in {"none", "FS_EXT4", "FS_FAT32"}
  /\ color \in Ints /\ tool_color \in Ints
  /\ digits \in Seq({Symbols[k] : k \in 1 .. 10})
  /\ call \in [f : Callees, n : Ints, fs : {"none", "FS_EXT4", "FS_FAT32"}]
  /\ pc \in {"prompt", "dispatch", "strtoul", "list", "print_int", "print_dec"}

(* What a sequence of digits stands for.                                   *)
IsNumber(s) == s # <<>> /\ \A k \in DOMAIN s : \E d \in 0 .. 9 : Stands(s[k], d)

Value(s) ==
  LET value[k \in 0 .. Len(s)] ==
        IF k = 0 THEN 0
        ELSE 10 * value[k - 1] + (CHOOSE d \in 0 .. 9 : Stands(s[k], d))
  IN  value[Len(s)]

(* The part of s that is taken for a number.                               *)
Numeral(s) ==
  LET n == CHOOSE n \in 0 .. Len(s) :
             /\ n = 0 \/ IsNumber(SubSeq(s, 1, n))
             /\ n = Len(s) \/ ~IsNumber(SubSeq(s, n + 1, n + 1))
  IN  SubSeq(s, 1, n)

(* However long the number typed and whatever follows it, a command gets   *)
(* the digits' value, modulo 2^32; and a number displayed is exactly the   *)
(* one meant, so that it can be typed again, and has no more digits than   *)
(* there is room for, although print_dec does not count them (strtoul,     *)
(* print_int, print_dec).                                                  *)
NumbersExact ==
  /\ pc = "prompt" /\ call.f \in WithNumber =>
       call.n % MODULUS = Value(Numeral(Argument)) % MODULUS
  /\ pc = "list" /\ digits # <<>> =>
       /\ IsNumber(digits) /\ Value(digits) = call.n
       /\ digits[1] = "0" => digits = <<"0">>
  /\ pc \in {"print_int", "print_dec"} => Len(digits) <= DIGITS

Typed(word, s) == line = <<word, Space>> \o s

(* The help text keeps its word: a line of the form it describes makes     *)
(* exactly that call; and no function that changes a disk is called for a  *)
(* line that does not name it, or from the kernel's prompt.                *)
TypedMeansDone ==
  pc = "prompt" =>
    /\ prompt = "disktool" =>
         LET s == Argument
             sized == SubSeq(s, 1, Len(s) - 2)
         IN
         /\ Is("format") => call = [f |-> "format_disk", n |-> 0, fs |-> "FS_EXT4"]
         /\ Typed("format", <<"ext4">>) =>
              call = [f |-> "format_disk", n |-> 0, fs |-> "FS_EXT4"]
         /\ Typed("format", <<"fat32">>) =>
              call = [f |-> "format_disk", n |-> 0, fs |-> "FS_FAT32"]
         /\ IsNumber(s) /\ Value(s) < MODULUS \div 2 =>
              /\ Typed("selectdisk", s) =>
                   call = [f |-> "select_disk", n |-> Value(s), fs |-> "none"]
              /\ Typed("delpart", s) =>
                   call = [f |-> "delete_partition", n |-> Value(s), fs |-> "none"]
         /\ IsNumber(s) /\ Value(s) < MODULUS /\ Typed("newpart", s) =>
              call = [f |-> "create_partition_mb", n |-> Value(s), fs |-> "FS_FAT32"]
         /\ IsNumber(sized) /\ Value(sized) < MODULUS =>
              \A fs \in {"ext4", "fat32"} :
                Typed("newpart", sized \o <<Space, fs>>) =>
                  call = [f |-> "create_partition_mb", n |-> Value(sized),
                          fs |-> IF fs = "ext4" THEN "FS_EXT4" ELSE "FS_FAT32"]
    /\ prompt = "kernel" /\ IsNumber(Argument) /\ Value(Argument) <= 14
       /\ Typed("setcolor", Argument) => color = Value(Argument)
    /\ call.f = "format_disk" => Is("format") \/ Begins("format")
    /\ call.f = "create_partition_mb" => Begins("newpart")
    /\ call.f = "delete_partition" => Begins("delpart")
    /\ call.f \in WithNumber \union {"format_disk"} => prompt = "disktool"

=============================================================================
