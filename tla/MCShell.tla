------------------------------ MODULE MCShell ------------------------------
(***************************************************************************)
(* Numbers of 8 bits, displayed with up to 3 digits and typed with up to   *)
(* 4, so that they wrap around; mistyped words, numbers and file systems;  *)
(* commands at the prompt that does not know them.                         *)
(***************************************************************************)
EXTENDS Shell

MCNumbers == 0 .. 255

Typable ==
  LET Short == {<<>>} \union [1 .. 1 -> {"0", "2", "9", "A"}]
  IN  {a \o b \o c : a, b, c \in Short} \union {<<"1", "2", "9", "9">>}

Suffixes == {<<"ext4">>, <<"fat32">>, <<"x">>, <<>>, <<"ext4", " ">>}

MCLines ==
  {<<w>> : w \in {"help", "disktool", "about", "listdisks", "update", "format",
                  "partinfo", "exit", "newpart", "setcolor", "x"}}
  \union {<<>>, <<"format", "x">>, <<"echo", " ", "format">>,
          <<"newpart", " ", " ", "5">>}
  \union {<<"format", " ">> \o fs : fs \in Suffixes}
  \union {<<w, " ">> \o n : w \in {"selectdisk", "newpart", "delpart"}, n \in Typable}
  \union {<<"newpart", " ">> \o n \o <<" ">> \o fs : n \in Typable, fs \in Suffixes}
  \union {<<"setcolor", " ">> \o n : n \in {<<"1", "4">>, <<"2", "0", "0">>}}

=============================================================================
