----------------------------- MODULE MCConsole -----------------------------
(***************************************************************************)
(* A screen of 3 rows and 3 columns: a line of 4 characters behind a       *)
(* prompt of 2 wraps, fills a row exactly, and scrolls.                    *)
(***************************************************************************)
EXTENDS Console

MCChar ==
  {"NUL", "newline", "clear", "blank",
   ">", "_", "a", "A", "ok", "x", "y", "z", "w"}

MCPrompt == <<">", "_">>

(* Commands that clear the screen, that leave their line open, and whose   *)
(* output fills rows exactly or wraps.                                     *)
MCOutputs ==
  {<<Clear>>, <<"x", "y">>, <<Clear, "ok", Newline>>,
   <<"x", Newline, "y", "z", "w", Newline>>,
   <<"x", "y", "z", "w", Newline>>}

MCKeyMap == [k \in {"a key", "F1"} |-> IF k = "F1" THEN NUL ELSE "a"]

MCShiftedKeyMap == [k \in {"a key", "F1"} |-> IF k = "F1" THEN NUL ELSE "A"]

=============================================================================
