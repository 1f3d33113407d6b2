---------------------------- MODULE MC_UnifyDocs ----------------------------
(***************************************************************************)
(* Model-checking instance of UnifyDocs: two documents, started twice.     *)
(* a.md has a title, a What and a Why section, a later heading and a code  *)
(* fence; b.md has its Why section before its What section, blank-only    *)
(* lines, no later heading and no final newline.                           *)
(***************************************************************************)
EXTENDS UnifyDocs

MC_Files == {"a.md", "b.md"}

\* # Title / (empty) / summary / ## What / (empty) / what / ## Why / why /
\* ## Usage / ``` / code / ```, and a final newline
DocA == [lines |-> <<"t1", "E", "t2", "W", "E", "t3", "Y", "t3", "H", "F", "t1", "F">>,
         eol |-> TRUE]
\* (empty) / ## Why / why / (blanks) / ## What / what / (empty) / (empty) / text
DocB == [lines |-> <<"E", "Y", "t2", "S", "W", "t3", "E", "E", "t1">>, eol |-> FALSE]

MC_Original == ("a.md" :> DocA) @@ ("b.md" :> DocB)
====
