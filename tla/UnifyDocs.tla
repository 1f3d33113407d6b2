------------------------------ MODULE UnifyDocs ------------------------------
(***************************************************************************)
(* specs/05_stdlib/unify_docs.py: process_directory visits every *.md file *)
(* of the tree and rewrites it in place with unify_file, which drops the   *)
(* "## What" and "## Why" headers, moves the non-blank lines of those      *)
(* sections in front of the first "## " heading or "```" fence of the rest *)
(* and collapses runs of blank lines.  An exception of one file is printed *)
(* and the walk goes on with the next.  The script may be run again over   *)
(* the same tree, and the process may be stopped at any point.             *)
(*                                                                         *)
(* A line is one of the kinds in LineKinds: "W" starts with "## What", "Y" *)
(* with "## Why", "H" with another "## ", "F" with "```", "E" is empty,    *)
(* "S" holds only blanks, any other string is a text line.  A file's text  *)
(* is a record of its splitlines() and whether it ends with a newline.     *)
(***************************************************************************)
EXTENDS Naturals, Sequences, SequencesExt, FiniteSets

CONSTANTS
    Files,      \* the *.md paths os.walk yields
    Original,   \* Files -> the text of each file before the first run
    MaxRuns     \* how often the script is started over the same tree

Texts == {"t1", "t2", "t3"}
LineKinds == {"W", "Y", "H", "F", "E", "S"} \cup Texts
IsWhat(l) == l = "W"                 \* line.startswith("## What")
IsWhy(l) == l = "Y"                  \* line.startswith("## Why")
IsH2(l) == l \in {"W", "Y", "H"}     \* line.startswith("## ")
IsFence(l) == l = "F"                \* line.startswith("```")
IsBlank(l) == l \in {"E", "S"}       \* line.strip() == ""

\* Mutant: the join taken as the identity on lines, as if splitlines()
\* kept a final empty line.
JoinLinesIdentity(L) == [lines |-> L, eol |-> FALSE]

\* "\n".join(lines) read back with splitlines(): a trailing "" becomes the
\* final newline, and the empty string has no lines.
JoinLines(L) ==
    IF L # <<>> /\ Last(L) = "E"
    THEN [lines |-> Front(L), eol |-> Len(L) > 1]
    ELSE [lines |-> L, eol |-> FALSE]

\* The text open(filepath, 'w') leaves before anything is written.
Empty == [lines |-> <<>>, eol |-> FALSE]

\* Mutant: the "## What" header is not skipped but collected with the
\* lines of its section, so it is moved along and outlives the run.
SplitStepKeepHeader(st, line) ==
    IF IsWhat(line)
    THEN [st EXCEPT !.inWhat = TRUE, !.inWhy = FALSE, !.what = Append(@, line)]
    ELSE IF IsWhy(line) THEN [st EXCEPT !.inWhat = FALSE, !.inWhy = TRUE]
    ELSE LET s == IF IsH2(line) THEN [st EXCEPT !.inWhat = FALSE, !.inWhy = FALSE]
                  ELSE st
         IN  CASE s.inWhat -> IF IsBlank(line) THEN s ELSE [s EXCEPT !.what = Append(@, line)]
               [] s.inWhy -> IF IsBlank(line) THEN s ELSE [s EXCEPT !.why = Append(@, line)]
               [] OTHER -> [s EXCEPT !.msg = Append(@, line)]

\* Mutant: the "## " heading that closes a section is skipped with it.
SplitStepDropClosing(st, line) ==
    IF IsWhat(line) THEN [st EXCEPT !.inWhat = TRUE, !.inWhy = FALSE]
    ELSE IF IsWhy(line) THEN [st EXCEPT !.inWhat = FALSE, !.inWhy = TRUE]
    ELSE IF IsH2(line) /\ (st.inWhat \/ st.inWhy)
    THEN [st EXCEPT !.inWhat = FALSE, !.inWhy = FALSE]
    ELSE CASE st.inWhat -> IF IsBlank(line) THEN st ELSE [st EXCEPT !.what = Append(@, line)]
           [] st.inWhy -> IF IsBlank(line) THEN st ELSE [st EXCEPT !.why = Append(@, line)]
           [] OTHER -> [st EXCEPT !.msg = Append(@, line)]

\* One iteration of the first loop of unify_file.  A "## " heading ends an
\* open What or Why section and itself goes to msg_lines.
SplitStep(st, line) ==
    IF IsWhat(line) THEN [st EXCEPT !.inWhat = TRUE, !.inWhy = FALSE]
    ELSE IF IsWhy(line) THEN [st EXCEPT !.inWhat = FALSE, !.inWhy = TRUE]
    ELSE LET s == IF IsH2(line) THEN [st EXCEPT !.inWhat = FALSE, !.inWhy = FALSE]
                  ELSE st
         IN  CASE s.inWhat -> IF IsBlank(line) THEN s ELSE [s EXCEPT !.what = Append(@, line)]
               [] s.inWhy -> IF IsBlank(line) THEN s ELSE [s EXCEPT !.why = Append(@, line)]
               [] OTHER -> [s EXCEPT !.msg = Append(@, line)]

Sections(lines) ==
    FoldLeft(SplitStep,
             [inWhat |-> FALSE, inWhy |-> FALSE, what |-> <<>>, why |-> <<>>, msg |-> <<>>],
             lines)

\* insert_idx + 1: the first "## " or "```" line of msg_lines, else the end
InsertIdx(msg) ==
    LET i == SelectInSeq(msg, LAMBDA l : IsH2(l) \/ IsFence(l))
    IN  IF i = 0 THEN Len(msg) + 1 ELSE i

\* combined: each non-empty section followed by an empty line
Combined(what, why) ==
    (IF what # <<>> THEN what \o <<"E">> ELSE <<>>)
    \o (IF why # <<>> THEN why \o <<"E">> ELSE <<>>)

\* The clean-up loop: a blank line is dropped at the start and after a blank.
CleanStep(acc, line) ==
    IF IsBlank(line) /\ (acc = <<>> \/ IsBlank(Last(acc))) THEN acc
    ELSE Append(acc, line)

\* unify_file on the lines of a text, and the text it returns.
UnifyLines(lines) ==
    LET st == Sections(lines)
        i == InsertIdx(st.msg)
        final == SubSeq(st.msg, 1, i - 1) \o Combined(st.what, st.why)
                 \o SubSeq(st.msg, i, Len(st.msg))
    IN  FoldLeft(CleanStep, <<>>, final)

unify_file(text) == JoinLines(UnifyLines(text.lines))

-----------------------------------------------------------------------------
(* process_directory, run up to MaxRuns times.  pc is where the current   *)
(* file is: "walk" between files, "read" before open(filepath, 'r'),      *)
(* "open" with its new content computed, "write" after open(filepath,     *)
(* 'w') truncated it; "done" when no run is going on.                      *)

VARIABLES
    disk,         \* Files -> the text each file holds
    pc,
    todo,         \* the files os.walk has still to yield in this run
    cur,          \* filepath
    newContent,   \* new_content
    runs,         \* runs started so far
    reported,     \* files an "Error processing" line was printed for
    interrupted,  \* files open for writing when the process was stopped
    partial,      \* files left with only part of a new content
    unified       \* files whose last step was a complete f.write

vars == <<disk, pc, todo, cur, newContent, runs, reported, interrupted, partial, unified>>

\* The texts over the line kinds S, as splitlines() and endswith("\n")
\* see them: no lines means no final newline, and a last empty line is
\* seen only before a final newline.
TextsOver(S) ==
    {t \in [lines : Seq(S), eol : BOOLEAN] :
        /\ t.lines = <<>> => ~t.eol
        /\ t.lines # <<>> /\ Last(t.lines) = "E" => t.eol}

Init ==
    /\ disk = Original
    /\ pc = "walk"
    /\ todo = Files
    /\ cur = CHOOSE f \in Files : TRUE
    /\ newContent = Empty
    /\ runs = 1
    /\ reported = {}
    /\ interrupted = {}
    /\ partial = {}
    /\ unified = {}

\* for filename in filenames: the next *.md file of the walk
NextFile(f) ==
    /\ pc = "walk"
    /\ f \in todo
    /\ cur' = f
    /\ todo' = todo \ {f}
    /\ pc' = "read"
    /\ UNCHANGED <<disk, newContent, runs, reported, interrupted, partial, unified>>

\* new_content = unify_file(filepath): open, read, transform
ReadFile ==
    /\ pc = "read"
    /\ newContent' = unify_file(disk[cur])
    /\ pc' = "open"
    /\ UNCHANGED <<disk, todo, cur, runs, reported, interrupted, partial, unified>>

\* open or read raises (a directory named *.md, no permission, a byte that
\* is not UTF-8): printed, nothing written
ReadFails ==
    /\ pc = "read"
    /\ reported' = reported \cup {cur}
    /\ pc' = "walk"
    /\ UNCHANGED <<disk, todo, cur, newContent, runs, interrupted, partial, unified>>

\* open(filepath, 'w') truncates the file
OpenWrite ==
    /\ pc = "open"
    /\ disk' = [disk EXCEPT ![cur] = Empty]
    /\ unified' = unified \ {cur}
    /\ pc' = "write"
    /\ UNCHANGED <<todo, cur, newContent, runs, reported, interrupted, partial>>

\* open(filepath, 'w') raises (a read-only file): printed, file untouched
OpenFails ==
    /\ pc = "open"
    /\ reported' = reported \cup {cur}
    /\ pc' = "walk"
    /\ UNCHANGED <<disk, todo, cur, newContent, runs, interrupted, partial, unified>>

\* f.write(new_content) and the close of the with block
Write ==
    /\ pc = "write"
    /\ disk' = [disk EXCEPT ![cur] = newContent]
    /\ unified' = unified \cup {cur}
    /\ pc' = "walk"
    /\ UNCHANGED <<todo, cur, newContent, runs, reported, interrupted, partial>>

\* the write or the close raises (no space left): the file keeps the
\* whole lines written before the error; printed
WriteFails ==
    /\ pc = "write"
    /\ \E k \in 0..(Len(newContent.lines) - 1) :
          disk' = [disk EXCEPT ![cur] = [lines |-> SubSeq(newContent.lines, 1, k),
                                         eol |-> k > 0]]
    /\ reported' = reported \cup {cur}
    /\ partial' = partial \cup {cur}
    /\ pc' = "walk"
    /\ UNCHANGED <<todo, cur, newContent, runs, interrupted, unified>>

\* the walk is over
EndRun ==
    /\ pc = "walk"
    /\ todo = {}
    /\ pc' = "done"
    /\ UNCHANGED <<disk, todo, cur, newContent, runs, reported, interrupted, partial, unified>>

\* the script is started again over the same tree
Rerun ==
    /\ pc = "done"
    /\ runs < MaxRuns
    /\ runs' = runs + 1
    /\ todo' = Files
    /\ pc' = "walk"
    /\ UNCHANGED <<disk, cur, newContent, reported, interrupted, partial, unified>>

\* the process is stopped (Ctrl-C, kill) between two steps
Crash ==
    /\ pc \in {"walk", "read", "open", "write"}
    /\ interrupted' = IF pc = "write" THEN interrupted \cup {cur} ELSE interrupted
    /\ partial' = IF pc = "write" THEN partial \cup {cur} ELSE partial
    /\ pc' = "done"
    /\ UNCHANGED <<disk, todo, cur, newContent, runs, reported, unified>>

Next ==
    \/ \E f \in Files : NextFile(f)
    \/ ReadFile \/ ReadFails \/ OpenWrite \/ OpenFails
    \/ Write \/ WriteFails \/ EndRun \/ Rerun \/ Crash

Spec == Init /\ [][Next]_vars

-----------------------------------------------------------------------------
TypeOK ==
    /\ disk \in [Files -> TextsOver(LineKinds)]
    /\ pc \in {"walk", "read", "open", "write", "done"}
    /\ todo \subseteq Files /\ cur \in Files
    /\ newContent \in TextsOver(LineKinds)
    /\ runs \in 1..MaxRuns
    /\ reported \cup interrupted \cup partial \cup unified \subseteq Files

\* The lines unify_file must keep: all but blank lines and the What and Why
\* headers, as a multiset.
Kept(text) == ToBag(SelectSeq(text.lines, LAMBDA l : ~IsBlank(l) /\ ~IsWhy(l) /\ ~IsWhat(l)))

\* No silent loss: a file holds other lines than it started with (blank
\* lines and What/Why headers aside) only while process_directory is
\* writing it, after an "Error processing" line was printed for it, or
\* after the process was stopped while it was open for writing.  Over
\* reruns, failed reads, opens and writes, and partial writes.
NoSilentLoss ==
    \A f \in Files :
        Kept(disk[f]) # Kept(Original[f])
            => \/ f \in reported \cup interrupted
               \/ pc = "write" /\ cur = f

\* A rerun moves nothing: a file that a run has rewritten completely, and
\* that no failed or stopped write left in part, holds the lines the first
\* unify_file of its original text gives, however often the script is run
\* again over it (unify_file is idempotent up to the final newline).
RerunStable ==
    \A f \in unified \ partial : disk[f].lines = unify_file(Original[f]).lines
====
