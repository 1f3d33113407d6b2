--------------------------- MODULE RenameSnippets ---------------------------
(***************************************************************************)
(* rename_snippets.py as a state machine.  The script scans every markdown *)
(* file twice (pass 1 counts the aivi includes per heading, pass 2 renames *)
(* each existing block_ snippet after its heading and rewrites the line),  *)
(* writes the file back when it changed, then retargets the manifest       *)
(* entries, writes the manifest, and finally runs git mv for every rename  *)
(* without looking at its status.  The script may be started again over  *)
(* the markdown, manifest and snippets an earlier run left behind.         *)
(*                                                                         *)
(* The markdown files and the snippets live in one directory each, so a   *)
(* path is its basename; the ".aivi" extension is left out of names.       *)
(* A markdown line is a heading (its text) or an include (the snippet      *)
(* name and whether the line carries {aivi}); other lines change nothing.  *)
(* A snippet file holds a content, which is the name it had at the start. *)
(***************************************************************************)
EXTENDS SnippetNames, FiniteSets

\* Each scenario is one starting point of the script:
\*   md       : markdown file -> its lines
\*   files    : snippet name -> content (the snippets on disk)
\*   tracked  : the snippet names git tracks
\*   manifest : the 'snippets' list of manifest.json
CONSTANT Scenarios

\* Whether the model lets the script die between two steps.
CONSTANT CrashFaults

\* How often the script is started over the same tree.
CONSTANT MaxRuns

Heading(text) == [kind |-> "h", text |-> text]
Include(name, aivi) == [kind |-> "inc", name |-> name, aivi |-> aivi]

\* dict.get(k, d) and d[k] = v on a function used as a dict
Get(f, k, d) == IF k \in DOMAIN f THEN f[k] ELSE d
Put(f, k, v) == (k :> v) @@ f
NoEntries == [k \in {} |-> 0]

\* Pass 1: heading_counts, the lines with <<<, {aivi} and .aivi per heading.
CountBlocks(lines) ==
    LET step(acc, l) ==
          IF l.kind = "h" THEN [acc EXCEPT !.cur = HeadingSlug(l.text)]
          ELSE IF l.aivi
               THEN [acc EXCEPT !.counts = Put(acc.counts, acc.cur, Get(acc.counts, acc.cur, 0) + 1)]
               ELSE acc
    IN  FoldLeft(step, [cur |-> IntroSlug, counts |-> NoEntries], lines).counts

\* Pass 2: every include of an existing block_ snippet gets the name
\* heading[_NN]; the pairs are the renames in order, out the new lines.
RenameBlocks(lines, counts, exists) ==
    LET step(acc, l) ==
          IF l.kind = "h"
          THEN [acc EXCEPT !.cur = HeadingSlug(l.text), !.out = Append(acc.out, l)]
          ELSE IF IsBlock(l.name) /\ l.name \in exists
          THEN LET idx == Get(acc.seen, acc.cur, 0) + 1
                   new == NewBasename(acc.cur, idx, Get(counts, acc.cur, 1))
               IN  [acc EXCEPT !.seen = Put(acc.seen, acc.cur, idx),
                               !.pairs = Append(acc.pairs, <<l.name, new>>),
                               !.out = Append(acc.out, [l EXCEPT !.name = new]),
                               !.changed = TRUE]
          ELSE [acc EXCEPT !.out = Append(acc.out, l)]
    IN  FoldLeft(step, [cur |-> IntroSlug, seen |-> NoEntries, pairs |-> <<>>,
                        out |-> <<>>, changed |-> FALSE], lines)

\* The block_ names the includes of the lines L name.
BlockNames(L) ==
    {L[i].name : i \in {j \in DOMAIN L : L[j].kind = "inc" /\ IsBlock(L[j].name)}}

\* The markdown texts a run can read: those of the scenarios, and what
\* pass 2 of one of the k - 1 runs before makes of them.
RECURSIVE MdVariants(_)
MdVariants(k) ==
    IF k <= 1 THEN UNION {{s.md[f] : f \in DOMAIN s.md} : s \in Scenarios}
    ELSE LET V == MdVariants(k - 1)
         IN  V \cup UNION {{RenameBlocks(L, CountBlocks(L), E).out : E \in SUBSET BlockNames(L)} :
                            L \in V}

\* Both passes over every markdown text a run can read, for every set of
\* its block_ snippets that exist, computed once.  Within a run nothing
\* is moved before the last scan, and each file is read before it is
\* written.
ScanKeys == UNION {{<<L, E>> : E \in SUBSET BlockNames(L)} : L \in MdVariants(MaxRuns)}
ScanTab == [k \in ScanKeys |-> RenameBlocks(k[1], CountBlocks(k[1]), k[2])]
Scan(L, exists) == ScanTab[<<L, exists \cap BlockNames(L)>>]

\* Mutant: renames kept as a list, a repeated old name appended again.
PutRenameAppend(rs, p) == Append(rs, p)

\* renames[old] = new on the dict renames, kept as a sequence of pairs in
\* insertion order.
PutRename(rs, p) ==
    IF \E i \in DOMAIN rs : rs[i][1] = p[1]
    THEN [i \in DOMAIN rs |-> IF rs[i][1] = p[1] THEN p ELSE rs[i]]
    ELSE Append(rs, p)
IsRenamed(rs, old) == \E i \in DOMAIN rs : rs[i][1] = old
RenamedTo(rs, old) == rs[CHOOSE i \in DOMAIN rs : rs[i][1] = old][2]

\* The new 'module' of an entry whose snippet old becomes new.
RetargetModule(module, old, new) ==
    IF HasInfix(module, old) THEN ReplaceStr(module, old, new)
    ELSE module \o <<"_">> \o ShortBase(new)

\* The orders os.walk may list the markdown files in.
Orders(S) == {o \in [1..Cardinality(S) -> S] : Range(o) = S}

VARIABLES
    sc,            \* the scenario the run started from
    order,         \* md_files
    pc,            \* "scan", "manifest", "move", "done" or "failed"
    fi, mi, ri,    \* positions in md_files, the manifest and renames
    md,            \* the markdown files on disk
    renames,       \* the dict renames
    manifest,      \* the manifest in memory
    manifestDisk,  \* manifest.json on disk
    files,         \* the snippets on disk
    tracked,       \* the snippets in the git index
    runs,          \* runs started so far
    interrupted    \* some run was killed or died between two steps

vars == <<sc, order, pc, fi, mi, ri, md, renames, manifest, manifestDisk, files, tracked,
          runs, interrupted>>

Init ==
    /\ sc \in Scenarios
    /\ order \in Orders(DOMAIN sc.md)
    /\ pc = "scan"
    /\ fi = 1 /\ mi = 1 /\ ri = 1
    /\ md = sc.md
    /\ renames = <<>>
    /\ manifest = sc.manifest /\ manifestDisk = sc.manifest
    /\ files = sc.files
    /\ tracked = sc.tracked
    /\ runs = 1
    /\ interrupted = FALSE

\* One markdown file read: both passes, the renames recorded, and the file
\* written back when a line changed.
ScanFile ==
    /\ pc = "scan" /\ fi <= Len(order)
    /\ LET f == order[fi]
           r == Scan(md[f], DOMAIN files)
       IN  /\ renames' = FoldLeft(PutRename, renames, r.pairs)
           /\ md' = IF r.changed THEN [md EXCEPT ![f] = r.out] ELSE md
    /\ fi' = fi + 1
    /\ UNCHANGED <<sc, order, pc, mi, ri, manifest, manifestDisk, files, tracked, runs, interrupted>>

\* open(md_file) raises: except Exception: continue
ReadFails ==
    /\ pc = "scan" /\ fi <= Len(order)
    /\ fi' = fi + 1
    /\ UNCHANGED <<sc, order, pc, mi, ri, md, renames, manifest, manifestDisk, files, tracked, runs, interrupted>>

EndScan ==
    /\ pc = "scan" /\ fi > Len(order)
    /\ pc' = "manifest"
    /\ UNCHANGED <<sc, order, fi, mi, ri, md, renames, manifest, manifestDisk, files, tracked, runs, interrupted>>

\* An entry whose path was renamed: new path, and its module retargeted.
RetargetEntry ==
    /\ pc = "manifest" /\ mi <= Len(manifest)
    /\ LET e == manifest[mi]
           new == RenamedTo(renames, e.path)
       IN  /\ IsRenamed(renames, e.path) /\ e.hasModule
           /\ manifest' = [manifest EXCEPT ![mi] =
                             [e EXCEPT !.path = new,
                                       !.module = RetargetModule(e.module, e.path, new)]]
    /\ mi' = mi + 1
    /\ UNCHANGED <<sc, order, pc, fi, ri, md, renames, manifestDisk, files, tracked, runs, interrupted>>

\* entry['module'] raises KeyError after entry['path'] was set: the script
\* stops before the manifest is written.
ModuleMissing ==
    /\ pc = "manifest" /\ mi <= Len(manifest)
    /\ LET e == manifest[mi]
       IN  /\ IsRenamed(renames, e.path) /\ ~e.hasModule
           /\ manifest' = [manifest EXCEPT ![mi].path = RenamedTo(renames, e.path)]
    /\ pc' = "failed"
    /\ UNCHANGED <<sc, order, fi, mi, ri, md, renames, manifestDisk, files, tracked, runs, interrupted>>

SkipEntry ==
    /\ pc = "manifest" /\ mi <= Len(manifest)
    /\ ~IsRenamed(renames, manifest[mi].path)
    /\ mi' = mi + 1
    /\ UNCHANGED <<sc, order, pc, fi, ri, md, renames, manifest, manifestDisk, files, tracked, runs, interrupted>>

WriteManifest ==
    /\ pc = "manifest" /\ mi > Len(manifest)
    /\ manifestDisk' = manifest
    /\ pc' = "move"
    /\ UNCHANGED <<sc, order, fi, mi, ri, md, renames, manifest, files, tracked, runs, interrupted>>

\* Mutant: git mv -f, which replaces an existing target.
MoveAllowedForce(old, new) == old \in tracked

\* git mv old new succeeds when old is tracked and new does not exist.
MoveAllowed(old, new) == old \in tracked /\ new \notin DOMAIN files

\* if os.path.exists(old): subprocess.run(['git', 'mv', old, new])
\* The test always holds: each old name is a key of renames once, existed
\* when pass 2 recorded it, and only its own move can take it away.
GitMv ==
    /\ pc = "move" /\ ri <= Len(renames)
    /\ LET old == renames[ri][1]
           new == renames[ri][2]
       IN  /\ old \in DOMAIN files /\ MoveAllowed(old, new)
           /\ files' = [n \in (DOMAIN files \ {old}) \cup {new} |->
                          IF n = new THEN files[old] ELSE files[n]]
           /\ tracked' = (tracked \ {old}) \cup {new}
    /\ ri' = ri + 1
    /\ UNCHANGED <<sc, order, pc, fi, mi, md, renames, manifest, manifestDisk, runs, interrupted>>

\* git mv refuses (untracked source, existing target); the exit status
\* is not checked and the loop goes on.
GitMvRefused ==
    /\ pc = "move" /\ ri <= Len(renames)
    /\ renames[ri][1] \in DOMAIN files /\ ~MoveAllowed(renames[ri][1], renames[ri][2])
    /\ ri' = ri + 1
    /\ UNCHANGED <<sc, order, pc, fi, mi, md, renames, manifest, manifestDisk, files, tracked, runs, interrupted>>

Finish ==
    /\ pc = "move" /\ ri > Len(renames)
    /\ pc' = "done"
    /\ UNCHANGED <<sc, order, fi, mi, ri, md, renames, manifest, manifestDisk, files, tracked, runs, interrupted>>

\* The script dies: open(md_file, 'w') or open(manifest_path, 'w') raises,
\* or the process is killed between two steps.
Crash ==
    /\ CrashFaults
    /\ pc \in {"scan", "manifest", "move"}
    /\ pc' = "failed"
    /\ interrupted' = TRUE
    /\ UNCHANGED <<sc, order, fi, mi, ri, md, renames, manifest, manifestDisk, files, tracked, runs>>

\* The script is started again after it stopped: md_files listed anew in
\* any order, renames empty, and the manifest loaded from disk.
Restart ==
    /\ pc \in {"done", "failed"}
    /\ runs < MaxRuns
    /\ runs' = runs + 1
    /\ order' \in Orders(DOMAIN md)
    /\ pc' = "scan"
    /\ fi' = 1 /\ mi' = 1 /\ ri' = 1
    /\ renames' = <<>>
    /\ manifest' = manifestDisk
    /\ UNCHANGED <<sc, md, manifestDisk, files, tracked, interrupted>>

\* The steps of the script itself.
Run ==
    \/ ScanFile \/ ReadFails \/ EndScan
    \/ RetargetEntry \/ ModuleMissing \/ SkipEntry \/ WriteManifest
    \/ GitMv \/ GitMvRefused \/ Finish

Next == Run \/ Crash \/ Restart

\* One sequential process: a step of the script that is enabled is taken.
\* A crash may happen but never has to, and nobody has to start the
\* script again.
Spec == Init /\ [][Next]_vars /\ WF_vars(Run)

-----------------------------------------------------------------------------
(* Properties *)

\* Every name a snippet can have in a run: those on disk at the start and
\* those pass 2 can give.
StoreNames ==
    UNION {DOMAIN s.files : s \in Scenarios}
    \cup UNION {{p[2] : p \in Range(ScanTab[k].pairs)} : k \in ScanKeys}

\* The snippets on disk seen through the abstract store: the script is
\* active until it is done or failed.
Store == INSTANCE SnippetStore
           WITH store <- files, active <- pc \in {"scan", "manifest", "move"},
                Names <- StoreNames

\* The renamer implements the store's contract: snippets only move to
\* free names (git mv refuses an existing target), never change after
\* the script stops, and the script stops.
StoreRefinement == Store!Spec

Name == Seq(Chars)

TypeOK ==
    /\ pc \in {"scan", "manifest", "move", "done", "failed"}
    /\ runs \in 1..MaxRuns /\ interrupted \in BOOLEAN
    /\ fi \in 1..(Len(order) + 1) /\ mi \in 1..(Len(manifest) + 1)
    /\ ri \in 1..(Len(renames) + 1)
    /\ \A i \in DOMAIN renames : renames[i][1] \in Name /\ renames[i][2] \in Name
    /\ \A i, j \in DOMAIN renames : renames[i][1] = renames[j][1] => i = j
    /\ \A n \in DOMAIN files \cup tracked : n \in Name
    /\ \A k \in DOMAIN manifestDisk :
          manifestDisk[k] \in [path : Name, module : Name, hasModule : BOOLEAN]

\* Every include and every manifest entry that named an existing snippet
\* names, on disk, a snippet with the same content.
RefsIntact ==
    /\ \A f \in DOMAIN sc.md : \A i \in DOMAIN sc.md[f] :
          LET l0 == sc.md[f][i]
              l == md[f][i]
          IN  (l0.kind = "inc" /\ l0.name \in DOMAIN sc.files) =>
                 /\ l.name \in DOMAIN files
                 /\ files[l.name] = sc.files[l0.name]
    /\ \A k \in DOMAIN sc.manifest :
          sc.manifest[k].path \in DOMAIN sc.files =>
             /\ manifestDisk[k].path \in DOMAIN files
             /\ files[manifestDisk[k].path] = sc.files[sc.manifest[k].path]

\* The block_ includes of a scenario, as <<file, line>>, with their line
\* and the slug of the heading above them.
BlockRefs(s) ==
    {r \in UNION {{<<f, i>> : i \in DOMAIN s.md[f]} : f \in DOMAIN s.md} :
        LET l == s.md[r[1]][r[2]]
        IN  l.kind = "inc" /\ IsBlock(l.name) /\ l.name \in DOMAIN s.files}
RefLine(s, r) == s.md[r[1]][r[2]]
RefHeading(s, r) ==
    LET hs == {j \in 1..(r[2] - 1) : s.md[r[1]][j].kind = "h"}
    IN  IF hs = {} THEN IntroSlug ELSE HeadingSlug(s.md[r[1]][Max(hs)].text)

\* The starting points the script is written for: a first run over
\* block_ snippets, all tracked, each included once with {aivi}, under
\* headings no other markdown file uses and whose slug is no block_ name,
\* and a manifest whose entries all have a module.
Benign(s) ==
    /\ \A n \in DOMAIN s.files : IsBlock(n) /\ n \in s.tracked
    /\ \A k \in DOMAIN s.manifest : s.manifest[k].hasModule
    /\ \A r \in BlockRefs(s) : RefLine(s, r).aivi /\ ~IsBlock(RefHeading(s, r))
    /\ \A r1, r2 \in BlockRefs(s) : r1 # r2 =>
          /\ RefLine(s, r1).name # RefLine(s, r2).name
          /\ r1[1] # r2[1] => RefHeading(s, r1) # RefHeading(s, r2)
BenignOf == [s \in Scenarios |-> Benign(s)]

\* From a benign starting point, every run that completes, the first or
\* a rerun, leaves every markdown include and manifest entry pointing at
\* its own snippet, unless some run was killed: the _NN numbering of pass
\* 2 keeps the new names apart, the moves agree with the rewritten
\* references, a rerun finds no block_ name left from a completed run, and
\* it renames the snippets of a file whose read failed before.
IntactUnlessInterrupted == (BenignOf[sc] /\ pc = "done" /\ ~interrupted) => RefsIntact

\* The renamer renames snippets and updates the references to them: a run
\* that completes, the first or one started after an earlier run died,
\* leaves every include and manifest entry reaching its own snippet.
ReferencesIntactWhenDone == pc = "done" => RefsIntact
====
