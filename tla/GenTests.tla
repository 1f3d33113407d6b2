------------------------------ MODULE GenTests ------------------------------
(***************************************************************************)
(* The Driver and the TestEmitter of scripts/gen_integration_tests.py.    *)
(*                                                                         *)
(* main() walks the *.rs files of the stdlib directory, sorted by name    *)
(* whatever order the file system lists them in, skips                     *)
(* mod.rs, extracts and parses each file (a missing marker raises and ends *)
(* the process), writes one test file per export that is neither a domain  *)
(* nor a class (basic_export_test), then one per suffix template and named *)
(* literal of every domain block (domain_tests), and finally prints the    *)
(* export count.  Each write is one step, so that every prefix of a run,   *)
(* the one an exception leaves behind included, is a state.                *)
(*                                                                         *)
(* The output tree (out) outlives a run: the tool never deletes files, so  *)
(* Rerun starts the program again over the same inputs and the same tree.  *)
(* A written file holds a test-module document: the test module's name,    *)
(* the module under test, the domain imported selectively (or <<>>), the   *)
(* binding (subject or Ref), the bound expression and the check made.     *)
(* out maps a path (a sequence of sanitized segments) to the sequence of   *)
(* documents the file holds; write() replaces it by a single document.     *)
(***************************************************************************)
EXTENDS AiviDecls, TLC

CONSTANTS
    Inputs,     \* the candidate stdlib directories: sets of HostFile
    ModRs,      \* the file name "mod.rs"
    MaxRuns     \* how many times the program is run over the same tree

VARIABLES
    rs,         \* sorted(STDLIB_SRC.glob("*.rs"))
    out,        \* the output tree under OUT
    fi,         \* index of the current rs file
    stage,      \* "file" | "exports" | "domains" | "done" | "aborted"
    ei,         \* index into split_exports of the current file
    di,         \* index into parse_domain_defs of the current file
    ci,         \* index into the cases (templates, then named literals) of domain di
    generated,  \* the export counter of main()
    printed,    \* the count printed at the end of the run, or NoCount
    run,        \* which run of the program this is
    cur,        \* the locals main() computes from the current file
    prev        \* the output tree as the previous run left it

vars == <<rs, out, fi, stage, cur, ei, di, ci, generated, printed, run, prev>>

NoCount == -1

(***************************************************************************)
(* Per-file views                                                          *)
(***************************************************************************)
Exports(f) == split_exports(f.src)
Classes(f) == parse_class_defs(f.src)
Ctors(f) == parse_ctor_exports(f.src)
Domains(f) == parse_domain_defs(f.src)
Wellformed(f) == ExtractError(f) = "none"

\* main(): for the parsed file p, exports starting with "domain " and class names get no test
Eligible(p, e) == ~IsDomainExport(e) /\ e \notin p.classes

\* The cases domain_tests emits for a domain, in order: ("suffix", suffix)
\* per template, then ("literal", name) per named literal.
DomainCases(d) ==
    [k \in DOMAIN d.templates |-> <<"suffix", TemplateSuffix(d.templates[k])>>]
    \o [k \in DOMAIN d.named_literals |-> <<"literal", d.named_literals[k]>>]

(***************************************************************************)
(* TestEmitter                                                             *)
(***************************************************************************)
Doc(testMod, use, dom, bind, expr, check) ==
    [module |-> testMod, use |-> use, domain |-> dom, bind |-> bind,
     expr |-> expr, check |-> check]

\* basic_export_test: the path OUT/<module segments>/<case>.aivi
ExportPath(f, e) == module_segments(f.mod) \o <<sanitize_segment(e)>>

\* basic_export_test: the document written for export e
ExportDoc(f, e) ==
    LET testMod == ExportPath(f, e)
    IN  CASE IsUpperName(e) /\ e \in f.ctors ->
                 Doc(testMod, f.mod, <<>>, "subject", e, "evalSubject")
          [] IsUpperName(e) ->
                 Doc(testMod, f.mod, <<>>, "Ref", e, "assertOnly")
          [] IsSuffixTemplate(e) ->
                 Doc(testMod, f.mod, <<>>, "subject",
                     SuffixLiteral(TemplateSuffix(e)), "evalSubject")
          [] OTHER ->
                 Doc(testMod, f.mod, <<>>, "subject", e, "evalSubject")

\* Mutant of DomainDir: the domain's name left out of its directory.
DomainDirUnnamed(f, d) ==
    module_segments(f.mod) \o <<<<"d", "o", "m", "a", "i", "n", "_">>>>

\* domain_tests: dom_dir is OUT/<module segments>/domain_<name>, the case
\* file suffix_<suffix>.aivi or literal_<name>.aivi
DomainDir(f, d) ==
    module_segments(f.mod) \o <<<<"d", "o", "m", "a", "i", "n", "_">> \o sanitize_segment(d.name)>>
CasePrefix(kind) ==
    IF kind = "suffix" THEN <<"s", "u", "f", "f", "i", "x", "_">>
                       ELSE <<"l", "i", "t", "e", "r", "a", "l", "_">>
DomainCasePath(f, d, c) == DomainDir(f, d) \o <<CasePrefix(c[1]) \o sanitize_segment(c[2])>>

\* domain_tests: the document of one case; it also imports (domain D)
DomainDoc(f, d, c) ==
    Doc(DomainCasePath(f, d, c), f.mod, d.name, "subject",
        IF c[1] = "suffix" THEN SuffixLiteral(c[2]) ELSE c[2], "evalSubject")

\* write(): create the parents, then replace the file's text
write(p, doc) == out' = (p :> <<doc>>) @@ out

(***************************************************************************)
(* Driver: main()                                                          *)
(***************************************************************************)
\* STDLIB_SRC.glob("*.rs"): the files of dir, in any order the file system
\* may list them.
Listings(dir) == SetToSeqs(dir)

\* The characters of the alphabet by code point, the order in which Python
\* compares two str (and two file names of one directory).
CharsByCode == <<" ", "(", ")", "+", "-", ".", "0", "1", "2", "3", "A", "B", "C",
                 "[", "]", "_", BackTick, "a", "b", "c", "d", "e", "i", "k", "l",
                 "m", "n", "o", "p", "r", "s", "t", "x">>
CodeRank(c) == CHOOSE i \in DOMAIN CharsByCode : CharsByCode[i] = c

\* a < b on str: a is a proper prefix of b, or smaller at the first
\* character where they differ.
StrLess(a, b) ==
    \/ IsStrictPrefix(a, b)
    \/ \E i \in 1..Min({Len(a), Len(b)}) :
          /\ SubSeq(a, 1, i - 1) = SubSeq(b, 1, i - 1)
          /\ CodeRank(a[i]) < CodeRank(b[i])

\* Mutant of sorted_rs: the files taken in the order glob lists them.
sorted_rsDropped(listing) == listing

\* sorted(STDLIB_SRC.glob("*.rs")): the listing in the order of the names
sorted_rs(listing) == SortSeq(listing, LAMBDA f, g : StrLess(f.name, g.name))

\* The locals main() binds for file f (mod, split_exports, class_defs,
\* ctor_exports, parse_domain_defs), with the path and document that
\* basic_export_test and domain_tests derive from them (all pure).
Parsed(f) ==
    LET p == [mod |-> f.module, exports |-> Exports(f), classes |-> Classes(f),
              ctors |-> Ctors(f), domains |-> Domains(f)]
    IN  p @@
        [exportFile |-> [k \in DOMAIN p.exports |->
                            <<ExportPath(p, p.exports[k]), ExportDoc(p, p.exports[k])>>],
         caseFile |-> [j \in DOMAIN p.domains |->
                          LET d == p.domains[j]
                          IN  [c \in DOMAIN DomainCases(d) |->
                                  <<DomainCasePath(p, d, DomainCases(d)[c]),
                                    DomainDoc(p, d, DomainCases(d)[c])>>]]]

\* Every host file of the inputs, parsed once.
Files == UNION Inputs

\* main()'s rs for every listing of every directory, sorted once.
RsOf == [listing \in UNION {Listings(dir) : dir \in Inputs} |-> sorted_rs(listing)]
ParsedOf == [f \in Files |-> Parsed(f)]

NoFile == [mod |-> <<>>, exports |-> <<>>, classes |-> {}, ctors |-> {},
           domains |-> <<>>, exportFile |-> <<>>, caseFile |-> <<>>]

Init ==
    /\ \E dir \in Inputs : \E listing \in Listings(dir) : rs = RsOf[listing]
    /\ out = <<>>
    /\ fi = 1
    /\ stage = "file"
    /\ cur = NoFile
    /\ ei = 1 /\ di = 1 /\ ci = 1
    /\ generated = 0
    /\ printed = NoCount
    /\ run = 1
    /\ prev = <<>>

\* Mutant of SkipModRs: the index advanced twice past mod.rs.
SkipModRsTwice ==
    /\ stage = "file" /\ fi <= Len(rs)
    /\ rs[fi].name = ModRs
    /\ fi' = fi + 2
    /\ UNCHANGED <<rs, out, stage, cur, ei, di, ci, generated, printed, run, prev>>

\* if rs.name == "mod.rs": continue
SkipModRs ==
    /\ stage = "file" /\ fi <= Len(rs)
    /\ rs[fi].name = ModRs
    /\ fi' = fi + 1
    /\ UNCHANGED <<rs, out, stage, cur, ei, di, ci, generated, printed, run, prev>>

\* Mutant of AbortOnMalformed: a malformed file is skipped (per-file
\* recovery) instead of ending the run.
SkipMalformed ==
    /\ stage = "file" /\ fi <= Len(rs)
    /\ rs[fi].name # ModRs
    /\ ~Wellformed(rs[fi])
    /\ fi' = fi + 1
    /\ UNCHANGED <<rs, out, stage, cur, ei, di, ci, generated, printed, run, prev>>

\* parse_module_name / parse_aivi_source raise ValueError: the process ends
\* with a traceback, after the files written so far.
AbortOnMalformed ==
    /\ stage = "file" /\ fi <= Len(rs)
    /\ rs[fi].name # ModRs
    /\ ~Wellformed(rs[fi])
    /\ stage' = "aborted"
    /\ UNCHANGED <<rs, out, fi, cur, ei, di, ci, generated, printed, run, prev>>

\* The file is read, extracted and parsed; the export loop starts.
ParseFile ==
    /\ stage = "file" /\ fi <= Len(rs)
    /\ rs[fi].name # ModRs
    /\ Wellformed(rs[fi])
    /\ cur' = ParsedOf[rs[fi]]
    /\ stage' = "exports"
    /\ ei' = 1
    /\ UNCHANGED <<rs, out, fi, di, ci, generated, printed, run, prev>>

\* for export in split_exports(...): a domain or class export is skipped
SkipExport ==
    /\ stage = "exports" /\ ei <= Len(cur.exports)
    /\ ~Eligible(cur, cur.exports[ei])
    /\ ei' = ei + 1
    /\ UNCHANGED <<rs, out, fi, stage, cur, di, ci, generated, printed, run, prev>>

\* basic_export_test(...) writes the export's file; generated += 1
EmitExport ==
    /\ stage = "exports" /\ ei <= Len(cur.exports)
    /\ Eligible(cur, cur.exports[ei])
    /\ write(cur.exportFile[ei][1], cur.exportFile[ei][2])
    /\ generated' = generated + 1
    /\ ei' = ei + 1
    /\ UNCHANGED <<rs, fi, stage, cur, di, ci, printed, run, prev>>

\* the export loop is over; for dom in parse_domain_defs(...)
EndExports ==
    /\ stage = "exports" /\ ei > Len(cur.exports)
    /\ stage' = "domains"
    /\ di' = 1 /\ ci' = 1
    /\ UNCHANGED <<rs, out, fi, cur, ei, generated, printed, run, prev>>

\* domain_tests: one write per template, then per named literal
EmitDomainCase ==
    /\ stage = "domains" /\ di <= Len(cur.domains)
    /\ ci <= Len(cur.caseFile[di])
    /\ write(cur.caseFile[di][ci][1], cur.caseFile[di][ci][2])
    /\ ci' = ci + 1
    /\ UNCHANGED <<rs, fi, stage, cur, ei, di, generated, printed, run, prev>>

\* Mutant of NextDomain: the case loop left one case early.
NextDomainEarly ==
    /\ stage = "domains" /\ di <= Len(cur.domains)
    /\ ci >= Len(cur.caseFile[di])
    /\ di' = di + 1 /\ ci' = 1
    /\ UNCHANGED <<rs, out, fi, stage, cur, ei, generated, printed, run, prev>>

\* Mutant of NextDomain: the domain index not advanced.
NextDomainStuck ==
    /\ stage = "domains" /\ di <= Len(cur.domains)
    /\ ci > Len(cur.caseFile[di])
    /\ ci' = 1
    /\ UNCHANGED <<rs, out, fi, stage, cur, ei, di, generated, printed, run, prev>>

\* domain_tests returns; the next domain
NextDomain ==
    /\ stage = "domains" /\ di <= Len(cur.domains)
    /\ ci > Len(cur.caseFile[di])
    /\ di' = di + 1 /\ ci' = 1
    /\ UNCHANGED <<rs, out, fi, stage, cur, ei, generated, printed, run, prev>>

\* the file is done; the next rs file
NextFile ==
    /\ stage = "domains" /\ di > Len(cur.domains)
    /\ stage' = "file"
    /\ fi' = fi + 1
    /\ UNCHANGED <<rs, out, cur, ei, di, ci, generated, printed, run, prev>>

\* print(f"generated {generated} export tests under {OUT}")
Finish ==
    /\ stage = "file" /\ fi > Len(rs)
    /\ stage' = "done"
    /\ printed' = generated
    /\ UNCHANGED <<rs, out, fi, cur, ei, di, ci, generated, run, prev>>

\* The program is started again over the same directory, which the file
\* system may now list in another order; OUT is kept.
Rerun ==
    /\ stage \in {"done", "aborted"} /\ run < MaxRuns
    /\ \E listing \in Listings(Range(rs)) : rs' = RsOf[listing]
    /\ run' = run + 1
    /\ prev' = out
    /\ fi' = 1 /\ stage' = "file" /\ cur' = NoFile
    /\ ei' = 1 /\ di' = 1 /\ ci' = 1
    /\ generated' = 0 /\ printed' = NoCount
    /\ UNCHANGED out

Next ==
    \/ SkipModRs \/ AbortOnMalformed \/ ParseFile
    \/ SkipExport \/ EmitExport \/ EndExports
    \/ EmitDomainCase \/ NextDomain \/ NextFile
    \/ Finish \/ Rerun

(***************************************************************************)
(* Properties                                                              *)
(***************************************************************************)
TypeOK ==
    /\ fi \in 1..Len(rs) + 1
    /\ stage \in {"file", "exports", "domains", "done", "aborted"}
    /\ ei \in Nat /\ di \in Nat /\ ci \in Nat
    /\ generated \in Nat
    /\ printed = NoCount \/ printed \in Nat
    /\ run \in 1..MaxRuns
    /\ \A p \in DOMAIN out : out[p] # <<>>

\* The well-formed, non-mod.rs files of the directory.
Processed == {f \in Range(rs) : f.name # ModRs /\ Wellformed(f)}

\* When main() prints its count, every export that is neither a domain nor
\* a class, and every template and named literal of every domain block,
\* of every file has its test file in the output tree.
CompleteOnDone ==
    stage = "done" =>
        \A f \in Processed :
            LET p == ParsedOf[f]
            IN  /\ \A e \in Range(p.exports) :
                       Eligible(p, e) => ExportPath(p, e) \in DOMAIN out
                /\ \A d \in Range(p.domains) : \A c \in Range(DomainCases(d)) :
                       DomainCasePath(p, d, c) \in DOMAIN out

\* The count is printed only by a run in which every stdlib file (mod.rs
\* aside) had both markers: one malformed file fails the whole batch.
FailFast ==
    printed # NoCount => \A f \in Range(rs) : f.name # ModRs => Wellformed(f)

\* Spec 6, determinism: a run over an unchanged directory leaves the output
\* tree exactly as the previous run left it, although the file system may
\* list the directory in another order each time.  Which files precede a
\* malformed one, and which of two clashing paths is written last, depend
\* on the order main() walks the files (the sorted() of main()).
Idempotent ==
    (run > 1 /\ stage \in {"done", "aborted"}) => out = prev

\* Within a run no file is replaced by a different document: the paths of
\* distinct cases (modules, domains, suffix and literal cases) are distinct.
\* (A duplicated export rewrites the same document.)
OneFilePerCase ==
    [][\A p \in DOMAIN out : p \in DOMAIN out' /\ out'[p] = out[p]]_vars

\* Every started run of main() ends: it prints its count or raises.
Termination ==
    [](stage \in {"file", "exports", "domains"} ~> stage \in {"done", "aborted"})

(***************************************************************************)
(* What the spec states and the code does not do (violation runs)          *)
(***************************************************************************)
\* The constructor set of the spec: the capitalized head of every
\* alternative of every "Name = A | B x" declaration.
DeclaredCtors(f) ==
    UNION {{l.alts[k] : k \in {a \in DOMAIN l.alts : IsUpperName(l.alts[a])}} :
              l \in {m \in Range(f.src) : m.kind = "adt"}}

\* Spec 8: exporting an ADT constructor (IntType of
\* ColumnType = IntType | BoolType | Varchar Int) yields a constructor
\* smoke test binding subject to it (basic_export_test, ctor_exports).
ConstructorExportsSmoke ==
    stage = "done" =>
        \A f \in Processed : \A e \in Range(ParsedOf[f].exports) \cap DeclaredCtors(f) :
            LET p == ExportPath(ParsedOf[f], e)
            IN  p \in DOMAIN out /\ out[p][Len(out[p])].bind = "subject"

\* Spec 7: the failure path (a file without its markers) produces no output
\* files (main() raises after the files written for earlier rs files).
AbortLeavesNoOutput ==
    (stage = "aborted" /\ run = 1) => DOMAIN out = {}

\* The brace depth before line j of src, in the block opened by the
\* domain header at line h.
DepthAt(src, h, j) ==
    FoldLeft(LAMBDA acc, l : acc + l.opens - l.closes, 1, SubSeq(src, h + 1, j - 1))

\* The named literals of the spec's glossary: "name = Ctor ..." lines
\* directly in a domain block (depth 1 and the block still open), not
\* bindings inside a nested operator body.
TopLevelLiterals(src) ==
    {src[j].name :
        j \in {k \in DOMAIN src :
                 /\ src[k].kind = "lit"
                 /\ \E h \in 1..(k - 1) :
                       /\ src[h].kind = "domain"
                       /\ DepthAt(src, h, k) = 1
                       /\ \A m \in (h + 1)..k : DepthAt(src, h, m) > 0}}

\* Spec glossary: a named literal is a lowercase identifier bound to a
\* constructor, usable as a literal value of its domain; domain_tests
\* writes a case for every name parse_domain_defs records as one.
NamedLiteralsAtTopLevel ==
    stage = "done" =>
        \A f \in Processed : \A j \in DOMAIN ParsedOf[f].domains :
            Range(ParsedOf[f].domains[j].named_literals) \subseteq TopLevelLiterals(f.src)

\* main() is one sequential process: while it has not returned it keeps
\* taking steps.
Spec == Init /\ [][Next]_vars /\ WF_vars(Next)
=============================================================================
