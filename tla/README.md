# TLA+ models of the aivi test-generation scripts

These modules model the Python tooling in `src/`. The main subject is
`scripts/gen_integration_tests.py`, the batch generator that reads the stdlib
host files (`*.rs`), finds the embedded aivi source, and writes one smoke-test
file per exported value and per domain template or named literal.

## 1. Inventory

### Components

| Component | Source | State it changes | Operations |
|---|---|---|---|
| SourceExtractor | `parse_module_name`, `parse_aivi_source` (37-53) | none (it raises `ValueError`) | pure extraction |
| DeclarationParser | `split_exports`, `parse_type_defs`, `parse_record_type_aliases`, `parse_class_defs`, `parse_ctor_exports`, `parse_domain_defs` (56-182, 321-378) | none | pure parsers over lines |
| ExpressionSynthesizer | `_split_top_level_commas`, `sample_expr_for_type` (185-268) | none | recursive synthesis of a sample value (not called by `main`) |
| TestEmitter | `basic_export_test`, `domain_tests`, `write` (98-116, 271-309, 381-420) | the output tree under `integration-tests/stdlib` | one file write per test |
| Driver | `main` (423-451) | the output tree, the `generated` counter, stdout | file loop, export loop, domain loop |
| SnippetRenamer | `rename_snippets.py` | markdown files, manifest, files on disk (`git mv`) | pass 1 count, pass 2 rename, write md, update manifest, move |
| DocUnifier | `specs/05_stdlib/unify_docs.py` | markdown files in place | section move per file |
| SyntaxCorpusGenerator | `scripts/gen_syntax_integration_tests.py` | fixed literal files | `write` of a table |

### How the parts interact

`main` visits the `*.rs` files sorted by name, whatever order `glob` lists them in, and skips `mod.rs`. For each file:

1. The SourceExtractor turns it into a module name and an aivi source. On a
   malformed file it raises, and the whole run stops.
2. The DeclarationParser derives the exports, class names, constructor
   exports and domain blocks.
3. The TestEmitter writes one file per eligible export, and then one file per
   template and per named literal of each domain.

`write` creates parent directories and replaces any existing file. Nothing
ever deletes a file. The other three scripts are independent one-shot
utilities.

### Hard behaviours

The code has no concurrency. What is hard to test is the following:

- **Fail-fast ordering:** an error in one file comes after the earlier files
  have already been written.
- **Path collisions:** `sanitize_segment` is many-to-one.
- **Reruns over a kept output tree:** idempotence, and stale files that are
  never removed.
- **The brace-depth block scan:** an unbalanced block swallows later domains.
- **A regular expression that can never match:** `parse_ctor_exports`.
- **The rename script's in-place writes:** markdown, then manifest, then
  `git mv` with an unchecked status. A crash between them, a move that
  fails, or a move whose target already exists are all possible, and the
  only repair is to start the script again over what the stopped run left.

`PROJECT.json` lists each hazard at its line, with the properties that
would catch it going wrong. A hazard that a property only exempts (the
unifier's truncating write, a kill inside it) or that only a translated
operator covers (the unclosed domain block, a repeated record field) has a
note instead.

### Properties per component

| Component | Properties |
|---|---|
| Driver/TestEmitter | every eligible export and every domain case has its file once the count is printed; fail-fast; a rerun leaves the same tree whatever order the file system lists the directory in (spec section 6, determinism); a file is never overwritten with different content in one run; termination |
| DeclarationParser | constructor exports are recognised (spec section 8); the domain block scan runs to the end of the input on a block that is never closed, swallowing the headers after it (translated, not a property: the spec leaves open what a malformed block must give) |
| ExpressionSynthesizer | totality; record round-trip; tuple splitting agrees with bracket matching |
| SnippetRenamer | the files implement an abstract store where snippets only move to free names, and the script stops; references and files agree whenever a run from a benign start completes, a rerun included, unless a run was killed; and, checked for violation, whenever any run completes |
| DocUnifier | no silent loss of content over failing reads, opens and writes, stops and reruns; a rerun leaves a unified document as it is |

## 2. Modules and plan

| Order | Module | Models | Status |
|---|---|---|---|
| 1 | `AiviNames` | `is_upper_name`, `is_suffix_template`, `sanitize_segment`, `module_segments`, suffix literals | done |
| 2 | `AiviDecls` (EXTENDS AiviNames) | SourceExtractor and DeclarationParser as operators over an abstract line sequence | done (record aliases are in `SampleExpr`) |
| 3 | `GenTests` (EXTENDS AiviDecls) | Driver and TestEmitter as a state machine: one action per loop step of `main` | done |
| 4 | `MC_GenTests` | the model-checking instance: four host files, every subset of them as the stdlib directory | done |
| 5 | `SampleExpr` (EXTENDS AiviNames), `MC_SampleExpr` | ExpressionSynthesizer and `parse_record_type_aliases` over token texts, checked against bracket-structure reference definitions | done |
| 6 | `DomainScan` | the line-by-line loop of `parse_domain_defs` as a state machine | not written: `ScanBlock` and `DomainsFrom` already follow that loop one iteration per call, so a step-level module would restate the same code; its one question, whether the loop ends on a block that is never closed, is checked in `gentests_core` (`d.rs`) |
| 7 | `SnippetNames` (EXTENDS AiviNames), `SnippetStore`, `RenameSnippets`, `MC_RenameSnippets` | `slugify` and the name arithmetic; the three loops of rename_snippets.py as a state machine with read failures, crashes and refused moves | done |
| 8 | `UnifyDocs`, `MC_UnifyDocs` | `unify_file` over sequences of line kinds; `process_directory` as a state machine with failing reads, opens and writes, stops and reruns | done |

### Abstraction

- **Texts** are sequences of one-character strings over a small alphabet:
  a few letters, four digits, `_`, and the non-identifier characters
  `- + ( ) . [ ]`, the backtick and space. This keeps every case of `sanitize_segment`
  reachable: stripping, `-` to `_`, collapsing runs, the empty result `x`, and
  the `n_` prefix before a digit.
- **An aivi line** is a record holding only what the line regexes look at:
  its kind, the captured name, the export tokens, the `|` alternatives, and
  its counts of `{` and `}`.
- **A written test document** is a record made of the test module path, the
  `use` line, the domain selected, the binding name, the subject expression,
  and whether the smoke test does `pure subject`. Header text and layout are
  left out.
- **The output tree** is a function from paths (sequences of segments) to
  documents.
- **Parse results** of every host file are tabulated once in `ParsedOf`, as a
  constant. The parsers are pure, so this changes no behaviour, and TLC does
  not re-evaluate them on every state.

### GenTests: state and actions

| Variable | Code |
|---|---|
| `rs` | `sorted(glob("*.rs"))`: a listing of the directory in any order (`Listings`), sorted by `sorted_rs`, which compares file names by code point (`StrLess`); the sort is tabulated once per listing (`RsOf`) |
| `fi`, `ei`, `di`, `ci` | the loop positions (file, export, domain, template or literal) |
| `stage` | which loop `main` is in, plus `done` (the print) and `aborted` (the raised `ValueError`) |
| `cur` | the parse of the current file |
| `out` | the output tree |
| `generated`, `printed` | the counter and the printed value |
| `run`, `prev` | reruns, and the tree at the start of the rerun |

Each action is one iteration step of the corresponding loop:

- `SkipModRs`
- `AbortOnMalformed`
- `ParseFile`
- `SkipExport`
- `EmitExport`
- `EndExports`
- `EmitDomainCase`
- `NextDomain`
- `NextFile`
- `Finish`
- `Rerun`, which runs the script again over the same directory and the
  output tree it left. The directory may now be listed in another order.

### SampleExpr: state and actions

The synthesizer is a pure recursive function. Its module translates it as
operators:

- `SplitFrom` is the character loop of `_split_top_level_commas`, with its
  depth clamped at zero.
- `parse_record_type_aliases` folds over the lines. It splits each record
  body on every comma, and its `AddField` follows Python dict semantics: a
  repeated name keeps its first position and takes the later type.
- `Synth` tries the rules of `sample_expr_for_type` in the code's order.

A text is a sequence of tokens, rendered with one space between tokens, so
that:

- the whitespace normalisation and `strip()` are the identity;
- `startswith("Option ")` is "first token is `Option` and another token
  follows".

Expressions are records: a literal, a record literal, a tuple literal,
`NoSample` (the function's `None`) or `Overflow`. `Synth` carries the set of
records being expanded. A record met again on that stack would recurse
forever, because the function is pure, so the model returns `Overflow` for
the `RecursionError` Python raises.

One action, `Synthesize`, chooses a source, a type and a domain, and
computes the sample. The reference definitions (`Depth`, `TopLevelPieces`,
`IsGroup`, `SpecRecordAliases`) are written from the bracket structure
and the spec's top-level split, not from the code.

### RenameSnippets: state and actions

`SnippetNames` translates the name computations:

- `slugify`: `RemoveLinks` (the link regex, left to right), the backtick
  removal, `StripNumbering` (the `^(\d+\.)*\d+\.?\s+` regex), lower-casing,
  and runs of characters outside `[a-z0-9]` to one `_`, stripped.
- `HeadingSlug` (`intro`, `section`), `Pad2` (`{idx:02d}`), `NewBasename`.
- `IsBlock` (`'block_' in basename`), `ReplaceStr` (`str.replace`), and
  `ShortBase`.

`RenameSnippets` models the script as a state machine. A markdown line is a
heading or an include, and an include records whether it carries `{aivi}`.
`CountBlocks` is pass 1 and `RenameBlocks` is pass 2. Both are folds over
the lines, and the dicts `heading_counts`, `heading_seen` and `renames` keep
Python's semantics: `get` with a default, and an update in place.

| Variable | Code |
|---|---|
| `sc` | the starting point: markdown files, snippets on disk, the git index, the manifest |
| `order` | `md_files`, in any order `os.walk` may give |
| `pc` | which loop runs, then `done` or `failed` |
| `fi`, `mi`, `ri` | the positions in the three loops |
| `md`, `manifestDisk`, `files`, `tracked` | the markdown files, `manifest.json`, the snippets, and the git index, all on disk |
| `renames`, `manifest` | the dict and the manifest in memory |
| `runs` | how often the script has been started over this tree (at most `MaxRuns`) |
| `interrupted` | whether some run was killed between two steps |

The actions follow the loops of the script:

- `ScanFile` runs both passes and writes the file when it changed.
- `ReadFails` is the `except Exception: continue`.
- `EndScan`.
- `RetargetEntry`, `SkipEntry`, and `ModuleMissing` (the `KeyError` on
  `entry['module']`).
- `WriteManifest`.
- `GitMv`, and `GitMvRefused` (the exit status is ignored).
- `Finish`.
- `Crash`: an exception from `open(..., 'w')`, or the process killed. It is
  enabled only when the constant `CrashFaults` is `TRUE`, as in both
  renamer runs. It sets `interrupted`.
- `Restart`: after a run ended, in `done` or `failed`, the script is started
  again over the tree as that run left it: new walk order, empty `renames`,
  the manifest read back from disk. At most `MaxRuns` runs.

Both passes of a file depend only on its lines and on which snippet names
exist, restricted to the `block_` names its includes mention. `ScanTab`
tabulates them once, keyed by that pair, over every markdown text a run can
produce (`MdVariants`, up to `MaxRuns` rewrites); `ScanFile` looks its result
up (`Scan`). The table gives the same values as the folds, but TLC does not
re-run the folds each time the fairness condition asks whether `ScanFile` is
enabled.

#### Refinement

`SnippetStore` is the abstract specification of what the script promises
about the snippet files, whatever it does to the markdown and the manifest.
Its state is a `store` of names and contents, plus an `active` flag. Its
actions are:

- `Move(old, new)`: a content moves to a name no snippet has;
- `Stop`;
- `Start`: the script is started again over the snippets as they are.

Weak fairness on `Stop` says that every run ends. Nothing forces a start.

`RenameSnippets` instantiates it as `Store` with this mapping:

- `store <- files`;
- `active <- pc \in {"scan", "manifest", "move"}`;
- `Names <- StoreNames`, the names on disk plus every name pass 2 can give.

`StoreRefinement == Store!Spec` is checked as a `PROPERTY`. Under the
mapping:

- `GitMv` is `Move`;
- `Finish` and every failure are `Stop`;
- `Restart` is `Start`;
- every other step leaves `files` unchanged and the script active, so it is a
  stuttering step.

`os.path.exists(old)` before `git mv` always holds. Each old name is a dict
key only once, it existed when pass 2 recorded it, and only its own move
can remove it. So the skip branch has no action.

The snippets sit in one directory and the markdown files in another. A path
is therefore its basename, and the `relpath`/`normpath` arithmetic of lines
73-75, 86 and 89-92 is the identity. A snippet's content is the name it had
at the start. That is what lets the properties say whether a reference
still reaches its own snippet.

### UnifyDocs: state and actions

`unify_file` is translated line by line over line kinds. `"W"`, `"Y"` and
`"H"` are lines starting with `## What`, `## Why` and another `## `. `"F"`
starts with a fence, `"E"` and `"S"` are empty and blank-only lines, and
`t1`..`t3` are text.

- `SplitStep` is one iteration of the first loop, and `Sections` folds it.
- `InsertIdx` is the first `## ` or fence of `msg_lines`.
- `Combined` is the moved block, each section followed by an empty line.
- `CleanStep` is the blank-line clean-up.
- `JoinLines` is `"\n".join` as the next `splitlines()` sees it. A last
  empty line becomes the final newline, so every processed file loses a
  final newline it had. This is only layout, and no property is about it.

`unify_file` was compared with the Python function on 400 random documents
over these kinds, and every result agreed.

`process_directory` is a state machine over `disk`, with `pc` one of:

- `walk`;
- `read` (before the file is read);
- `open` (new content computed);
- `write` (file truncated by `open(..., 'w')`);
- `done`.

The actions are:

- `NextFile` takes the files in any order.
- `ReadFile`/`ReadFails` and `OpenWrite`/`OpenFails` may each fail. A
  failure prints an error (`reported`) and goes on with the next file.
- `Write` writes the file.
- `WriteFails` keeps a prefix of whole lines and prints an error (`partial`).
- `EndRun` ends the walk.
- `Rerun` starts the script again, up to `MaxRuns`.
- `Crash` stops the process at any step. A stop in `write` records the
  file in `interrupted`.

`NoSilentLoss` says a file's non-blank, non-header lines (as a bag) differ
from its original only mid-write, after a printed error, or after a stop
mid-write. `RerunStable` says a completely rewritten file holds the first
run's result however often the script runs again. It is idempotence,
checked across real reruns.

## 3. Runs

| Run | Expect | Checks |
|---|---|---|
| `gentests_core` (`MC_GenTests.cfg`) | pass | `TypeOK`, `CompleteOnDone`, `FailFast`, `Idempotent` (the rerun's tree equals the first run's, the two runs walking listings in independent orders), `OneFilePerCase`, `Termination` |
| `gentests_ctor` | violation | `ConstructorExportsSmoke`: the constructor pattern never matches, so a constructor export gets the `Ref =` test |
| `gentests_abort` | violation | `AbortLeavesNoOutput`: spec section 7 says failure produces no output; the code has already written earlier files |
| `gentests_clash` | violation | `OneFilePerCase` on exports `a-b` and `a_b`, which share one path |
| `rename_core` (`MC_RenameSnippets.cfg`) | pass | `TypeOK` (`renames` is a dict), `IntactUnlessInterrupted` (from a benign start, every run that completes, first or rerun, leaves every reference intact unless some run was killed), `StoreRefinement` (the renamer, restarts included, implements `SnippetStore`) |
| `rename_broken` (`MC_RenameSnippets_Broken.cfg`) | violation | `ReferencesIntactWhenDone`, with crashes and one restart. Eight starting points complete a run with a reference that no longer reaches its snippet: an include without `{aivi}` (both snippets become `ab`), one heading slug in two files, a rerun next to an existing `ab_01`, a heading `Block 2` whose move into `block_2` is refused, a snippet included from two files, an untracked snippet whose `git mv` fails, a manifest entry without `module` (`KeyError` after the markdown was rewritten, and the rerun completes without repairing), and a benign tree whose first run was killed after its markdown was rewritten |
| `gentests_literal_depth` (`MC_GenTests_NamedLiteralsAtTopLevel.cfg`) | violation | `NamedLiteralsAtTopLevel`: in `l.rs` a binding `r = Ok x` inside an operator body of a domain block is recorded as a named literal, so `domain_tests` writes a case binding `subject = r` (the spec's glossary says a named literal is a literal value of the domain) |
| `unify_core` (`MC_UnifyDocs.cfg`) | pass | `TypeOK` (texts as `splitlines` sees them), `NoSilentLoss`, `RerunStable` |
| `sample_core` (`MC_SampleExpr.cfg`) | pass | `TypeOK` (no literal holds a missing sample), `TupleSplitsAtTopLevel` |
| `sample_totality` | violation | `Totality`: two records that contain each other make the synthesis recurse without end (spec section 4.3 says total) |
| `sample_record_roundtrip` | violation | `RecordRoundTrip`: the field `g : ( Int , Bool )` is cut at its inner comma and gets `Unit`, where the spec's top-level split gives `(1, True)` |
| `sample_tuple_groups` | violation | `TupleOnlyForGroups`: `( Int , Bool ) -> ( Int , Bool )` is synthesized as a tuple |

Each starting point of `rename_broken` violates the property on its own.
`MC_RenameSnippets` names each of them (`MC_Uncounted`, `MC_SharedSlug`,
`MC_Rerun`, `MC_MoveOrder`, `MC_DoubleRef`, `MC_Untracked`, `MC_NoModule`,
`MC_Interrupted`), so any one can be given to `Scenarios` to get its own
counterexample. `PROJECT.json` records a finding for each. The first six
complete broken in their first run without any crash. `MC_NoModule` fails
with the `KeyError`, and the rerun completes with the includes still
dangling. `MC_Interrupted` is benign, and without crashes every run of it
ends intact; with them, a kill after `a.md` was rewritten is followed by a
rerun that finds no `block_` include, writes the manifest back, moves
nothing and completes with every reference broken: the script cannot finish
what a stopped run began.

`main` never calls `sample_expr_for_type`, so the three synthesizer findings
are latent until it does.

### Bounds

Four host files are used:

- `a.rs` (module `ai.b`) covers every kind of export:
  - a lowercase value, and an uppercase name with a leading space;
  - a class, an ADT constructor, and a suffix template;
  - an export that sanitizes to `n_...`, an empty token, and `domain D`;
  - a domain holding an operator, a template and a named literal.
- `c.rs` lacks its SOURCE terminator.
- `d.rs`:
  - has duplicate exports and the `dec` suffix;
  - has a domain whose block has nested braces, followed by a literal outside
    the block;
  - has a second domain, `B`, whose block is never closed: it swallows the
    header of a domain `C` and `C`'s template up to the end of the source,
    so the scan ends at end of input and `B` gets both templates.
- `mod.rs`.

The directory is any of the 16 subsets of these files, and the file system
lists it in any of their orders, at the first run and again at the rerun.
File names are texts, so that `sorted` compares them as Python does. That
covers:

- an empty directory;
- a malformed file before, after, or with no good files around it, in
  the walk order that the sort gives and in every listing order;
- `mod.rs` among the files or alone.

`MaxRuns = 2` is one rerun, which is enough for idempotence because a run
depends only on the inputs and the output tree.

The run reaches 360 distinct states in about a second.

`MC_SampleExpr` checks every text of one to three tokens over
`Int R ( ) , Option Delta`, which gives 399 texts: unbalanced, empty and
malformed ones among them. It adds 12 longer composite types:

- a nested tuple;
- braces inside a tuple;
- empty and missing pieces;
- a function type;
- the collection prefixes.

These are combined with six record sources and three domains in scope. The
sources cover:

- a tuple-typed field;
- a repeated field;
- a parameterised record;
- a record nested in another;
- an empty record;
- an alias;
- a mutual recursion.

That is 7 380 initial states and 14 760 distinct states, checked in about
two seconds.

`MC_RenameSnippets` uses two markdown files, the snippets `block_1`,
`block_2` and `block_3` (plus `ab_01`, left by an earlier run), and a
manifest entry per snippet.

`a.md` comes in seven variants:

- empty;
- two counted blocks under `Ab`;
- one of them without `{aivi}`;
- a rerun next to `ab_01`;
- a heading `Block 2`;
- the headings `1. Ab` and `[Ab](x)` (numbering and link removal that
  slugify alike);
- a single block under `Ab`.

`b.md` also comes in seven variants:

- empty;
- `Cd`;
- `[Ab](x)`;
- `block_1` included a second time;
- a heading whose slug is empty (`section`);
- an include before any heading (`intro`);
- `block_2` under `Cd`.

These are crossed with git tracking every snippet or all but `block_3`, and
with a manifest that is complete or whose `block_1` entry lacks `module`.
That gives 196 starting points, and 392 initial states counting both walk
orders. Twenty of the starting points are benign in the sense of
`IntactUnlessInterrupted`. With crashes on and `MaxRuns = 2` (a rerun over
every state a first run can end or die in) the run reaches 128 594 distinct
states in about 35 seconds. Two runs are enough for every kind of rerun the
code meets: over a completed run, over a run that skipped an unreadable
file, and over one that failed or was killed part-way.

`MC_UnifyDocs` has two documents and `MaxRuns = 2`:

- `a.md` has What, then Why, then a heading and a fence.
- `b.md` has Why before What, a blank-only line, no later heading and no
  final newline.

This covers every branch of `SplitStep` and both `InsertIdx` outcomes, and
it gives a moved block at the very end, whose empty line becomes a final
newline. Two files give every order of the walk, and two runs give the
rerun over unified, partly written and emptied files (14015 states, 1 s).
`l.rs` (module `ai.l`) holds a domain whose operator body opens a nested
block with a binding `r = Ok x`, then a named literal `m` at depth 1. It is
used only by `gentests_literal_depth`. On the four standard host files
`NamedLiteralsAtTopLevel` holds.

Two files are enough for every cross-file interaction: a shared slug, a
double reference, and an order-dependent move. Two blocks under one heading
are enough for the `_NN` numbering.

### Fairness

`GenTests`' `Spec` has `WF_vars(Next)`. `main` is one sequential process, and each of its
steps is taken once enabled. `CHECK_DEADLOCK FALSE` is used because the
script really does stop, in `done` or `aborted`. `SampleExpr` has no liveness
property: one synthesis step and the state is final, hence also
`CHECK_DEADLOCK FALSE`.

`UnifyDocs` states no liveness property, so its `Spec` has no fairness.
Its run uses `CHECK_DEADLOCK FALSE` because the script ends after its last
run.

`RenameSnippets`' `Spec` has `WF_vars(Run)`, where `Run` is every step of
the script except `Crash` and `Restart`. The script is one sequential
process, so a step it can take is taken. A crash may happen, and a user may
start it again, but nothing forces either. Under
this fairness the refinement's `WF(Stop)` holds: every loop runs over a
finite list, and a refused `git mv` is skipped.

### Mutants

Each property of the passing run is broken by a plausible bug:

- `sorted()` dropped, so the files are walked in `glob`'s order (breaks
  `Idempotent`: the first run lists `c.rs` first and aborts with nothing
  written, the rerun lists `d.rs` first and writes its files before
  aborting).
- Domain directories without the domain name.
- A malformed file skipped instead of raising.
- The domain loop leaving before the last case, or never advancing.
- `mod.rs` skipping the following file too.
- Synthesizer mutants: the `or 'Unit'` fallback dropped; only parentheses
  counted in the depth.
- Unifier mutants:
  - the join taken as the identity (breaks `TypeOK`);
  - the heading that closes a section skipped with it (breaks
    `NoSilentLoss`);
  - the `## What` header collected into its own section, so a rerun moves
    text again (breaks `RerunStable`).
- Renamer mutants:
  - `renames` as a list, appending a repeated old name;
  - `git mv -f`, which overwrites an existing target (breaks the
    refinement);
  - the `_NN` suffix only from three blocks on (breaks
    `IntactUnlessInterrupted`).

## 4. Not modelled

- **Character-level spellings of types in `SampleExpr`:** for example
  `Option(Int)` without a space. Texts are space-separated tokens.
- **`## What`/`## Why` lines inside a code fence in `unify_docs.py`:** these
  are taken as headers and move the rest of the fence. No source says what
  a fence must keep, so this is listed as a hazard without a property.
- **Nested directories of `unify_docs.py`:** `os.walk` order is free in
  the model, and the files do not interact.
- **The directory structure of `rename_snippets.py`:** markdown files and
  snippets in nested directories, and the `relpath` spelling of the
  rewritten include (`./` prefix, separators). Paths are basenames here.
- **What the manifest's `module` name must be:** `RetargetModule` models
  the substring replace and the `_new` branch exactly, but nothing resolves
  a reference through the module name, so no property is stated about it.
- **Loading `manifest.json`:** a failure there stops the script before
  anything is written.
- **`gen_syntax_integration_tests.py`:** a fixed table of literal files, with
  no control flow worth checking.
- **File-system errors other than the three parse errors:** unreadable files,
  or `STDLIB_SRC` missing (which exits before writing).
- **The header text and the exact bytes of generated files:** these are
  layout.
