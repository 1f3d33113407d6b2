-------------------------- MODULE MC_RenameSnippets --------------------------
(***************************************************************************)
(* Model-checking instance of RenameSnippets: two markdown files a.md and  *)
(* b.md, the snippets block_1, block_2, block_3 (and ab_01 from an earlier *)
(* run), a manifest with one entry per snippet, and git tracking all of    *)
(* them or all but block_3.                                                *)
(***************************************************************************)
EXTENDS RenameSnippets

B1 == <<"b", "l", "o", "c", "k", "_", "1">>
B2 == <<"b", "l", "o", "c", "k", "_", "2">>
B3 == <<"b", "l", "o", "c", "k", "_", "3">>
AB01 == <<"a", "b", "_", "0", "1">>

\* Heading texts: "Ab", "Cd", "1. Ab", "[Ab](x)", "Block 2", and "`" (whose
\* slug is empty).
Ab == <<"A", "b">>
Cd == <<"C", "d">>
NumAb == <<"1", ".", " ", "A", "b">>
LinkAb == <<"[", "A", "b", "]", "(", "x", ")">>
Block2 == <<"B", "l", "o", "c", "k", " ", "2">>
Tick == <<BackTick>>

\* a.md variants
A0 == <<>>
A1 == <<Heading(Ab), Include(B1, TRUE), Include(B2, TRUE)>>          \* ab_01, ab_02
A2 == <<Heading(Ab), Include(B1, TRUE), Include(B2, FALSE)>>         \* one include without {aivi}
A3 == <<Heading(Ab), Include(AB01, TRUE), Include(B2, TRUE)>>        \* ab_01 renamed by an earlier run
A4 == <<Heading(Block2), Include(B1, TRUE)>>                         \* block_1 becomes block_2
A5 == <<Heading(NumAb), Include(B1, TRUE), Heading(LinkAb), Include(B2, TRUE)>>
A6 == <<Heading(Ab), Include(B1, TRUE)>>                             \* ab
\* b.md variants
M0 == <<>>
M1 == <<Heading(Cd), Include(B3, TRUE)>>                             \* cd
M2 == <<Heading(LinkAb), Include(B3, TRUE)>>                         \* ab
M3 == <<Heading(Cd), Include(B1, TRUE)>>                             \* block_1 included twice
M4 == <<Heading(Tick), Include(B3, TRUE)>>                           \* section
M5 == <<Include(B3, TRUE)>>                                          \* intro
M6 == <<Heading(Cd), Include(B2, TRUE)>>                             \* block_2 becomes cd

Entry(path, module, has) == [path |-> path, module |-> module, hasModule |-> has]
Snip == <<"s", "n", "i", "p">>
\* module names: one holding the basename, one not (the "_new" branch)
FullManifest ==
    <<Entry(B1, Snip \o <<"_">> \o B1, TRUE), Entry(B2, Snip, TRUE),
      Entry(B3, Snip \o <<"_">> \o B3, TRUE), Entry(AB01, Snip \o <<"_">> \o AB01, TRUE)>>
\* the block_1 entry has no 'module' key
NoModuleManifest == [FullManifest EXCEPT ![1].hasModule = FALSE, ![1].module = <<>>]

Blocks == {B1, B2, B3}

Sc(a, b, untracked, man) ==
    LET names == IF a = A3 THEN Blocks \cup {AB01} ELSE Blocks
    IN  [md |-> ("a.md" :> a) @@ ("b.md" :> b),
         files |-> [n \in names |-> n],
         tracked |-> names \ untracked,
         manifest |-> man]

\* Every combination of the variants.
MC_All ==
    {Sc(a, b, u, m) : a \in {A0, A1, A2, A3, A4, A5, A6},
                      b \in {M0, M1, M2, M3, M4, M5, M6},
                      u \in {{}, {B3}},
                      m \in {FullManifest, NoModuleManifest}}

\* One scenario per hazard, for the runs that expect a violation.
MC_Uncounted == {Sc(A2, M0, {}, FullManifest)}
MC_SharedSlug == {Sc(A6, M2, {}, FullManifest)}
MC_DoubleRef == {Sc(A1, M3, {}, FullManifest)}
MC_Rerun == {Sc(A3, M0, {}, FullManifest)}
MC_MoveOrder == {Sc(A4, M6, {}, FullManifest)}
MC_Untracked == {Sc(A1, M1, {B3}, FullManifest)}
MC_NoModule == {Sc(A1, M0, {}, NoModuleManifest)}
\* A benign starting point, for a run that is killed and started again.
MC_Interrupted == {Sc(A1, M1, {}, FullManifest)}
\* All of them, for the run that asks whether references survive.
MC_Broken == MC_Uncounted \cup MC_SharedSlug \cup MC_Rerun \cup MC_MoveOrder
             \cup MC_DoubleRef \cup MC_Untracked \cup MC_NoModule \cup MC_Interrupted
====
