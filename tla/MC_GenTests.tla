----------------------------- MODULE MC_GenTests -----------------------------
(***************************************************************************)
(* A small stdlib directory for GenTests.  Texts are sequences of          *)
(* one-character strings.  The files, in name order:                       *)
(*   a.rs    module "ai.b": exports a value, a type, a class, an ADT       *)
(*           constructor, a suffix template, an empty token and a domain;  *)
(*           declares the class, the ADT and domain D (one operator, one   *)
(*           template, one named literal)                                  *)
(*   c.rs    module "ai.c" without its '"#;' terminator (malformed)        *)
(*   d.rs    module "ai.d": the value a again, a duplicated export, the    *)
(*           1dec template export, domain E whose block nests a braced     *)
(*           body, and domain B with the same suffix s as E, whose block  *)
(*           is never closed: it swallows the header of a domain C and its *)
(*           template up to the end of the source                          *)
(*   mod.rs  the index file, skipped                                       *)
(* Every subset of these files is a candidate directory; file names are   *)
(* texts, so that sorted() can compare them.                               *)
(***************************************************************************)
EXTENDS GenTests

E == <<>>

\* the name "mod.rs"
MC_ModRs == <<"m", "o", "d", ".", "r", "s">>
L(kind, name) == Line(kind, name, E, E, 0, 0)

FileA ==
    HostFile(<<"a", ".", "r", "s">>, TRUE, <<"a", "i", ".", "b">>, TRUE, TRUE,
      << Line("export", E, << <<"a">>, <<" ", "A">>, <<"C">>, <<"B">>,
                              <<"1", "m", "s">>, <<>>, DomainPrefix \o <<"D">> >>, E, 0, 0),
         L("class", <<"C">>),
         Line("adt", <<"A">>, E, << <<"B">>, <<"n">> >>, 0, 0),
         Line("domain", <<"D">>, E, E, 1, 0),
         L("opsig", <<"+">>),
         L("tpl", <<"1", "m", "s">>),
         L("lit", <<"m">>),
         Line("other", E, E, E, 0, 1) >>)

FileC ==
    HostFile(<<"c", ".", "r", "s">>, TRUE, <<"a", "i", ".", "c">>, TRUE, FALSE,
      << Line("export", E, << <<"c">> >>, E, 0, 0) >>)

FileD ==
    HostFile(<<"d", ".", "r", "s">>, TRUE, <<"a", "i", ".", "d">>, TRUE, TRUE,
      << Line("export", E, << <<"a">>, <<"b">>, <<"b">>, <<"1", "d", "e", "c">> >>, E, 0, 0),
         Line("domain", <<"E">>, E, E, 1, 0),
         Line("other", E, E, E, 1, 0),
         Line("other", E, E, E, 0, 1),
         L("tpl", <<"2", "s">>),
         Line("other", E, E, E, 0, 1),
         L("lit", <<"b">>),
         Line("domain", <<"B">>, E, E, 1, 0),
         L("tpl", <<"1", "s">>),
         Line("domain", <<"C">>, E, E, 1, 0),
         L("tpl", <<"3", "m", "s">>),
         Line("other", E, E, E, 0, 1) >>)

FileMod == HostFile(MC_ModRs, FALSE, E, FALSE, FALSE, E)

\* Every subset of the files (enumerated: a SUBSET left lazy is re-expanded
\* whenever the fairness condition is evaluated).
MC_Inputs == {dir : dir \in SUBSET {FileA, FileC, FileD, FileMod}}

\* A module exporting a-b and a_b (names that differ only in a character
\* outside [A-Za-z0-9_]).
FileN ==
    HostFile(<<"n", ".", "r", "s">>, TRUE, <<"a", "i", ".", "n">>, TRUE, TRUE,
      << Line("export", E, << <<"a", "-", "b">>, <<"a", "_", "b">> >>, E, 0, 0) >>)

MC_InputsClash == {{FileN}}

\* Domain D with an operator whose body opens a nested block holding the
\* local binding r = Ok x, then the named literal m = Ctor.
FileL ==
    HostFile(<<"l", ".", "r", "s">>, TRUE, <<"a", "i", ".", "l">>, TRUE, TRUE,
      << Line("export", E, << <<"a">> >>, E, 0, 0),
         Line("domain", <<"D">>, E, E, 1, 0),
         L("opsig", <<"+">>),
         Line("other", E, E, E, 1, 0),
         L("lit", <<"r">>),
         Line("other", E, E, E, 0, 1),
         L("lit", <<"m">>),
         Line("other", E, E, E, 0, 1) >>)

MC_InputsNested == {{FileL}}
=============================================================================
