----------------------------- MODULE AiviNames -----------------------------
(***************************************************************************)
(* Character-level helpers of scripts/gen_integration_tests.py: the name   *)
(* predicates (is_upper_name, is_suffix_template), the path sanitizer      *)
(* (sanitize_segment, module_segments) and the suffix extraction           *)
(* re.sub(r"^[0-9]+", "", tpl).                                            *)
(*                                                                         *)
(* A text is a sequence of one-character strings drawn from a small        *)
(* alphabet: a few letters of each case, four digits, the identifier       *)
(* character "_", and the non-identifier characters "-", "+", "(", ")",    *)
(* ".", " ", "[", "]" and the backtick.  The regular expressions are       *)
(* translated into predicates over these sequences.                       *)
(***************************************************************************)
EXTENDS Integers, Sequences, SequencesExt, FiniteSetsExt

LowerChars == {"a", "b", "c", "d", "e", "i", "k", "l", "m", "n", "o", "p", "r", "s", "t", "x"}
UpperChars == {"A", "B", "C"}
DigitChars == {"0", "1", "2", "3"}
\* [A-Za-z0-9_], the class the sanitizer keeps
IdentChars == LowerChars \cup UpperChars \cup DigitChars \cup {"_"}
\* The backtick is spelt "bq": SANY does not accept it inside a string.
BackTick == "bq"
OtherChars == {"-", "+", "(", ")", ".", " ", "[", "]", BackTick}
Chars == IdentChars \cup OtherChars

\* s without its leading and trailing characters in cs
\* (str.strip() for cs = whitespace, str.strip("_") for cs = {"_"}).
StripBy(s, cs) ==
    LET inner == {i \in DOMAIN s : s[i] \notin cs}
    IN  IF inner = {} THEN <<>> ELSE SubSeq(s, Min(inner), Max(inner))

\* s without its leading characters in cs (re.sub(r"^[0-9]+", "", s)).
DropLeading(s, cs) ==
    LET rest == {i \in DOMAIN s : s[i] \notin cs}
    IN  IF rest = {} THEN <<>> ELSE SubSeq(s, Min(rest), Len(s))

IsDigit(c) == c \in DigitChars
IsLetter(c) == c \in LowerChars \cup UpperChars

\* is_upper_name: ^[A-Z][A-Za-z0-9_]*$
IsUpperName(s) ==
    /\ s # <<>>
    /\ s[1] \in UpperChars
    /\ \A i \in DOMAIN s : s[i] \in IdentChars

\* is_suffix_template: ^[0-9]+[A-Za-z][A-Za-z0-9_]*$
IsSuffixTemplate(s) ==
    LET rest == DropLeading(s, DigitChars)
    IN  /\ s # <<>> /\ IsDigit(s[1])
        /\ rest # <<>> /\ IsLetter(rest[1])
        /\ \A i \in DOMAIN rest : rest[i] \in IdentChars

\* re.sub(r"^[0-9]+", "", tpl): the unit suffix of a template like 1ms
TemplateSuffix(tpl) == DropLeading(tpl, DigitChars)

\* The characters of s at the positions in keep, in order.
Compact(s, keep) ==
    [k \in 1..Cardinality(keep) |->
        s[CHOOSE i \in keep : Cardinality({j \in keep : j < i}) = k - 1]]

\* re.sub(r"_+", "_", seg): every run of underscores becomes one
CollapseUnderscores(s) ==
    Compact(s, {i \in DOMAIN s : ~(s[i] = "_" /\ i > 1 /\ s[i - 1] = "_")})

\* sanitize_segment: strip, "-" -> "_", every non [A-Za-z0-9_] -> "_",
\* collapse "_" runs, strip "_", "x" when empty, "n_" before a digit.
sanitize_segment(seg) ==
    LET s1 == StripBy(seg, {" "})
        s2 == [i \in DOMAIN s1 |-> IF s1[i] = "-" THEN "_" ELSE s1[i]]
        s3 == [i \in DOMAIN s2 |-> IF s2[i] \in IdentChars THEN s2[i] ELSE "_"]
        s4 == StripBy(CollapseUnderscores(s3), {"_"})
        s5 == IF s4 = <<>> THEN <<"x">> ELSE s4
    IN  IF IsDigit(s5[1]) THEN <<"n", "_">> \o s5 ELSE s5

\* The pieces of s between the separator positions seps.
SplitAt(s, seps) ==
    LET nth(k) == CHOOSE i \in seps : Cardinality({j \in seps : j < i}) = k - 1
        lo(k) == IF k = 1 THEN 1 ELSE nth(k - 1) + 1
        hi(k) == IF k = Cardinality(seps) + 1 THEN Len(s) ELSE nth(k) - 1
    IN  [k \in 1..Cardinality(seps) + 1 |-> SubSeq(s, lo(k), hi(k))]

\* text.split(sep): the pieces of a text between the separators
SplitOn(s, sep) == SplitAt(s, {i \in DOMAIN s : s[i] = sep})

\* module_segments
module_segments(module_name) ==
    LET parts == SplitOn(module_name, ".")
    IN  [k \in DOMAIN parts |-> sanitize_segment(parts[k])]

\* The literal "dec", the one suffix whose samples use the base 3.14
DecSuffix == <<"d", "e", "c">>

\* export.startswith("domain "): the export names a domain, not a value
DomainPrefix == <<"d", "o", "m", "a", "i", "n", " ">>
IsDomainExport(e) == IsPrefix(DomainPrefix, e)

\* literal_base / subject_expr for a suffix: ("3.14" if suffix == "dec" else "2") + suffix
SuffixLiteral(suffix) ==
    IF suffix = DecSuffix THEN <<"3", ".", "1", "4">> \o suffix ELSE <<"2">> \o suffix
=============================================================================
