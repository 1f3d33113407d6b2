---------------------------- MODULE SnippetNames ----------------------------
(***************************************************************************)
(* The name computations of rename_snippets.py: slugify (markdown link     *)
(* removal, backtick removal, the numbering strip, lower-casing, runs of   *)
(* non [a-z0-9] to "_"), the "_{idx:02d}" suffix, the "block_" test and    *)
(* Python's str.replace.  Texts are sequences of one-character strings    *)
(* over the alphabet of AiviNames.                                         *)
(***************************************************************************)
EXTENDS AiviNames

\* s.lower() on the alphabet
LowerOf == ("A" :> "a") @@ ("B" :> "b") @@ ("C" :> "c")
Lower(c) == IF c \in DOMAIN LowerOf THEN LowerOf[c] ELSE c

\* [a-z0-9], the characters a slug keeps
SlugChars == LowerChars \cup DigitChars

\* The first position in lo..Len(s) holding c, or 0.
FirstFrom(s, lo, c) ==
    LET at == {i \in lo..Len(s) : s[i] = c}
    IN  IF at = {} THEN 0 ELSE Min(at)

\* re.sub(r'\[([^\]]+)\]\([^)]+\)', r'\1', s): left to right, without
\* rescanning a replacement.
RECURSIVE RemoveLinks(_)
RemoveLinks(s) ==
    IF s = <<>> THEN <<>>
    ELSE LET j == FirstFrom(s, 2, "]")
             k == FirstFrom(s, j + 2, ")")
             isLink == /\ s[1] = "[" /\ j >= 3 /\ j < Len(s)
                       /\ s[j + 1] = "(" /\ k >= j + 3
         IN  IF isLink
             THEN SubSeq(s, 2, j - 1) \o RemoveLinks(SubSeq(s, k + 1, Len(s)))
             ELSE <<s[1]>> \o RemoveLinks(Tail(s))

\* re.sub(r'^(\d+\.)*\d+\.?\s+', '', s): the longest prefix of digits and
\* dots matches when it starts with a digit, has no two dots in a row and
\* is followed by whitespace; the match takes all of that whitespace.
StripNumbering(s) ==
    LET pre == {i \in DOMAIN s : \A j \in 1..i : s[j] \in DigitChars \cup {"."}}
        p == IF pre = {} THEN 0 ELSE Max(pre)
        numbered == /\ p >= 1 /\ s[1] \in DigitChars
                    /\ \A i \in 1..(p - 1) : ~(s[i] = "." /\ s[i + 1] = ".")
                    /\ p < Len(s) /\ s[p + 1] = " "
    IN  IF numbered THEN DropLeading(SubSeq(s, p + 1, Len(s)), {" "}) ELSE s

\* slugify
slugify(s) ==
    LET s1 == RemoveLinks(s)
        s2 == SelectSeq(s1, LAMBDA c : c # BackTick)
        s3 == StripNumbering(s2)
        s4 == [i \in DOMAIN s3 |-> Lower(s3[i])]
        s5 == [i \in DOMAIN s4 |-> IF s4[i] \in SlugChars THEN s4[i] ELSE "_"]
    IN  StripBy(CollapseUnderscores(s5), {"_"})

\* The headings pass 1 and 2 start from and fall back to.
IntroSlug == <<"i", "n", "t", "r", "o">>
SectionSlug == <<"s", "e", "c", "t", "i", "o", "n">>

\* The current_heading a heading line sets: its slug, or "section".
HeadingSlug(text) ==
    LET s == slugify(text) IN IF s = <<>> THEN SectionSlug ELSE s

\* The decimal digits of a natural number (str(n)).
DecDigit(d) == <<"0", "1", "2", "3", "4", "5", "6", "7", "8", "9">>[d + 1]
RECURSIVE Decimal(_)
Decimal(n) == IF n < 10 THEN <<DecDigit(n)>> ELSE Decimal(n \div 10) \o <<DecDigit(n % 10)>>

\* f"{idx:02d}"
Pad2(n) == IF n < 10 THEN <<"0">> \o Decimal(n) ELSE Decimal(n)

\* Mutant: the suffix only from three blocks on (an off-by-one in total > 1).
NewBasenameSuffixOff(heading, idx, total) ==
    heading \o (IF total > 2 THEN <<"_">> \o Pad2(idx) ELSE <<>>)

\* new_basename without its ".aivi" extension (which splitext removes
\* again wherever the name is used).
NewBasename(heading, idx, total) ==
    heading \o (IF total > 1 THEN <<"_">> \o Pad2(idx) ELSE <<>>)

\* t in s, for strings
HasInfix(s, t) == \E i \in 0..(Len(s) - Len(t)) : SubSeq(s, i + 1, i + Len(t)) = t

\* 'block_' in os.path.basename(rel_path)
BlockMark == <<"b", "l", "o", "c", "k", "_">>
IsBlock(name) == HasInfix(name, BlockMark)

\* s.replace(old, new): every non-overlapping occurrence, left to right
RECURSIVE ReplaceStr(_, _, _)
ReplaceStr(s, old, new) ==
    IF Len(s) < Len(old) THEN s
    ELSE IF SubSeq(s, 1, Len(old)) = old
         THEN new \o ReplaceStr(SubSeq(s, Len(old) + 1, Len(s)), old, new)
         ELSE <<Head(s)>> \o ReplaceStr(Tail(s), old, new)

\* new_basename.replace('-', '_').replace(' ', '_')
ShortBase(n) == [i \in DOMAIN n |-> IF n[i] \in {"-", " "} THEN "_" ELSE n[i]]
====
