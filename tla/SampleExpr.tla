----------------------------- MODULE SampleExpr -----------------------------
(***************************************************************************)
(* ExpressionSynthesizer of scripts/gen_integration_tests.py together with *)
(* the record-shape extraction it consumes: parse_record_type_aliases,     *)
(* _split_top_level_commas and sample_expr_for_type.                       *)
(*                                                                         *)
(* A type text, and a line of aivi source, is a sequence of tokens: words  *)
(* ("Int", "Option", "R", "f", ...) and punctuation ("(", ",", "{", ":",    *)
(* "=", "->", ...).  The text it stands for has one space between tokens,  *)
(* so the whitespace normalisation " ".join(ty.strip().split()) leaves it  *)
(* unchanged, strip() of a piece is the identity, and ty.startswith(w +    *)
(* " ") holds exactly when the first token is w and another token follows. *)
(*                                                                         *)
(* A synthesized expression is a record: a literal (its text as a model    *)
(* value or a character sequence), a record literal (its field/value       *)
(* pairs in order), a tuple literal (its items), NoSample for the None the *)
(* function returns, and Overflow for the RecursionError an unbounded      *)
(* recursion raises.                                                       *)
(***************************************************************************)
EXTENDS AiviNames

CONSTANTS
    Sources,    \* the aivi sources: sequences of token lines
    Types,      \* the type texts synthesized
    Domains     \* [templates, named_literals] of the domain in scope

Opens == {"(", "[", "{"}
Closes == {")", "]", "}"}
\* Capitalized and lowercase identifier tokens.
UpperWords == {"Int", "Float", "Bool", "Text", "Char", "Unit", "Bytes", "Option",
               "List", "Map", "Set", "Delta", "R", "S", "A", "Foo"}
LowerWords == {"f", "g"}

(***************************************************************************)
(* _split_top_level_commas: one pass over the text; the depth counts open  *)
(* brackets of any kind and never drops below zero; a comma at depth zero  *)
(* ends the current piece (kept even when empty); the tail is kept only    *)
(* when non-empty.                                                         *)
(***************************************************************************)
\* Mutant: only parentheses count towards the depth.
RECURSIVE SplitParensFrom(_, _, _, _, _)
SplitParensFrom(text, i, depth, cur, parts) ==
    IF i > Len(text)
    THEN IF cur = <<>> THEN parts ELSE Append(parts, cur)
    ELSE LET ch == text[i]
             d  == IF ch = "(" THEN depth + 1
                   ELSE IF ch = ")" THEN Max({0, depth - 1})
                   ELSE depth
         IN  IF ch = "," /\ d = 0
             THEN SplitParensFrom(text, i + 1, d, <<>>, Append(parts, cur))
             ELSE SplitParensFrom(text, i + 1, d, Append(cur, ch), parts)

RECURSIVE SplitFrom(_, _, _, _, _)
SplitFrom(text, i, depth, cur, parts) ==
    IF i > Len(text)
    THEN IF cur = <<>> THEN parts ELSE Append(parts, cur)
    ELSE LET ch == text[i]
             d  == IF ch \in Opens THEN depth + 1
                   ELSE IF ch \in Closes THEN Max({0, depth - 1})
                   ELSE depth
         IN  IF ch = "," /\ d = 0
             THEN SplitFrom(text, i + 1, d, <<>>, Append(parts, cur))
             ELSE SplitFrom(text, i + 1, d, Append(cur, ch), parts)

_split_top_level_commas(text) == SplitFrom(text, 1, 0, <<>>, <<>>)

(***************************************************************************)
(* parse_record_type_aliases                                               *)
(***************************************************************************)
\* The position of the first "=" of a line, 0 when there is none.
FirstEq(l) == IF \E i \in DOMAIN l : l[i] = "="
              THEN Min({i \in DOMAIN l : l[i] = "="}) ELSE 0

\* ^\s*([A-Z][A-Za-z0-9_]*)\b[^=]*=\s*\{(.*)\}\s*$ : a capitalized name,
\* no "=" before the first "=", then "{", and "}" as the last token.
IsRecordLine(l) ==
    /\ Len(l) >= 3 /\ l[1] \in UpperWords
    /\ FirstEq(l) > 1 /\ FirstEq(l) + 1 < Len(l)
    /\ l[FirstEq(l) + 1] = "{" /\ l[Len(l)] = "}"

\* The (.*) group: everything between that "{" and the last "}".
RecordBody(l) == SubSeq(l, FirstEq(l) + 2, Len(l) - 1)

\* ^([a-z][A-Za-z0-9_]*)\s*:\s*(.+)$ on a stripped piece.
IsFieldItem(item) == Len(item) >= 3 /\ item[1] \in LowerWords /\ item[2] = ":"

\* fields[name] = ty on a dict: a new name is appended, a repeated name
\* keeps its first position and takes the later type.
AddField(fs, name, ty) ==
    IF \E k \in DOMAIN fs : fs[k][1] = name
    THEN LET k == CHOOSE j \in DOMAIN fs : fs[j][1] = name
         IN  [fs EXCEPT ![k] = <<name, ty>>]
    ELSE Append(fs, <<name, ty>>)

\* The fields of the pieces of a record body, in dict order.
FieldsOf(pieces) ==
    FoldLeft(LAMBDA fs, item : IF IsFieldItem(item)
                               THEN AddField(fs, item[1], SubSeq(item, 3, Len(item)))
                               ELSE fs,
             <<>>, pieces)

\* The record table: name |-> field sequence; the body is split on every
\* comma (body.split(",")), and a later line of a name replaces the earlier.
parse_record_type_aliases(src) ==
    FoldLeft(LAMBDA out, l : IF IsRecordLine(l)
                             THEN (l[1] :> FieldsOf(SplitOn(RecordBody(l), ","))) @@ out
                             ELSE out,
             [n \in {} |-> <<>>], src)

(***************************************************************************)
(* sample_expr_for_type                                                    *)
(***************************************************************************)
NoSample == [k |-> "none"]
Overflow == [k |-> "overflow"]
Lit(v) == [k |-> "lit", v |-> v]
RecordLit(fs) == [k |-> "rec", fields |-> fs]
TupleLit(es) == [k |-> "tup", items |-> es]

\* Mutant: the "or 'Unit'" fallback dropped.
OrUnitDropped(e) == e

\* expr or "Unit"
OrUnit(e) == IF e.k = "none" THEN Lit("Unit") ELSE e

\* The fixed literals of the primitive names.
PrimLiterals ==
    ("Int" :> "1") @@ ("Float" :> "1.0") @@ ("Bool" :> "True") @@ ("Text" :> "\"x\"")
    @@ ("Char" :> "'x'") @@ ("Unit" :> "Unit") @@ ("Bytes" :> "bytes.empty")

\* ty.startswith(w + " ")
StartsWith(ty, w) == Len(ty) >= 2 /\ ty[1] = w

HasOverflow(es) == \E k \in DOMAIN es : es[k].k = "overflow"

\* The recursion, with stack the record names whose synthesis is under
\* way: a record met again on its own stack recurses without end, and
\* Python raises RecursionError, which no caller catches.
RECURSIVE Synth(_, _, _, _)
Synth(ty, rt, dom, stack) ==
    IF Len(ty) = 1 /\ ty[1] \in DOMAIN rt
    THEN IF ty[1] \in stack THEN Overflow
         ELSE LET fs == rt[ty[1]]
                  es == [k \in DOMAIN fs |-> Synth(fs[k][2], rt, dom, stack \cup {ty[1]})]
              IN  IF HasOverflow(es) THEN Overflow
                  ELSE RecordLit([k \in DOMAIN fs |-> <<fs[k][1], OrUnit(es[k])>>])
    ELSE IF Len(ty) = 1 /\ ty[1] \in DOMAIN PrimLiterals THEN Lit(PrimLiterals[ty[1]])
    ELSE IF StartsWith(ty, "Option") THEN Lit("None")
    ELSE IF StartsWith(ty, "List") THEN Lit("[]")
    ELSE IF /\ ty # <<>> /\ ty[1] = "(" /\ ty[Len(ty)] = ")"
            /\ Len(_split_top_level_commas(SubSeq(ty, 2, Len(ty) - 1))) >= 2
    THEN LET items == _split_top_level_commas(SubSeq(ty, 2, Len(ty) - 1))
             es == [k \in DOMAIN items |-> Synth(items[k], rt, dom, stack)]
         IN  IF HasOverflow(es) THEN Overflow
             ELSE TupleLit([k \in DOMAIN es |-> OrUnit(es[k])])
    ELSE IF StartsWith(ty, "Map") THEN Lit("Map.insert \"a\" 1 Map.empty")
    ELSE IF StartsWith(ty, "Set") THEN Lit("Set.insert 1 Set.empty")
    ELSE IF ty = <<"Delta">> /\ dom.templates # <<>>
    THEN Lit(<<"2">> \o TemplateSuffix(dom.templates[1]))
    ELSE IF ty = <<"Delta">> /\ dom.named_literals # <<>>
    THEN Lit(dom.named_literals[1])
    ELSE NoSample

sample_expr_for_type(ty, record_types, dom) == Synth(ty, record_types, dom, {})

(***************************************************************************)
(* One synthesis: a source, a type and the domain in scope are chosen, and *)
(* the declaration model is built and the type synthesized in one step.    *)
(***************************************************************************)
Pending == [k |-> "pending"]

VARIABLES aivi_src, type_text, domain, result
vars == <<aivi_src, type_text, domain, result>>

Init ==
    /\ aivi_src \in Sources
    /\ type_text \in Types
    /\ domain \in Domains
    /\ result = Pending

Synthesize ==
    /\ result = Pending
    /\ result' = sample_expr_for_type(type_text, parse_record_type_aliases(aivi_src), domain)
    /\ UNCHANGED <<aivi_src, type_text, domain>>

Next == Synthesize

Spec == Init /\ [][Next]_vars

(***************************************************************************)
(* Reference definitions, written from the bracket structure of a text.    *)
(***************************************************************************)
\* The bracket depth before position i: opens minus closes, unclamped.
Depth(text, i) ==
    Cardinality({j \in 1..(i - 1) : text[j] \in Opens})
    - Cardinality({j \in 1..(i - 1) : text[j] \in Closes})

\* The pieces between the commas at depth zero, an empty last piece dropped.
TopLevelPieces(text) ==
    LET ps == SplitAt(text, {i \in DOMAIN text : text[i] = "," /\ Depth(text, i) = 0})
    IN  IF ps[Len(ps)] = <<>> THEN SubSeq(ps, 1, Len(ps) - 1) ELSE ps

\* ty is one parenthesized group: its first "(" is closed by its last ")".
IsGroup(ty) ==
    /\ Len(ty) >= 2 /\ ty[1] = "(" /\ ty[Len(ty)] = ")"
    /\ \A i \in 2..Len(ty) : Depth(ty, i) >= 1
    /\ Depth(ty, Len(ty) + 1) = 0

\* The record table the spec describes: bodies split on top-level commas.
SpecRecordAliases(s) ==
    FoldLeft(LAMBDA out, l : IF IsRecordLine(l)
                             THEN (l[1] :> FieldsOf(TopLevelPieces(RecordBody(l)))) @@ out
                             ELSE out,
             [n \in {} |-> <<>>], s)

Done == result # Pending
RecordTable == parse_record_type_aliases(aivi_src)
NamesRecord == Len(type_text) = 1 /\ type_text[1] \in DOMAIN RecordTable

(***************************************************************************)
(* Properties                                                              *)
(***************************************************************************)
\* A synthesized expression is well formed: a record literal or a tuple
\* literal holds only synthesized values, never None, because each field
\* and item falls back to the Unit placeholder (expr or 'Unit').
RECURSIVE WellFormed(_)
WellFormed(e) ==
    CASE e.k = "rec" -> \A i \in DOMAIN e.fields :
                            e.fields[i][2].k \notin {"none", "overflow"} /\ WellFormed(e.fields[i][2])
      [] e.k = "tup" -> \A i \in DOMAIN e.items :
                            e.items[i].k \notin {"none", "overflow"} /\ WellFormed(e.items[i])
      [] OTHER       -> e.k \in {"pending", "none", "overflow", "lit"}

TypeOK ==
    /\ aivi_src \in Sources /\ type_text \in Types /\ domain \in Domains
    /\ WellFormed(result)

\* Tuple splitting (spec section 8): a type that is one parenthesized group
\* is synthesized as a tuple exactly when its inside has at least two
\* pieces between commas at bracket depth zero, and then item k is the
\* synthesis of piece k; _split_top_level_commas with its clamped depth
\* must agree with the bracket structure, nested tuples and braces included.
TupleSplitsAtTopLevel ==
    (Done /\ result.k # "overflow" /\ IsGroup(type_text)) =>
        LET pieces == TopLevelPieces(SubSeq(type_text, 2, Len(type_text) - 1))
        IN  IF Len(pieces) >= 2
            THEN result = TupleLit([k \in DOMAIN pieces |->
                            OrUnit(sample_expr_for_type(pieces[k], RecordTable, domain))])
            ELSE result.k # "tup"

\* Totality (spec section 4.3: synthesize is pure and total): no type text
\* makes sample_expr_for_type recurse without end; its record branch
\* recurses into field types with no record of what is already expanded.
Totality == Done => result.k # "overflow"

\* Record round-trip (spec sections 4.2 and 8): the literal synthesized for a
\* record is the one the spec's extraction gives, which splits a record body
\* at top-level commas only; parse_record_type_aliases splits at every comma.
RecordRoundTrip ==
    (Done /\ NamesRecord) =>
        result = sample_expr_for_type(type_text, SpecRecordAliases(aivi_src), domain)

\* Tuple rule (spec section 4.3, rule 5): a tuple literal is synthesized
\* only for a parenthesized form; sample_expr_for_type looks only at the
\* first and last character of the type text.
TupleOnlyForGroups == (Done /\ result.k = "tup") => IsGroup(type_text)
=============================================================================
