----------------------------- MODULE AiviDecls -----------------------------
(***************************************************************************)
(* SourceExtractor and DeclarationParser of                                *)
(* scripts/gen_integration_tests.py, as operators over an abstract host    *)
(* file.                                                                   *)
(*                                                                         *)
(* The embedded aivi source is a sequence of lines.  A line is a record    *)
(* that keeps what the line-oriented regular expressions of the parser     *)
(* look at: the shape the line has (kind), the identifier a pattern        *)
(* captures (name), the comma-separated tokens of an export line before    *)
(* its "//" comment (items), the alternatives of a "|" declaration (alts), *)
(* and the number of "{" and "}" characters on the line (opens, closes).   *)
(* Line kinds:                                                             *)
(*   "export"  a line whose strip() starts with "export "                  *)
(*   "class"   class Name ...                                              *)
(*   "typedef" Name params = ...   (an alias or a record, no "|")           *)
(*   "adt"     Name = A | B x | ...                                        *)
(*   "domain"  domain Name over Carrier = {                                *)
(*   "opsig"   (op) : signature                                            *)
(*   "tpl"     1ms = ...            (a digit-prefixed suffix template)     *)
(*   "lit"     name = Ctor ...      (lowercase name bound to Ctor ...)     *)
(*   "other"   anything else (bodies, comments, closing braces, ...)       *)
(***************************************************************************)
EXTENDS AiviNames

Kinds == {"export", "class", "typedef", "adt", "domain", "opsig", "tpl", "lit", "other"}

\* One line; unused fields keep their empty defaults.
Line(kind, name, items, alts, opens, closes) ==
    [kind |-> kind, name |-> name, items |-> items, alts |-> alts,
     opens |-> opens, closes |-> closes]

\* A host (Rust) file: its name, whether it holds the MODULE_NAME line
\* (then module is the quoted name), whether it holds the SOURCE opening
\* marker and the '"#;' terminator after it, and the lines between them.
HostFile(name, hasName, module, hasMarker, hasTerminator, src) ==
    [name |-> name, hasName |-> hasName, module |-> module,
     hasMarker |-> hasMarker, hasTerminator |-> hasTerminator, src |-> src]

(***************************************************************************)
(* SourceExtractor: parse_module_name and parse_aivi_source raise          *)
(* ValueError when a marker is missing.                                    *)
(***************************************************************************)
\* The error parse_module_name then parse_aivi_source raise, or "none".
ExtractError(f) ==
    CASE ~f.hasName       -> "missing MODULE_NAME"
      [] ~f.hasMarker     -> "missing SOURCE marker"
      [] ~f.hasTerminator -> "missing SOURCE terminator"
      [] OTHER            -> "none"

(***************************************************************************)
(* DeclarationParser                                                       *)
(***************************************************************************)
\* split_exports: the non-empty stripped comma-separated tokens of every
\* export line, in source order, duplicates kept.
split_exports(src) ==
    LET tokens == FlattenSeq([i \in DOMAIN src |->
                     IF src[i].kind = "export" THEN src[i].items ELSE <<>>])
    IN  SelectSeq([k \in DOMAIN tokens |-> StripBy(tokens[k], {" "})],
                  LAMBDA t : t # <<>>)

\* parse_class_defs: ^\s*class\s+([A-Z][A-Za-z0-9_]*)\b
parse_class_defs(src) ==
    {src[i].name : i \in {j \in DOMAIN src : src[j].kind = "class"
                                               /\ IsUpperName(src[j].name)}}

\* parse_type_defs: ^\s*([A-Z][A-Za-z0-9_]*)\b.*=  (aliases, records, ADTs)
parse_type_defs(src) ==
    {src[i].name : i \in {j \in DOMAIN src : src[j].kind \in {"typedef", "adt"}
                                               /\ IsUpperName(src[j].name)}}

\* The pattern r"^([A-Z][A-Za-z0-9_]*)\\b.*=\\s*(.+)$" of parse_ctor_exports
\* is a raw string, so "\\b" and "\\s" stand for a literal backslash
\* followed by "b" or "s".  It matches only a line with a backslash right
\* after its leading identifier; no line of the alphabet has a backslash.
CtorPatternMatches(l) == l.kind = "adt" /\ "\\" \in Range(l.name)

\* parse_ctor_exports: the capitalized heads of the alternatives of every
\* line containing "|" and "=" that matches the pattern above.
parse_ctor_exports(src) ==
    UNION {{src[i].alts[k] : k \in {a \in DOMAIN src[i].alts : IsUpperName(src[i].alts[a])}} :
              i \in {j \in DOMAIN src : CtorPatternMatches(src[j])}}

\* The block scan of parse_domain_defs, from line i at brace depth brace,
\* with block the lines kept so far (depth > 0 once the line's braces are
\* counted): next is the index after the loop, block all lines kept.
RECURSIVE ScanBlock(_, _, _, _)
ScanBlock(src, i, brace, block) ==
    IF i > Len(src) \/ brace <= 0
    THEN [next |-> i, block |-> block]
    ELSE LET b == brace + src[i].opens - src[i].closes
         IN  ScanBlock(src, i + 1, b, IF b > 0 THEN Append(block, src[i]) ELSE block)

\* DomainDef of a header and its block: operators, templates and named
\* literals in block order (first matching pattern wins).
DomainDef(header, block) ==
    LET names(k) == [j \in DOMAIN SelectSeq(block, LAMBDA l : l.kind = k) |->
                        SelectSeq(block, LAMBDA l : l.kind = k)[j].name]
    IN  [name |-> header.name, operators |-> names("opsig"),
         templates |-> names("tpl"), named_literals |-> names("lit")]

\* parse_domain_defs: scan for headers; each header's block runs until the
\* brace depth, starting at 1, drops to 0 or the source ends.
RECURSIVE DomainsFrom(_, _)
DomainsFrom(src, i) ==
    IF i > Len(src) THEN <<>>
    ELSE IF src[i].kind # "domain" THEN DomainsFrom(src, i + 1)
    ELSE LET r == ScanBlock(src, i + 1, 1, <<>>)
         IN  <<DomainDef(src[i], r.block)>> \o DomainsFrom(src, r.next)

parse_domain_defs(src) == DomainsFrom(src, 1)
=============================================================================
