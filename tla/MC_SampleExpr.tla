---------------------------- MODULE MC_SampleExpr ----------------------------
(***************************************************************************)
(* Model-checking instance of SampleExpr: a handful of record declarations *)
(* in the stdlib style, every short token text over the tokens the rules   *)
(* look at, a few longer composite types, and three domains in scope.      *)
(***************************************************************************)
EXTENDS SampleExpr

\* Record lines (tokens as written, one space between tokens).
\* R = { f : Int , g : ( Int , Bool ) }     a tuple-typed field
RecTuple == <<"R", "=", "{", "f", ":", "Int", ",", "g", ":", "(", "Int", ",", "Bool", ")", "}">>
\* R = { f : Int , f : Text , g : S }       a repeated field, a nested record
RecDup == <<"R", "=", "{", "f", ":", "Int", ",", "f", ":", "Text", ",", "g", ":", "S", "}">>
\* S A = { f : Option R , g : List S }      parameters, self-reference under Option/List
RecParam == <<"S", "A", "=", "{", "f", ":", "Option", "R", ",", "g", ":", "List", "S", "}">>
\* S = { f : Int , g : R }                  with RecDup: R and S contain each other
RecCycle == <<"S", "=", "{", "f", ":", "Int", ",", "g", ":", "R", "}">>
\* R = { }                                   an empty record
RecEmpty == <<"R", "=", "{", "}">>
\* Foo = Int                                 an alias, not a record
AliasFoo == <<"Foo", "=", "Int">>

MC_Sources == {<<>>, <<RecTuple, RecParam>>, <<RecDup, RecParam>>,
               <<RecEmpty, RecDup, AliasFoo>>, <<RecTuple, RecDup>>, <<RecDup, RecCycle>>}

\* Every text of one to three tokens over the tokens the rules test.
ShortToks == {"Int", "R", "(", ")", ",", "Option", "Delta"}
ShortTypes == UNION {[1..n -> ShortToks] : n \in 1..3}

\* Longer types: nested tuples, braces inside a tuple, empty and missing
\* pieces, a function type, the collection prefixes.
LongTypes ==
    { <<"(", "Int", ",", "(", "Bool", ",", "Text", ")", ")">>,
      <<"(", "R", ",", "S", ")">>,
      <<"(", "{", "f", ":", "Int", ",", "g", ":", "Int", "}", ",", "Int", ")">>,
      <<"(", "Int", ",", "Bool", ")", "->", "(", "Int", ",", "Bool", ")">>,
      <<"(", ",", "Int", ")">>, <<"(", "Int", ",", ")">>, <<"(", "Int", ")">>,
      <<"Map", "Text", "Int">>, <<"Set", "Int">>, <<"List", "R">>, <<"S">>, <<"Foo">> }

MC_Types == ShortTypes \cup LongTypes

MC_Domains ==
    { [templates |-> <<>>, named_literals |-> <<>>],
      [templates |-> <<<<"1", "m", "s">>, <<"1", "d", "e", "c">>>>, named_literals |-> <<>>],
      [templates |-> <<>>, named_literals |-> <<<<"o", "n", "e">>>>] }
=============================================================================
