------------------------------ MODULE IdlTexts ------------------------------
(***************************************************************************)
(* Texts for the lexer of idl-lexer.ts and the parser of idl-parser.ts:    *)
(* somebody writes definitions one after the other, leaves out, doubles or *)
(* replaces a token, lays them out with blanks and comments, or puts all   *)
(* of them into a module behind other declarations of the same names; or   *)
(* types any characters.                                                   *)
(***************************************************************************)
EXTENDS IdlParser, IdlLexer

CONSTANTS
    Pool,          \* definitions: [text, declares, uses]
    MaxWritten,    \* bound: how many of them are written
    MaxEdited,     \* bound: how many of them are edited or laid out
    Replacement,   \* by what tokens are replaced
    Typed          \* characters that are typed

ASSUME TextsAssumption == MaxWritten \in Nat /\ MaxEdited \in Nat

VARIABLES
    written,       \* the definitions
    text,          \* the tokens
    edited,        \* of the text: "no", "edited", "laid out", "wrapped" or "typed"
    characters,    \* what was typed or laid out
    lexed,         \* the tokens, and the places behind them, that lex() returned
    parsed         \* what specification() made of it, or NotParsed

vars == <<written, text, edited, characters, lexed, parsed>>

NotLexed == [out |-> <<>>, places |-> <<>>, ended |-> FALSE]
NotParsed == [ok |-> FALSE, v |-> Leaf("not parsed")]
Outer == "Z"                         \* the module that is put around a text

\* lex() and specification().
TokensOf(chars) ==
    LET Returned(l) == [out |-> l.out, places |-> l.places, ended |-> l.pos = Len(chars)]
    IN  Returned(Lex(chars))
Outcome(p) == [ok |-> p.ok, v |-> p.v]
Result(tokens) == Outcome(specification(tokens))
-----------------------------------------------------------------------------
(***************************************************************************)
(* The text of a tree.                                                     *)
(***************************************************************************)
Separated(parts) ==
    IF parts = <<>> THEN <<>>
    ELSE parts[1] \o FlattenSeq([i \in 1..Len(parts) - 1 |-> <<",">> \o parts[i + 1]])

Keywords(type) ==
    CASE type = "long long" -> <<"long", "long">>
      [] type = "long double" -> <<"long", "double">>
      [] type = "unsigned short" -> <<"unsigned", "short">>
      [] type = "unsigned long" -> <<"unsigned", "long">>
      [] type = "unsigned long long" -> <<"unsigned", "long", "long">>
      [] OTHER -> <<type>>

Of(node, types) == SelectSeq(node.child, LAMBDA c : c.type \in types)

RECURSIVE Text(_)
Texts(nodes) == [i \in DOMAIN nodes |-> Text(nodes[i])]

Annotations(type) ==
    FlattenSeq([i \in DOMAIN Of(type, {"annotation"}) |->
        LET a == Of(type, {"annotation"})[i]
        IN  <<"@", a.text, "(">>
            \o Separated([k \in DOMAIN a.child |->
                   <<a.child[k].text, "=", a.child[k].child[1].text>>]) \o <<")">>])

\* Of a name, the first child is what its first identifier was resolved to.
TypeText(n) ==
    CASE n.type = "identifier" ->
             <<n.text>> \o FlattenSeq([i \in 1..Len(n.child) - 1 |->
                 IF n.child[i + 1].type = "annotation" THEN <<>>
                 ELSE <<"::", n.child[i + 1].text>>])
      [] n.type = "sequence" -> <<"sequence", "<">> \o Text(n.child[1]) \o <<">">>
      [] n.type \in {"struct", "union", "enum"} -> Text(n)
      [] OTHER -> Keywords(n.type)

Body(n, from) == FlattenSeq(Texts(SubSeq(n.child, from, Len(n.child))))
Optional(n) == IF n = Undefined THEN <<>> ELSE <<n.type>>

Text(n) ==
    CASE n.type \in {"struct", "exception"} -> <<n.type, n.text, "{">> \o Body(n, 1) \o <<"}">>
      [] n.type = "module" ->
             <<"module", n.text, "{">>
             \o FlattenSeq([i \in DOMAIN n.child |-> Append(Text(n.child[i]), ";")]) \o <<"}">>
      [] n.type = "enum" -> <<"enum", n.text, "{">> \o Separated(Texts(n.child)) \o <<"}">>
      [] n.type = "union" ->
             <<"union", n.text, "switch", "(">> \o TypeText(n.child[1]) \o <<")", "{">>
             \o Body(n.child[2], 1) \o <<"}">>
      [] n.type = "case" ->
             <<"case", n.child[1].text, ":">> \o TypeText(n.child[2])
             \o <<n.child[3].text, ";">>
      [] n.type = "default" -> <<"default", ":">> \o TypeText(n.child[1])
                               \o <<n.child[2].text, ";">>
      [] n.type = "typedef" -> <<"typedef">> \o TypeText(n.child[1]) \o Text(n.child[2])
      [] n.type = "native" -> <<"native", n.text>>
      [] n.type = "member" -> TypeText(n.child[1]) \o Text(n.child[2]) \o <<";">>
      [] n.type = "state_member" ->
             <<n.child[1].type>> \o TypeText(n.child[2]) \o Text(n.child[3]) \o <<";">>
      [] n.type = "declarators" -> Separated(Texts(n.child))
      [] n.type = "attribute" ->
             Optional(n.child[1]) \o <<"attribute">> \o Annotations(n.child[2])
             \o TypeText(n.child[2]) \o Text(n.child[3]) \o <<";">>
      [] n.type = "operation" ->
             Optional(n.child[1]) \o Annotations(n.child[2]) \o TypeText(n.child[2])
             \o <<n.child[3].text, "(">> \o Separated(Texts(n.child[4].child)) \o <<")">>
             \o (IF n.child[5] = Undefined THEN <<>>
                 ELSE <<"raises", "(">> \o TypeText(n.child[5].child[1]) \o <<")">>) \o <<";">>
      [] n.type = "parameter" ->
             Annotations(n.child[2]) \o <<n.child[1].type>> \o TypeText(n.child[2])
             \o <<n.child[3].text>>
      [] n.type = "interface" ->
             Optional(n.child[1]) \o <<"interface", n.text>>
             \o (IF n.child[3] = Undefined THEN <<>> ELSE <<":", n.child[3].text>>)
             \o <<"{">> \o Body(n, 4) \o <<"}">>
      [] n.type = "valuetype" ->
             <<"valuetype", n.text>>
             \o (IF n.child[1] = Undefined THEN <<>>
                 ELSE <<":">> \o Separated(Texts(n.child[1].child)))
             \o <<"{">> \o Body(n, 2) \o <<"}">>
      [] OTHER -> TypeText(n)

TextOf(tree) == FlattenSeq([i \in DOMAIN tree.child |-> Append(Text(tree.child[i]), ";")])

\* The declarations that the names in a tree were resolved to.
RECURSIVE References(_)
References(n) ==
    CASE n.type = "annotation" -> {}
      [] n.type = "identifier" -> {c \in ToSet(n.child) : c.type # "annotation"}
      [] OTHER -> (IF n.type = "case" THEN {n.child[1]} ELSE {})
                  \cup UNION {References(c) : c \in ToSet(n.child)}
-----------------------------------------------------------------------------
Init ==
    /\ written = <<>>
    /\ text = <<>>
    /\ edited = "no"
    /\ characters = <<>>
    /\ lexed = NotLexed
    /\ parsed = NotParsed

Write(d) ==
    /\ edited = "no"
    /\ Len(written) < MaxWritten
    /\ written' = Append(written, d)
    /\ text' = text \o d.text
    /\ parsed' = Result(text')
    /\ UNCHANGED <<edited, characters, lexed>>

Edit(tokens) ==
    /\ edited = "no"
    /\ Len(written) <= MaxEdited
    /\ text' = tokens
    /\ edited' = "edited"
    /\ parsed' = Result(text')
    /\ UNCHANGED <<written, characters, lexed>>

\* With a token left out, doubled or replaced.
EditedTexts ==
    {RemoveAt(text, i) : i \in DOMAIN text}
    \cup {InsertAt(text, i, text[i]) : i \in DOMAIN text}
    \cup {ReplaceAt(text, i, t) : i \in DOMAIN text, t \in Replacement}

\* A token as characters, with what is put between it and the next one: escaped
\* are the identifiers, tight the signs.
IsWord(token) == token \notin Punctuation \cup {"::"}
Spelled(token, layout) ==
    CASE token = "::" -> <<":", ":">>
      [] layout = "escaped" /\ token \in Name -> <<"_", token>>
      [] OTHER -> <<token>>
Between(token, next, layout) ==
    CASE layout = "lines" -> <<Newline>>
      [] layout = "comments" -> <<"/", "*", "*", token, Newline, "*", "/">>
      [] layout = "line comments" -> <<"/", "/", "*", token, Newline>>
      [] layout = "tight" /\ ~(IsWord(token) /\ IsWord(next)) -> <<>>
      [] OTHER -> <<" ">>
Layouts == {"lines", "comments", "line comments", "tight", "escaped"}

\* What the parser takes for the tokens the lexer returned.
Spelling(token) == IF token.type = "text" THEN token.text
                   ELSE IF token.type = "::" THEN "::" ELSE token.text[1]

LayOut(layout) ==
    /\ edited = "no"
    /\ Len(written) \in 1..MaxEdited
    /\ edited' = "laid out"
    /\ characters' = FlattenSeq([i \in DOMAIN text |->
           Spelled(text[i], layout)
           \o (IF i = Len(text) THEN <<Newline>> ELSE Between(text[i], text[i + 1], layout))])
    /\ lexed' = TokensOf(characters')
    /\ parsed' = Result([i \in DOMAIN lexed'.out |-> Spelling(lexed'.out[i])])
    /\ UNCHANGED <<written, text>>

Type(chars) ==
    /\ written = <<>>
    /\ edited = "no"
    /\ edited' = "typed"
    /\ characters' = chars
    /\ lexed' = TokensOf(chars)
    /\ UNCHANGED <<written, text, parsed>>

Declared == UNION {d.declares : d \in ToSet(written)}

\* Behind other declarations of all that it declares, inside a module.
Wrap ==
    /\ edited = "no"
    /\ parsed.ok
    /\ \A d \in ToSet(written) : d.text[1] # "native"
    /\ edited' = "wrapped"
    /\ text' = FlattenSeq([i \in 1..Cardinality(Declared) |->
                   <<"native", SetToSeq(Declared)[i], ";">>])
               \o <<"module", Outer, "{">> \o text \o <<"}", ";">>
    /\ parsed' = Result(text')
    /\ UNCHANGED <<written, characters, lexed>>

Next ==
    \/ \E d \in Pool : Write(d)
    \/ \E tokens \in EditedTexts : Edit(tokens)
    \/ \E layout \in Layouts : LayOut(layout)
    \/ Wrap
    \/ \E chars \in Typed : Type(chars)

Spec == Init /\ [][Next]_vars
-----------------------------------------------------------------------------
(***************************************************************************)
(* lex() returns the tokens of the text: keywords and identifiers as long  *)
(* as they can be, none out of a comment and none split or joined by one,  *)
(* if it comes to the end of the text at all (idl-lexer.ts:98-279).        *)
(***************************************************************************)
LexedAsWritten ==
    edited = "typed" /\ lexed.ended => lexed.out = Tokens(characters)

(***************************************************************************)
(* The line that idl.ts:223 reports behind a token is the one the lexer is *)
(* in, also after a newline was put back (idl-lexer.ts:61-86).             *)
(***************************************************************************)
LineIsRight ==
    \A i \in DOMAIN lexed.places :
        lexed.places[i].line =
            1 + Cardinality({j \in 1..lexed.places[i].pos : characters[j] = Newline})

(***************************************************************************)
(* What the definitions are written for: every name is declared before it  *)
(* is used, and once.                                                      *)
(***************************************************************************)
WellDeclared ==
    \A i \in DOMAIN written :
        LET before == UNION {written[j].declares : j \in 1..i - 1}
        IN  written[i].uses \subseteq before /\ written[i].declares \cap before = {}

(***************************************************************************)
(* Definitions of the grammar in README.IDL.txt are parsed if and only if  *)
(* their names are declared, and the tree has all of the text, in its      *)
(* order: whatever productions were tried and put their tokens back before *)
(* the right one, and however the text is laid out (idl-parser.ts:26-1530, *)
(* idl-lexer.ts:98-279).                                                   *)
(***************************************************************************)
WrittenIsParsed ==
    edited \in {"no", "laid out"} /\ written # <<>> =>
        /\ parsed.ok <=> WellDeclared
        /\ parsed.ok => TextOf(parsed.v) = text

(***************************************************************************)
(* A text that is not of the grammar is refused: what is accepted with a   *)
(* token left out, doubled or replaced is in the tree as it is in the text *)
(* (idl-parser.ts:26-1530).                                                *)
(***************************************************************************)
AcceptedAsWritten == edited = "edited" /\ parsed.ok => TextOf(parsed.v) = text

(***************************************************************************)
(* A specification means the same inside a module, whatever is declared    *)
(* around it: its names are resolved to the declarations in the module,    *)
(* not to those they hide (idl-parser.ts:227-273, 1533-1638).              *)
(***************************************************************************)
SameInModule ==
    edited = "wrapped" =>
        /\ parsed.ok
        /\ TextOf(parsed.v) = text
        /\ \A r \in References(Last(parsed.v.child)) :
               r.child # <<>> /\ r.child[1].text = Outer
=============================================================================
