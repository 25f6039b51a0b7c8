----------------------------- MODULE MCIdlTexts -----------------------------
(***************************************************************************)
(* Small instances of IdlTexts for TLC.                                    *)
(***************************************************************************)
EXTENDS IdlTexts

Names == {"A", "B", "E", "R", "G", "U", "X", "Y", "I", "J", "K", "V", "W", "M", "L", "N", "S", "T",
          "a", "b", "c", "f", "Z"}

Definition(declares, uses, tokens) == [declares |-> declares, uses |-> uses, text |-> tokens]

Struct == Definition({"A"}, {},
    <<"struct", "A", "{", "long", "long", "a", ",", "b", ";",
      "sequence", "<", "wstring", ">", "c", ";", "}", ";">>)
Enum == Definition({"E", "R", "G"}, {}, <<"enum", "E", "{", "R", ",", "G", "}", ";">>)
Union == Definition({"U"}, {"E", "R", "A"},
    <<"union", "U", "switch", "(", "E", ")", "{", "case", "R", ":", "A", "a", ";",
      "default", ":", "unsigned", "long", "b", ";", "}", ";">>)
BooleanUnion == Definition({"B"}, {}, <<"union", "B", "switch", "(", "boolean", ")", "{", "}", ";">>)
EnumUnion == Definition({"B", "E", "R", "G"}, {},
    <<"union", "B", "switch", "(", "enum", "E", "{", "G", ",", "R", "}", ")", "{",
      "case", "G", ":", "octet", "a", ";", "}", ";">>)
Typedef == Definition({"T", "W"}, {"A"}, <<"typedef", "A", "T", ",", "W", ";">>)
TypedefStruct == Definition({"S", "T"}, {},
    <<"typedef", "struct", "S", "{", "long", "double", "a", ";", "}", "T", ";">>)
Exception == Definition({"X"}, {"T"}, <<"exception", "X", "{", "T", "a", ";", "}", ";">>)
EmptyException == Definition({"X"}, {}, <<"exception", "X", "{", "}", ";">>)
Interface == Definition({"I"}, {"A", "X"},
    <<"interface", "I", "{", "readonly", "attribute", "A", "a", ",", "b", ";",
      "oneway", "void", "f", "(", "inout", "A", "a", ")", "raises", "(", "X", ")", ";", "}", ";">>)
Derived == Definition({"J"}, {"I"},
    <<"local", "interface", "J", ":", "I", "{", "attribute", "unsigned", "long", "long", "a", ";",
      "long", "long", "f", "(", ")", ";", "I", "c", "(", ")", ";", "}", ";">>)
AnnotatedInterface == Definition({"K"}, {},
    <<"abstract", "interface", "K", "{", "@", "c", "(", "a", "=", "b", ")", "string", "f", "(",
      "@", "c", "(", "a", "=", "b", ",", "f", "=", "c", ")", "in", "short", "a", ")", ";", "}", ";">>)
Valuetype == Definition({"V"}, {},
    <<"valuetype", "V", "{", "public", "V", "a", ";", "any", "f", "(", "in", "V", "b", ")", ";",
      "private", "sequence", "<", "sequence", "<", "char", ">", ">", "b", ",", "c", ";", "}", ";">>)
DerivedValue == Definition({"W"}, {"V"}, <<"valuetype", "W", ":", "V", "{", "}", ";">>)
RecursiveStruct == Definition({"S"}, {"S"}, <<"struct", "S", "{", "S", "a", ";", "}", ";">>)
RecursiveBase == Definition({"W"}, {"W"}, <<"valuetype", "W", ":", "W", "{", "}", ";">>)
Module == Definition({"M"}, {},
    <<"module", "M", "{", "valuetype", "V", "{", "}", ";",
      "module", "L", "{", "interface", "K", ":", "V", "{", "V", "f", "(", ")", ";", "}", ";", "}", ";",
      "struct", "A", "{", "V", "a", ";", "L", "::", "K", "b", ";", "}", ";", "}", ";">>)
Qualified == Definition({"N"}, {"M"},
    <<"interface", "N", "{", "M", "::", "V", "f", "(", "out", "M", "::", "L", "::", "K", "a", ")",
      ";", "}", ";">>)
Native == Definition({"A"}, {}, <<"native", "A", ";">>)

AllDefinitions ==
    {Struct, Enum, Union, BooleanUnion, EnumUnion, Typedef, TypedefStruct, Exception,
     EmptyException, Interface, Derived, AnnotatedInterface, Valuetype, DerivedValue, RecursiveStruct,
     RecursiveBase, Module, Qualified, Native}

SomeTokens == {"A", "long", "::"}

Keywords_ == {t \in UNION {ToSet(d.text) : d \in AllDefinitions} :
                 t \notin Names \cup Punctuation \cup {"::"}}
ReservedWords == {<<t>> : t \in Keywords_ \cup {"native", "module"}} \cup {<<"k">>}
Letters == {"k", "z"} \cup {w[1] : w \in ReservedWords} \cup Names
Digits == {"1"}

Characters == {"k", "1", "_", "/", "*", ":", " ", "\n"}

\* Nowhere a slash without its comment: after a comment is cut out of the text
\* none is left.  A comment that is not ended may have any.
RECURSIVE LoneSlash(_)
LoneSlash(s) ==
    LET two == SubSeq(s, 1, IF Len(s) < 2 THEN Len(s) ELSE 2)
    IN  IF s = <<>> THEN FALSE
        ELSE IF two = <<"/", "/">> THEN LoneSlash(After(s, <<"\n">>, 3))
        ELSE IF two = <<"/", "*">> THEN LoneSlash(After(s, <<"*", "/">>, 3))
        ELSE s[1] = "/" \/ LoneSlash(Tail(s))

\* Texts that end with a blank, and that escape no more than letters; two with a
\* lone slash, whose end the lexer does not reach.
PlainTexts == {Append(s, "\n") : s \in {t \in BoundedSeq(Characters \ {"_"}, 4) : ~LoneSlash(t)}}
              \cup {s \o <<"_", "k", " ">> : s \in {<<>>, <<":">>, <<"1">>}}
              \cup {<<"k", "_">> \o s \o <<" ">> : s \in {<<>>, <<"k">>, <<"1">>, <<"1", "_", ":">>}}
              \cup {<<"/", "*", "*", "*", "/">> \o s \o <<" ">> :
                        s \in {t \in BoundedSeq(Characters \ {"_"}, 2) : ~LoneSlash(t)}}
              \cup {<<"k", "/", "\n">>, <<"/", "k">>}
=============================================================================
