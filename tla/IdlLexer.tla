------------------------------ MODULE IdlLexer ------------------------------
(***************************************************************************)
(* The Lexer of idl-lexer.ts: lex() is called for one token after the      *)
(* other until it returns undefined.  Every step reads a character with    *)
(* getc(), and some put it back with ungetc().                             *)
(*                                                                         *)
(* A text is a sequence of characters.  A lexer is a record of the text,   *)
(* the fields of the class, the tokens that lex() has returned (out) and   *)
(* where it was then (places).  Letters that only ever occur together may  *)
(* be one member of Alpha.                                                 *)
(***************************************************************************)
EXTENDS Integers, Sequences, SequencesExt, FiniteSets

CONSTANTS
    Alpha, Digit,     \* letters and digits
    Reserved          \* the words that are tokens of their own

Newline == "\n"
Blank == {" ", "\r", Newline, "\t", "vertical tab"}
AlphaNumeric == Alpha \cup Digit

Sign(c) == [type |-> "text", text |-> c]
Identifier(t) == [type |-> "identifier", text |-> t]
Word(t) == IF t \in Reserved THEN [type |-> "keyword", text |-> t] ELSE Identifier(t)

Lexer(data) ==
    [data |-> data, pos |-> 0, line |-> 1, column |-> 1, state |-> 0, text |-> <<>>,
     out |-> <<>>, places |-> <<>>]

Char(l) == l.data[l.pos + 1]

Getc(l) ==
    [l EXCEPT !.pos = @ + 1,
              !.line = IF Char(l) = Newline THEN @ + 1 ELSE @,
              !.column = IF Char(l) = Newline THEN 1 ELSE @ + 1]

\* getc() and ungetc(): behind a newline, the loop that looks for the one before
\* it finds itself.
BadGetcUngetc(l) ==                    \* leaves the line to the next getc()
    IF Char(l) = Newline THEN [l EXCEPT !.line = @ + 1, !.column = l.pos] ELSE l
GetcUngetc(l) == IF Char(l) = Newline THEN [l EXCEPT !.column = l.pos] ELSE l

\* The character is read and becomes part of the text of the token.
Goes(l, to) ==
    [Getc(l) EXCEPT !.state = to,
                    !.text = IF l.state = 0 THEN <<Char(l)>> ELSE Append(@, Char(l))]

Returns(l, token) ==
    [l EXCEPT !.out = Append(@, token), !.places = Append(@, [pos |-> l.pos, line |-> l.line])]

ReturnsFrom0(l, token) == Returns([l EXCEPT !.state = 0], token)

\* state 0
Start(l) ==
    CASE Char(l) \in Blank -> Goes(l, 0)
      [] Char(l) = "/" -> Goes(l, 3)
      [] Char(l) = "_" -> [Getc(l) EXCEPT !.state = 1, !.text = <<>>]
      [] Char(l) = ":" -> Goes(l, 7)
      [] Char(l) \in Alpha -> Goes(l, 2)
      [] OTHER -> Returns(Getc(l), Sign(Char(l)))

\* state 1
Escaped(l) ==
    IF Char(l) \in Alpha THEN Goes(l, 1) ELSE ReturnsFrom0(GetcUngetc(l), Identifier(l.text))

\* state 2
BadInWord(l) ==                        \* stops at an underscore
    IF Char(l) \in AlphaNumeric THEN Goes(l, 2) ELSE ReturnsFrom0(GetcUngetc(l), Word(l.text))
InWord(l) ==
    IF Char(l) \in AlphaNumeric \cup {"_"} THEN Goes(l, 2)
    ELSE ReturnsFrom0(GetcUngetc(l), Word(l.text))

\* state 3; a lone slash leaves the lexer in it.
AfterSlash(l) ==
    CASE Char(l) = "/" -> Goes(l, 4)
      [] Char(l) = "*" -> Goes(l, 5)
      [] OTHER -> Returns(GetcUngetc(l), Sign("/"))

\* state 4
LineComment(l) == Goes(l, IF Char(l) = Newline THEN 0 ELSE 4)

\* states 5 and 6
InComment(l) == Goes(l, IF Char(l) = "*" THEN 6 ELSE 5)
AfterStar(l) == Goes(l, CASE Char(l) = "/" -> 0 [] Char(l) = "*" -> 6 [] OTHER -> 5)

\* state 7
AfterColon(l) ==
    IF Char(l) = ":" THEN ReturnsFrom0(Getc(l), [type |-> "::", text |-> <<":", ":">>])
    ELSE ReturnsFrom0(GetcUngetc(l), Sign(":"))

LexStep(l) ==
    CASE l.state = 0 -> Start(l)
      [] l.state = 1 -> Escaped(l)
      [] l.state = 2 -> InWord(l)
      [] l.state = 3 -> AfterSlash(l)
      [] l.state = 4 -> LineComment(l)
      [] l.state = 5 -> InComment(l)
      [] l.state = 6 -> AfterStar(l)
      [] l.state = 7 -> AfterColon(l)

\* Up to the next token, or to the end of the text, where whatever has been
\* begun is dropped.
RECURSIVE lex(_)
lex(l) ==
    IF l.pos = Len(l.data) THEN l
    ELSE LET next == LexStep(l) IN IF next.out # l.out THEN next ELSE lex(next)

\* One token after the other.  A lone slash is returned again and again, which
\* ends with more tokens than there are characters.
RECURSIVE AllTokens(_)
AllTokens(l) ==
    LET next == lex(l)
    IN  IF next.out = l.out \/ Len(next.out) > Len(l.data) THEN next ELSE AllTokens(next)

Lex(data) == AllTokens(Lexer(data))
-----------------------------------------------------------------------------
(***************************************************************************)
(* The tokens of a text, by its longest prefixes.                          *)
(***************************************************************************)
Longest(s, chars) ==
    SubSeq(s, 1, CHOOSE n \in 0..Len(s) :
        /\ \A i \in 1..n : s[i] \in chars
        /\ n = Len(s) \/ s[n + 1] \notin chars)

Behind(s, n) == SubSeq(s, n + 1, Len(s))

\* What is behind the first occurrence of a sequence.
After(s, end, from) ==
    LET at == {i \in from..Len(s) - Len(end) + 1 : SubSeq(s, i, i + Len(end) - 1) = end}
    IN  IF at = {} THEN <<>>
        ELSE Behind(s, (CHOOSE i \in at : \A j \in at : i <= j) + Len(end) - 1)

RECURSIVE Tokens(_)
Tokens(s) ==
    LET two == SubSeq(s, 1, IF Len(s) < 2 THEN Len(s) ELSE 2)
        word == Longest(s, AlphaNumeric \cup {"_"})
        escaped == Longest(Tail(s), AlphaNumeric \cup {"_"})
    IN  IF s = <<>> THEN <<>>
        ELSE IF s[1] \in Blank THEN Tokens(Tail(s))
        ELSE IF two = <<"/", "/">> THEN Tokens(After(s, <<Newline>>, 3))
        ELSE IF two = <<"/", "*">> THEN Tokens(After(s, <<"*", "/">>, 3))
        ELSE IF two = <<":", ":">>
             THEN <<[type |-> "::", text |-> two]>> \o Tokens(Behind(s, 2))
        ELSE IF s[1] \in Alpha THEN <<Word(word)>> \o Tokens(Behind(s, Len(word)))
        ELSE IF s[1] = "_" THEN <<Identifier(escaped)>> \o Tokens(Behind(s, 1 + Len(escaped)))
        ELSE <<Sign(s[1])>> \o Tokens(Tail(s))
=============================================================================
