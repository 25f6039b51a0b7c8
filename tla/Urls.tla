-------------------------------- MODULE Urls --------------------------------
(***************************************************************************)
(* The object URLs of url.ts: UrlParser with its UrlLexer, and toString()  *)
(* of the locations it returns.                                            *)
(*                                                                         *)
(* A text is a sequence of pieces: a character, or a word or escape that   *)
(* is only ever read as a whole.  A parser is a record of the text, the    *)
(* position in it, what was returned last (v) and whether nothing was      *)
(* thrown (ok).                                                            *)
(***************************************************************************)
EXTENDS Integers, Sequences, SequencesExt

CONSTANTS
    Digit, Word,        \* the alphanumeric pieces, digits and others
    Port,               \* digits that are not one number in a text: 2809
    Given,              \* locations somebody writes down
    Typed               \* texts somebody types

VARIABLES
    given,      \* the location that was written down, or None
    text,       \* the URL
    loc,        \* what parse() returned for it, Thrown or None
    again       \* the same for what toString() made of loc

vars == <<given, text, loc, again>>

None == [class |-> "undefined"]
Thrown == [class |-> "Error"]
Unset == <<"unset">>                     \* an undefined text

AlphaNumeric == Digit \cup Word \cup {Port}
Escape == "%2E"                          \* an escaped dot
UriPiece == AlphaNumeric \cup {Escape, "%", ";", "/", "?", ":", "@", "&", "=", "+", "$", ",",
                               "-", "_", "!", "~", "*", "|", "(", ")"}

ObjectAddress == [proto |-> "iiop", major |-> <<"1">>, minor |-> <<"0">>, host |-> <<>>,
                  port |-> <<Port>>]
-----------------------------------------------------------------------------
(***************************************************************************)
(* UrlLexer.                                                               *)
(***************************************************************************)
Parser(url) == [text |-> url, pos |-> 0, v |-> FALSE, ok |-> TRUE]

From(p, start) == SubSeq(p.text, start + 1, p.pos)

\* Goes on unless an exception has been thrown.
After(p, Then(_)) == IF p.ok THEN Then(p) ELSE p

Match(p, s) ==
    LET to == p.pos + Len(s)
    IN  IF to <= Len(p.text) /\ SubSeq(p.text, p.pos + 1, to) = s
        THEN [p EXCEPT !.pos = to, !.v = TRUE]
        ELSE [p EXCEPT !.v = FALSE]

\* Reads on while the pieces are in a set.
While(p, pieces) ==
    [p EXCEPT !.pos = CHOOSE i \in p.pos..Len(p.text) :
        /\ \A j \in p.pos + 1..i : p.text[j] \in pieces
        /\ i = Len(p.text) \/ p.text[i + 1] \notin pieces]

\* getc() behind the end returns undefined, and its class cannot be asked for.
WhileGetc(p, pieces) ==
    LET q == While(p, pieces) IN [q EXCEPT !.ok = p.ok /\ q.pos < Len(p.text)]

\* parseInt()
Parsed(digits) ==
    LET first == {i \in DOMAIN digits : digits[i] # "0"}
    IN  IF first = {} THEN <<"0">>
        ELSE SubSeq(digits, CHOOSE i \in first : \A j \in first : i <= j, Len(digits))

\* The number, or Unset and nothing read.
LexNumber(p) ==
    LET q == WhileGetc(p, Digit \cup {Port})
    IN  [q EXCEPT !.v = IF q.pos = p.pos THEN Unset ELSE Parsed(From(q, p.pos))]

\* decodeURI() throws when a percent sign begins no escape.
Uri(p) ==
    LET q == While(p, UriPiece)
        read == From(q, p.pos)
    IN  [q EXCEPT !.ok = @ /\ \A i \in DOMAIN read : read[i] # "%",
                  !.v = IF read = <<>> THEN Unset
                        ELSE [i \in DOMAIN read |-> IF read[i] = Escape THEN "." ELSE read[i]]]
-----------------------------------------------------------------------------
(***************************************************************************)
(* UrlParser.  Versions and hosts are put into the address a.              *)
(***************************************************************************)
BadBack(p, start) == p                 \* does not go back
Back(p, start) == [p EXCEPT !.pos = start.pos]

\* The number before a sign, or Unset.
Before(p, sign) ==
    IF p.ok /\ p.v # Unset /\ Match(p, sign).v THEN [p EXCEPT !.pos = @ + Len(sign)]
    ELSE [p EXCEPT !.v = Unset]

Version(p, a) ==
    LET No(q) == [Back(q, p) EXCEPT !.v = a]
        Versioned(q, major) ==
            IF q.v = Unset THEN No(q)
            ELSE [q EXCEPT !.v = [a EXCEPT !.major = major, !.minor = q.v]]
        Minor(q) ==
            IF q.v = Unset THEN No(q) ELSE Versioned(Before(LexNumber(q), <<"@">>), q.v)
    IN  Minor(Before(LexNumber(p), <<".">>))

Label(p) ==
    IF p.pos < Len(p.text) /\ p.text[p.pos + 1] \notin AlphaNumeric THEN p
    ELSE WhileGetc(p, AlphaNumeric \cup {"-"})

RECURSIVE Labels(_)
Labels(p) ==
    After(Label(p), LAMBDA q :
        LET dot == Match(q, <<".">>) IN IF dot.v THEN Labels(dot) ELSE dot)

Host(p, a) ==
    LET closing == {i \in p.pos + 1..Len(p.text) : p.text[i] = "]"}
        Hosted(q) == [q EXCEPT !.v = [a EXCEPT !.host = From(q, p.pos)]]
    IN  Hosted(IF ~Match(p, <<"[">>).v THEN Labels(p)
               ELSE IF closing = {} THEN [p EXCEPT !.ok = FALSE]
               ELSE [p EXCEPT !.pos = CHOOSE i \in closing : \A j \in closing : i <= j])

PortOf(p, a) ==
    LET colon == Match(p, <<":">>)
        Ported(q) == [q EXCEPT !.ok = @ /\ q.v # Unset, !.v = [a EXCEPT !.port = q.v]]
    IN  IF colon.v THEN Ported(LexNumber(colon)) ELSE [p EXCEPT !.v = a]

IiopAddr(p) ==
    After(After(Version(p, ObjectAddress), LAMBDA q : Host(q, q.v)),
          LAMBDA q : PortOf(q, q.v))

\* An address of neither kind is the default one, and nothing is read.
ObjAddr(p) ==
    LET rir == Match(p, <<"rir", ":">>)
        iiop == Match(p, <<"iiop", ":">>)
        colon == Match(p, <<":">>)
    IN  IF rir.v THEN [rir EXCEPT !.v = [ObjectAddress EXCEPT !.proto = "rir"]]
        ELSE IF iiop.v \/ colon.v THEN IiopAddr(IF iiop.v THEN iiop ELSE colon)
        ELSE [p EXCEPT !.v = ObjectAddress]

RECURSIVE ObjAddrList(_, _)
ObjAddrList(p, addr) ==
    After(ObjAddr(p), LAMBDA q :
        LET comma == Match(q, <<",">>)
            all == Append(addr, q.v)
        IN  IF comma.v THEN ObjAddrList(comma, all) ELSE [q EXCEPT !.v = all])

Corbaloc(p, location) ==
    LET Keyed(q, l) == [q EXCEPT !.v = [l EXCEPT !.key = q.v]]
    IN  After(ObjAddrList(p, <<>>), LAMBDA list :
            LET slash == Match(list, <<"/">>)
                l == [location EXCEPT !.addr = list.v]
            IN  IF slash.v THEN Keyed(Uri(slash), l) ELSE [list EXCEPT !.v = l])

CorbaLocation == [class |-> "CorbaLocation", addr |-> <<>>, key |-> Unset, name |-> <<>>]
CorbaName == [CorbaLocation EXCEPT !.class = "CorbaName", !.key = <<"NameService">>]

Corbaname(p) ==
    LET Called(q, l) ==
            [q EXCEPT !.v = [l EXCEPT !.name = IF q.v = Unset THEN @ ELSE q.v]]
    IN  After(Corbaloc(p, CorbaName), LAMBDA l :
            LET hash == Match(l, <<"#">>)
            IN  IF hash.v THEN Called(Uri(hash), l.v) ELSE l)

\* What is behind the location is left unread.  An IOR is taken as a whole.
Parse(url) ==
    LET loca == Match(Parser(url), <<"corbaloc", ":">>)
        name == Match(Parser(url), <<"corbaname", ":">>)
        Result(p) == IF p.ok THEN p.v ELSE Thrown
    IN  IF Match(Parser(url), <<"IOR", ":">>).v THEN [class |-> "IOR"]
        ELSE IF loca.v THEN Result(Corbaloc(loca, CorbaLocation))
        ELSE IF name.v THEN Result(Corbaname(name))
        ELSE Thrown
-----------------------------------------------------------------------------
\* toString()
AddressToString(a) ==
    IF a.proto = "rir" THEN <<"rir", ":">>
    ELSE <<"iiop", ":">> \o a.major \o <<".">> \o a.minor \o <<"@">> \o a.host
         \o <<":">> \o a.port

BadLocationToString(l) ==                      \* separates the addresses like keys
    FlattenSeq(<<IF l.class = "CorbaName" THEN <<"corbaname", ":">> ELSE <<"corbaloc", ":">>,
                 AddressToString(l.addr[1]),
                 FlattenSeq([i \in 1..Len(l.addr) - 1 |->
                     <<"/">> \o AddressToString(l.addr[i + 1])]),
                 IF l.key = Unset THEN <<>> ELSE <<"/">> \o l.key,
                 IF l.class = "CorbaName" THEN <<"#">> \o l.name ELSE <<>>>>)
LocationToString(l) ==
    FlattenSeq(<<IF l.class = "CorbaName" THEN <<"corbaname", ":">> ELSE <<"corbaloc", ":">>,
                 AddressToString(l.addr[1]),
                 FlattenSeq([i \in 1..Len(l.addr) - 1 |->
                     <<",">> \o AddressToString(l.addr[i + 1])]),
                 IF l.key = Unset THEN <<>> ELSE <<"/">> \o l.key,
                 IF l.class = "CorbaName" THEN <<"#">> \o l.name ELSE <<>>>>)
-----------------------------------------------------------------------------
(***************************************************************************)
(* A location as somebody writes it down: a sequence of addresses without  *)
(* or with version and port, a key and a name, and what it means.          *)
(***************************************************************************)
WrittenAddress(a) ==
    CASE a.proto = "rir" -> <<"rir", ":">>
      [] a.proto = "iiop" ->
             (IF a.short THEN <<":">> ELSE <<"iiop", ":">>)
             \o (IF a.version = Unset THEN <<>>
                 ELSE <<a.version[1], ".", a.version[2], "@">>)
             \o a.host
             \o (IF a.port = Unset THEN <<>> ELSE <<":">> \o a.port)

Written(g) ==
    FlattenSeq(<<IF g.name = Unset THEN <<"corbaloc", ":">> ELSE <<"corbaname", ":">>,
                 WrittenAddress(g.addr[1]),
                 FlattenSeq([i \in 1..Len(g.addr) - 1 |->
                     <<",">> \o WrittenAddress(g.addr[i + 1])]),
                 IF g.key = Unset THEN <<>> ELSE <<"/">> \o g.key,
                 IF g.name = Unset THEN <<>> ELSE <<"#">> \o g.name>>)

MeantAddress(a) ==
    IF a.proto = "rir" THEN [ObjectAddress EXCEPT !.proto = "rir"]
    ELSE [ObjectAddress EXCEPT
              !.major = IF a.version = Unset THEN @ ELSE <<a.version[1]>>,
              !.minor = IF a.version = Unset THEN @ ELSE <<a.version[2]>>,
              !.host = a.host,
              !.port = IF a.port = Unset THEN @ ELSE a.port]

Unescaped(s) == [i \in DOMAIN s |-> IF s[i] = Escape THEN "." ELSE s[i]]

Meant(g) ==
    [class |-> IF g.name = Unset THEN "CorbaLocation" ELSE "CorbaName",
     addr |-> [i \in DOMAIN g.addr |-> MeantAddress(g.addr[i])],
     key |-> IF g.key # Unset THEN Unescaped(g.key)
             ELSE IF g.name = Unset THEN Unset ELSE <<"NameService">>,
     name |-> IF g.name = Unset THEN <<>> ELSE Unescaped(g.name)]

\* The text ends in a host or a number.
EndsInAddress(g) ==
    /\ g.name = Unset
    /\ g.key = Unset
    /\ LET a == Last(g.addr)
       IN  a.proto = "iiop" /\ (a.port # Unset \/ Last(a.host) # "]")
-----------------------------------------------------------------------------
Init ==
    /\ given = None
    /\ text = <<>>
    /\ loc = None
    /\ again = None

WriteDown(g) ==
    /\ text = <<>>
    /\ given' = [class |-> "given", g |-> g]
    /\ text' = Written(g)
    /\ UNCHANGED <<loc, again>>

Type(t) ==
    /\ text = <<>>
    /\ text' = t
    /\ UNCHANGED <<given, loc, again>>

ParseText ==
    /\ text # <<>>
    /\ loc = None
    /\ loc' = Parse(text)
    /\ UNCHANGED <<given, text, again>>

ParseString ==
    /\ loc.class \in {"CorbaLocation", "CorbaName"}
    /\ again = None
    /\ again' = Parse(LocationToString(loc))
    /\ UNCHANGED <<given, text, loc>>

Next ==
    \/ \E g \in Given : WriteDown(g)
    \/ \E t \in Typed : Type(t)
    \/ ParseText
    \/ ParseString

Spec == Init /\ [][Next]_vars
-----------------------------------------------------------------------------
(***************************************************************************)
(* A location is parsed to what it means, whichever of its optional parts  *)
(* are there and however much of a host looks like a version; it is        *)
(* refused only when the text ends in a host or a number, since getc()     *)
(* runs behind its end (url.ts:79-316).                                    *)
(***************************************************************************)
WrittenIsParsed ==
    given # None /\ loc # None =>
        loc = IF EndsInAddress(given.g) THEN Thrown ELSE Meant(given.g)

(***************************************************************************)
(* What toString() makes of a location without escaped characters is       *)
(* parsed to the same location, but for a missing key: of a CorbaName it   *)
(* becomes the key of the name service, and a CorbaLocation that ends with *)
(* an IIOP address is refused (url.ts:21-65, 79-316).                      *)
(***************************************************************************)
StringIsParsed ==
    again # None /\ Range(text) \cap {Escape} = {} =>
        again = IF loc.key # Unset THEN loc
                ELSE IF loc.class = "CorbaName" THEN [loc EXCEPT !.key = CorbaName.key]
                ELSE IF Last(loc.addr).proto = "iiop" THEN Thrown ELSE loc
=============================================================================
