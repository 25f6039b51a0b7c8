---------------------------- MODULE MCCdrStream ----------------------------
(***************************************************************************)
(* Small instances of CdrStream for TLC.                                   *)
(***************************************************************************)
EXTENDS CdrStream

P2 == <<1, 2>>
P4 == <<1, 2, 3, 4>>
P8 == <<1, 2, 3, 4, 5, 6, 7, 8>>

TheItem(type, v) == [type |-> type, v |-> v]
TheSequence(vs, width) == [type |-> "sequence", v |-> vs, width |-> width]
TheTag(class, tag, encoding, octets) ==
    [type |-> "tag", class |-> class, tag |-> tag, encoding |-> encoding, v |-> octets]

\* One item of each width, and one of each kind that is not a number, empty and
\* not: any of them after any other.
AnyItem ==
    {TheItem("octet", 9), TheItem("number", P2), TheItem("number", P4),
     TheItem("number", P8), TheItem("string", <<65>>), TheItem("blob", <<>>),
     TheItem("octets", <<7, 8, 9>>), TheItem("floats", <<P4>>),
     TheItem("doubles", <<>>), TheItem("doubles", <<P8>>),
     TheSequence(<<P2, P2, P2>>, 2)}

\* The items an encapsulation may disturb: one of each alignment.
OneOfEachAlignment ==
    {TheItem("octet", 9), TheItem("number", P2), TheItem("doubles", <<P8>>)}

\* Numbers at the boundaries of one, two and three septets, the identifier of
\* GSSUP, one that ends in a long number, tags up to the largest short one.
Asn1Items ==
    {TheItem("asn1number", n) : n \in {0, 127, 128, 16383, 16384, 70000000}}
    \cup {TheItem("oid", o) : o \in {GSSUP, <<1, 3, 6>>, <<1, 2, 840, 113554>>}}
    \cup {TheTag(Application, t, Constructed, o) : t \in {0, 30}, o \in {<<>>, <<129, 7>>}}
    \cup {TheTag(Universal, 30, Primitive, <<129, 7>>), TheItem("number", P4)}

LongTags ==
    {TheTag(Application, t, Constructed, <<1, 2>>) : t \in {31, 127, 128, 300}}

\* Type ids, hosts and keys of every length modulo four: what follows them is
\* aligned to two and to four.
Text(n) == [i \in 1..n |-> 64 + (i % 26)]
Address(oid, host, key) == ObjectReference(Text(oid), Text(host), 2809, Text(key))

Iiop(minor, components) ==
    [tag |-> Profile.INTERNET_IOP, minor |-> minor, components |-> components]
Other == [tag |-> Profile.MULTIPLE_COMPONENTS]
Component(id, octets) == [id |-> id, octets |-> octets]
OrbType == Component(ORB_TYPE, <<0, 0, 0, 0, 0, 0, 0, 0>>)
CodeSets == Component(1, <<1, 2, 3, 4>>)

OfPeer(r, profiles) == [type |-> "peer", v |-> r, profiles |-> profiles]

\* The only profile, of either version and with no, one or two components.
SingleProfiles ==
    {<<Iiop(0, <<>>)>>, <<Iiop(1, <<>>)>>, <<Iiop(2, <<CodeSets>>)>>,
     <<Iiop(2, <<OrbType>>)>>, <<Iiop(2, <<OrbType, CodeSets>>)>>}

\* The IIOP profile first, then one or two that are not known; and one that the
\* loops happen to count right.
ManyProfiles ==
    {p \o <<Other>> : p \in SingleProfiles}
    \cup {p \o <<Other, Other>> : p \in SingleProfiles}
    \cup {<<Other, Iiop(2, <<CodeSets>>)>>}

\* References before and behind each other and small items.
References ==
    {TheItem("octet", 9), TheItem("number", P2), TheItem("nil", [oid |-> <<>>])}
    \cup {TheItem("reference", Address(13, h, h + 1)) : h \in 0..3}
    \cup {OfPeer(Address(14, 2, 3), p) : p \in SingleProfiles}

\* A reference that is alone.
AloneReferences ==
    {TheItem("reference", Address(o, h, k)) : o \in {13, 14}, h \in 0..3, k \in 1..4}
    \cup {OfPeer(Address(13, h, k), p) :
             h \in {2, 5}, k \in {3, 4}, p \in SingleProfiles \cup ManyProfiles}

Messages(items, most, depth) == [items |-> items, most |-> most, depth |-> depth]

Plans == {Messages(AnyItem, 3, 0), Messages(OneOfEachAlignment, 3, 2),
          Messages(Asn1Items, 2, 0), Messages(LongTags, 1, 0),
          Messages(References, 3, 0), Messages(AloneReferences, 1, 0)}
=============================================================================
