-------------------------------- MODULE Asn1 --------------------------------
(***************************************************************************)
(* The part of ASN.1's encoding that corba.js uses for the GSS token of    *)
(* CSIv2 authentication: numbers, tags and object identifiers, as written  *)
(* by GIOPEncoder and read by GIOPDecoder.                                 *)
(***************************************************************************)
EXTENDS Cdr

Primitive == 0
Constructed == 1

Universal == 0
Application == 1

OID == 6      \* ASN1UniversalTag.OID

GSSUP == <<2, 23, 130, 1, 1, 1>>

\* One octet after the other.
PutOctets(enc, octets) == Put(ReserveVarying(enc, 1, Len(octets)), octets)

\* n in septets, from the most significant on; all but the last are marked.
Septets(n) ==
    LET weight == <<1, 128, 16384, 2097152, 268435456>>
        k == CHOOSE k \in 1..5 : (k = 1 \/ n >= weight[k]) /\ (k = 5 \/ n < weight[k + 1])
    IN  [i \in 1..k |-> ((n \div weight[k - i + 1]) % 128) + (IF i < k THEN 128 ELSE 0)]

PutAsn1Number(enc, n) == PutOctets(enc, Septets(n))

\* The content is encoded by an encoder of its own.
PutAsn1Tag(enc, class, tag, encoding, Sub(_)) ==
    LET c == class * 64 + encoding * 32
        tagged == IF tag < 31 THEN PutOctet(enc, c + tag)
                  ELSE PutAsn1Number(PutOctet(enc, c + 31), tag)
        content == Sub(Encoder(enc.little))
    IN  PutOctets(PutAsn1Number(tagged, content.offset),
                  Slice(content, 0, content.offset))

PutAsn1Oid(enc, oid) ==
    FoldLeft(PutAsn1Number, PutOctet(enc, oid[1] * 40 + oid[2]), SubSeq(oid, 3, Len(oid)))
-----------------------------------------------------------------------------
\* How many octets from the current one on, up to the first that passes Test.
UpTo(dec, Test(_)) ==
    LET rest == Slice(dec, dec.offset, Len(dec.bytes))
    IN  SelectInSeq(rest, Test)

\* Reads n octets; 0 stands for an end that is not in the buffer.
GetOctets(dec, n) ==
    IF n = 0 \/ dec.offset + n > Len(dec.bytes) THEN Throw(dec)
    ELSE Return([dec EXCEPT !.offset = @ + n], Slice(dec, dec.offset, n))

\* The number in the lower seven bits of some octets.
OfSeptets(octets) == FoldLeft(LAMBDA n, o : n * 128 + (o % 128), 0, octets)

GetAsn1Number(dec) ==
    After(GetOctets(dec, UpTo(dec, LAMBDA o : o < 128)),
          LAMBDA d : Instead(d, OfSeptets(Value(d))))

\* The second state of asn1tag(): it is left at an octet that is marked.
GetLongTag(dec) ==
    After(GetOctets(dec, UpTo(dec, LAMBDA o : o >= 128)),
          LAMBDA d : Instead(d, OfSeptets(Value(d))))

\* The last four octets are those of a long.
LongOf(octets) ==
    SignedNumber(SubSeq(<<0, 0, 0, 0>> \o octets, Len(octets) + 1, Len(octets) + 4))

\* The third and fourth state: one octet, or the number of octets that follow.
GetAsn1Length(dec) ==
    After(GetOctets(dec, 1), LAMBDA c :
        LET o == Value(c)[1]
        IN  IF o < 128 THEN Instead(c, o)
            ELSE After(GetOctets([c EXCEPT !.got = Front(@)], o - 128),
                       LAMBDA d : Instead(d, LongOf(Value(d)))))

GetAsn1Tag(dec) ==
    After(GetOctets(dec, 1), LAMBDA c :
    LET o == Value(c)[1]
    IN  After(IF o % 32 = 31 THEN GetLongTag(c) ELSE Return(c, o % 32), LAMBDA t :
        After(GetAsn1Length(t), LAMBDA l :
            Return([l EXCEPT !.got = dec.got],
                   [class |-> o \div 64, encoding |-> (o \div 32) % 2,
                    tag |-> Value(t), length |-> Value(l)]))))

\* The numbers an object identifier is encoded as.
OidOf(octets) ==
    LET Next(s, o) == IF o >= 128 THEN [s EXCEPT !.akku = @ * 128 + (o % 128)]
                      ELSE [oid |-> Append(s.oid, s.akku * 128 + o), akku |-> 0]
        first == octets[1]
    IN  FoldLeft(Next, [oid |-> <<first \div 40, first % 40>>, akku |-> 0],
                 Tail(octets)).oid

GetAsn1Oid(dec, len) ==
    IF len <= 0 THEN Return(dec, <<>>)
    ELSE After(GetOctets(dec, len), LAMBDA d : Instead(d, OidOf(Value(d))))

IsTag(t, class, tag, encoding) ==
    t.class = class /\ t.tag = tag /\ t.encoding = encoding

\* Whether the expected tag, and the expected object identifier, comes next.
Asn1Expect(dec, class, tag, encoding) ==
    After(GetAsn1Tag(dec), LAMBDA d : Instead(d, IsTag(Value(d), class, tag, encoding)))

Asn1ExpectOid(dec, oid) ==
    After(GetAsn1Tag(dec), LAMBDA d :
        IF ~IsTag(Value(d), Universal, OID, Primitive) THEN Instead(d, FALSE)
        ELSE After(GetAsn1Oid([d EXCEPT !.got = dec.got], Value(d).length),
                   LAMBDA o : Instead(o, Value(o) = oid)))
=============================================================================
