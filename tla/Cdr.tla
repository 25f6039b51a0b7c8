--------------------------------- MODULE Cdr ---------------------------------
(***************************************************************************)
(* The Common Data Representation of giop.ts: the buffer of a GIOPEncoder, *)
(* its primitive operations, and the operations of a GIOPDecoder.          *)
(*                                                                         *)
(* A number of the wire is its bit pattern, the octets from the most       *)
(* significant on; a text is the sequence of its octets.  An encoder and a *)
(* decoder are records, an operation of theirs is an operator from the     *)
(* record before to the record after.  What a decoder's operation returns  *)
(* is appended to its field got; an exception clears its field ok.         *)
(***************************************************************************)
EXTENDS Integers, Sequences, SequencesExt

CONSTANT InitialSize   \* octets of a new encoder's buffer

ASSUME InitialSizeAssumption == InitialSize \in Nat \ {0}

Octet == 0..255
UnsignedShort == {n \in Nat : n < 65536}
Word(width) == {p \in Seq(Octet) : Len(p) = width}

\* The octets of a number below 2^31, and the number of an unsigned pattern.
Weight == <<16777216, 65536, 256, 1>>
Pattern(n, width) == [i \in 1..width |-> (n \div Weight[4 - width + i]) % 256]
Number(p) == FoldLeft(LAMBDA n, o : n * 256 + o, 0, p)

\* The two's complement of long.
Complement(p) == [i \in DOMAIN p |-> 255 - p[i]]
Signed(n) == IF n >= 0 THEN Pattern(n, 4) ELSE Complement(Pattern(-n - 1, 4))
SignedNumber(p) == IF p[1] < 128 THEN Number(p) ELSE -Number(Complement(p)) - 1

InOrder(p, little) == IF little THEN Reverse(p) ELSE p

\* The patterns of a Float32Array or Float64Array, one after the other.
Elements(vs, little) ==
    FoldLeft(LAMBDA all, v : all \o InOrder(v, little), <<>>, vs)
-----------------------------------------------------------------------------
(***************************************************************************)
(* The encoder.  Its byte order is the one of the platform.                *)
(***************************************************************************)
Encoder(little) ==
    [offset |-> 0, bytes |-> [i \in 1..InitialSize |-> 0], sizeStack |-> <<>>,
     little |-> little]

\* The next multiple of n that is not below offset.
Aligned(offset, n) ==
    IF offset % n = 0 THEN offset ELSE (offset \div n + 1) * n

Enlarged(bytes, size) == bytes \o [i \in 1..size - Len(bytes) |-> 0]

\* The first doubling of size that is more than need octets.
Doubled(size, need) ==
    LET grown[n \in Nat \ {0}] == IF n > need THEN n ELSE grown[2 * n]
    IN  grown[size]

BadReserveVarying(enc, align, nbytes) ==     \* doubles at most once
    LET at == Aligned(enc.offset, align)
    IN  [enc EXCEPT !.offset = at,
                    !.bytes = IF Len(@) <= at + nbytes THEN Enlarged(@, 2 * Len(@)) ELSE @]
ReserveVarying(enc, align, nbytes) ==
    LET at == Aligned(enc.offset, align)
    IN  [enc EXCEPT !.offset = at,
                    !.bytes = Enlarged(@, Doubled(Len(@), at + nbytes))]

Reserve(enc, align) == ReserveVarying(enc, align, align)

ReserveOne(enc) ==
    [enc EXCEPT !.bytes =
        IF Len(@) <= enc.offset + 1 THEN Enlarged(@, 2 * Len(@)) ELSE @]

Put(enc, octets) ==
    [enc EXCEPT !.bytes = [i \in DOMAIN @ |-> IF i \in enc.offset + 1..enc.offset + Len(octets)
                                              THEN octets[i - enc.offset] ELSE @[i]],
                !.offset = @ + Len(octets)]

\* bool, char and octet, and the numbers of two, four and eight octets.
PutOctet(enc, o) == Put(ReserveOne(enc), <<o>>)
PutNumber(enc, p) == Put(Reserve(enc, Len(p)), InOrder(p, enc.little))
PutUlong(enc, n) == PutNumber(enc, Pattern(n, 4))
PutUshort(enc, n) == PutNumber(enc, Pattern(n, 2))

PutBlob(enc, octets) ==
    Put(PutUlong(ReserveVarying(enc, 4, 4 + Len(octets)), Len(octets)), octets)

PutString(enc, octets) ==
    Put(PutUlong(ReserveVarying(enc, 4, 5 + Len(octets)), Len(octets) + 1),
        octets \o <<0>>)

PutSequence(enc, vs) ==
    FoldLeft(LAMBDA e, v : PutNumber(e, v), PutUlong(enc, Len(vs)), vs)

PutSequenceOctet(enc, octets) ==
    Put(ReserveVarying(PutUlong(enc, Len(octets)), 4, Len(octets)), octets)

PutSequenceFloat(enc, vs) ==
    Put(ReserveVarying(PutUlong(enc, Len(vs)), 4, 4 * Len(vs)), Elements(vs, enc.little))

PutSequenceDouble(enc, vs) ==
    Put(ReserveVarying(PutUlong(enc, Len(vs)), 8, 8 * Len(vs)), Elements(vs, enc.little))

PutEndian(enc) == PutOctet(enc, IF enc.little THEN 1 ELSE 0)

ReserveSize(enc) ==
    LET e == Reserve(enc, 4)
    IN  [e EXCEPT !.offset = @ + 4, !.sizeStack = Append(@, e.offset + 4)]

BadUnpopped(enc) ==               \* leaves the saved offset on the stack
    LET saved == Last(enc.sizeStack)
    IN  [PutUlong([enc EXCEPT !.offset = saved - 4], enc.offset - saved)
            EXCEPT !.offset = enc.offset]
FillinSize(enc) ==
    LET saved == Last(enc.sizeStack)
    IN  [PutUlong([enc EXCEPT !.offset = saved - 4, !.sizeStack = Front(@)],
                  enc.offset - saved) EXCEPT !.offset = enc.offset]

PutBeginEncapsulation(enc, type) == PutEndian(ReserveSize(PutUlong(enc, type)))
PutEndEncapsulation(enc) == FillinSize(enc)
-----------------------------------------------------------------------------
(***************************************************************************)
(* The decoder.  Reading a number beyond the end of the buffer throws,     *)
(* while a blob or string is cut at the end.                               *)
(***************************************************************************)
Decoder(bytes) ==
    [offset |-> 0, bytes |-> bytes, little |-> TRUE, encapStack |-> <<>>,
     ok |-> TRUE, got |-> <<>>]

AlignedTo(offset, n) == IF offset % n # 0 THEN offset + (n - (offset % n)) ELSE offset

Align(dec, n) == [dec EXCEPT !.offset = AlignedTo(@, n)]

\* The last thing the decoder returned.
Value(dec) == Last(dec.got)

Throw(dec) == [dec EXCEPT !.ok = FALSE]

Return(dec, v) == [dec EXCEPT !.got = Append(@, v)]

\* Returns v instead of what was read last.
Instead(dec, v) == [dec EXCEPT !.got = Append(Front(@), v)]

\* Returns all that was read since dec as one thing.
Together(dec, all) == Return([all EXCEPT !.got = dec.got], all.got)

\* Goes on unless an exception has been thrown.
After(dec, Then(_)) == IF dec.ok THEN Then(dec) ELSE dec

\* Octets from .. from + n - 1, as far as there are any.
Slice(dec, from, n) ==
    LET last == IF from + n < Len(dec.bytes) THEN from + n ELSE Len(dec.bytes)
    IN  SubSeq(dec.bytes, from + 1, last)

BadGetNumber(dec, width) ==       \* takes the platform's byte order for granted
    LET at == AlignedTo(dec.offset, width)
    IN  IF at + width > Len(dec.bytes) THEN Throw(dec)
        ELSE Return([dec EXCEPT !.offset = at + width],
                    InOrder(Slice(dec, at, width), TRUE))
GetNumber(dec, width) ==
    LET at == AlignedTo(dec.offset, width)
    IN  IF at + width > Len(dec.bytes) THEN Throw(dec)
        ELSE Return([dec EXCEPT !.offset = at + width],
                    InOrder(Slice(dec, at, width), dec.little))

\* What follows a ulong that the decoder keeps for itself.
WithUlong(dec, Then(_, _)) ==
    After(GetNumber(dec, 4), LAMBDA d : Then([d EXCEPT !.got = Front(@)], Number(Value(d))))

GetBlob(dec) ==
    WithUlong(dec, LAMBDA d, n :
        Return([d EXCEPT !.offset = @ + n], Slice(d, d.offset, n)))

\* A string whose length has been read.
StringOf(dec, n) == Return([dec EXCEPT !.offset = @ + n], Slice(dec, dec.offset, n - 1))
GetString(dec) == WithUlong(dec, StringOf)

GetSequence(dec, width) ==
    WithUlong(dec, LAMBDA d, n :
        Together(d, FoldLeft(LAMBDA e, i : IF e.ok THEN GetNumber(e, width) ELSE e,
                             [d EXCEPT !.got = <<>>], [i \in 1..n |-> i])))

GetSequenceOctet(dec) ==
    WithUlong(dec, LAMBDA d, n :
        IF d.offset + n > Len(d.bytes) THEN Throw(d)
        ELSE Return([d EXCEPT !.offset = @ + n], Slice(d, d.offset, n)))

\* n numbers in a row.  Those in the platform's byte order are not copied but
\* seen through a typed array, which must begin at a multiple of its width.
GetElements(dec, n, width, platformLittle) ==
    IF \/ dec.offset + n * width > Len(dec.bytes)
       \/ dec.little = platformLittle /\ dec.offset % width # 0
    THEN Throw(dec)
    ELSE Return([dec EXCEPT !.offset = @ + n * width],
                [i \in 1..n |-> InOrder(Slice(dec, dec.offset + (i - 1) * width, width),
                                        dec.little)])

GetSequenceFloat(dec, platformLittle) ==
    WithUlong(dec, LAMBDA d, n : GetElements(d, n, 4, platformLittle))

GetSequenceDouble(dec, platformLittle) ==
    WithUlong(dec, LAMBDA d, n : GetElements(Align(d, 8), n, 8, platformLittle))

GetEndian(dec) ==
    After(GetNumber(dec, 1), LAMBDA d :
        [d EXCEPT !.got = Front(@), !.little = (Value(d) = <<1>>)])

\* Returns the type of the encapsulation.
GetBeginEncapsulation(dec) ==
    After(GetNumber(dec, 4), LAMBDA t :
        WithUlong(t, LAMBDA d, size :
            GetEndian([d EXCEPT !.encapStack =
                Append(@, [nextOffset |-> d.offset + size, endian |-> d.little])])))

BadGetEndEncapsulation(dec) ==      \* keeps the byte order of the encapsulation
    LET e == Last(dec.encapStack)
    IN  [dec EXCEPT !.encapStack = Front(@), !.offset = e.nextOffset]
GetEndEncapsulation(dec) ==
    LET e == Last(dec.encapStack)
    IN  [dec EXCEPT !.encapStack = Front(@), !.little = e.endian, !.offset = e.nextOffset]
=============================================================================
