------------------------------ MODULE CdrStream ------------------------------
(***************************************************************************)
(* One message written by the encoder of one ORB and read by the decoder   *)
(* of another, item by item as the code generated from the same IDL does   *)
(* on both sides.  The two ORBs may run on platforms of different byte     *)
(* order.                                                                  *)
(*                                                                         *)
(* Encapsulations nest.  corba.js writes them in its own byte order; one   *)
(* that comes from another ORB (a profile, a component) may have another,  *)
(* which the parameter of Open stands for.  The reader may leave an        *)
(* encapsulation before its end, as serviceContext() and reference() do    *)
(* with the parts they do not know.                                        *)
(*                                                                         *)
(* A message of nothing but a reference is what the string of an IOR       *)
(* holds, which the class IOR decodes without a message around it.         *)
(***************************************************************************)
EXTENDS Iors

CONSTANT
    Plan          \* what a message may be made of: items, records of a type and
                  \* a value; most, how many; depth, of its encapsulations

\* What the types of IDL and the signatures of the operations allow.
IsItem(item) ==
    \/ item.type = "octet" /\ item.v \in Octet
    \/ item.type = "number" /\ \E w \in {1, 2, 4, 8} : item.v \in Word(w)
    \/ item.type \in {"string", "blob", "octets"} /\ item.v \in Seq(Octet)
    \/ item.type = "sequence" /\ item.width \in {1, 2, 4, 8} /\ item.v \in Seq(Word(item.width))
    \/ item.type = "floats" /\ item.v \in Seq(Word(4))
    \/ item.type = "doubles" /\ item.v \in Seq(Word(8))
    \/ item.type = "asn1number" /\ item.v \in Nat
    \/ /\ item.type = "oid"
       /\ item.v \in Seq(Nat) /\ Len(item.v) >= 2 /\ item.v[1] * 40 + item.v[2] \in Octet
    \/ /\ item.type = "tag"
       /\ item.class \in 0..3 /\ item.tag \in Nat /\ item.encoding \in 0..1
       /\ item.v \in Seq(Octet)
    \/ item.type = "reference" /\ IsReference(item.v)
    \/ item.type = "nil"
    \/ item.type = "peer" /\ IsReference(item.v) /\ item.profiles \in Seq(ForeignProfile)

ASSUME PlanAssumption ==
    \A p \in Plan : /\ p.most \in Nat /\ p.depth \in Nat
                    /\ \A item \in p.items : IsItem(item)

VARIABLES
    plan,         \* the one of this message
    enc,          \* the encoder
    written,      \* what was written, with the encoder's offset after it
    orders,       \* byte orders to return to when encapsulations are closed
    phase,        \* "writing", then "reading"
    dec,          \* the decoder
    next,         \* how many of the written items the reader is done with
    platform      \* the reader's platform is little endian

vars == <<plan, enc, written, orders, phase, dec, next, platform>>

PutItem(e, item) ==
    CASE item.type = "octet"    -> PutOctet(e, item.v)
      [] item.type = "number"   -> PutNumber(e, item.v)
      [] item.type = "string"   -> PutString(e, item.v)
      [] item.type = "blob"     -> PutBlob(e, item.v)
      [] item.type = "sequence" -> PutSequence(e, item.v)
      [] item.type = "octets"   -> PutSequenceOctet(e, item.v)
      [] item.type = "floats"   -> PutSequenceFloat(e, item.v)
      [] item.type = "doubles"  -> PutSequenceDouble(e, item.v)
      [] item.type = "asn1number" -> PutAsn1Number(e, item.v)
      [] item.type = "oid" ->
             PutAsn1Tag(e, Universal, OID, Primitive, LAMBDA s : PutAsn1Oid(s, item.v))
      [] item.type = "tag" ->
             PutAsn1Tag(e, item.class, item.tag, item.encoding,
                        LAMBDA s : PutOctets(s, item.v))
      [] item.type = "reference" -> PutReference(e, item.v)
      [] item.type = "nil" -> PutNilReference(e)
      [] item.type = "peer" -> PutPeerReference(e, item.v, item.profiles)

\* The IDL, known to both sides, tells the width of numbers and elements.  The
\* content of a tag is skipped by its length.
GetItem(d, item) ==
    CASE item.type = "octet"    -> GetNumber(d, 1)
      [] item.type = "number"   -> GetNumber(d, Len(item.v))
      [] item.type = "string"   -> GetString(d)
      [] item.type = "blob"     -> GetBlob(d)
      [] item.type = "sequence" -> GetSequence(d, item.width)
      [] item.type = "octets"   -> GetSequenceOctet(d)
      [] item.type = "floats"   -> GetSequenceFloat(d, platform)
      [] item.type = "doubles"  -> GetSequenceDouble(d, platform)
      [] item.type = "asn1number" -> GetAsn1Number(d)
      [] item.type = "oid"      -> Asn1ExpectOid(d, item.v)
      [] item.type = "tag"      ->
             After(GetAsn1Tag(d), LAMBDA t : [t EXCEPT !.offset = @ + Value(t).length])
      [] item.type \in {"reference", "nil", "peer"} -> GetReference(d)

\* What was written, and where, in which byte order and in how many encapsulations
\* the encoder is then.
Record(type, item) ==
    [type |-> type, item |-> item, offset |-> enc'.offset, little |-> enc'.little,
     depth |-> Len(orders')]

Items == Len(SelectSeq(written, LAMBDA w : w.type = "item"))

\* The end of the encapsulation the reader is in after i of the written things.
CloseAfter(i) ==
    CHOOSE j \in i + 1..Len(written) :
        /\ written[j].depth < written[i].depth
        /\ \A k \in i + 1..j - 1 : written[k].depth >= written[i].depth
-----------------------------------------------------------------------------
Init ==
    /\ plan \in Plan
    /\ \E little \in BOOLEAN : enc = Encoder(little)
    /\ platform \in BOOLEAN
    /\ written = <<>>
    /\ orders = <<>>
    /\ phase = "writing"
    /\ dec = Decoder(<<>>)
    /\ next = 0

\* ORB.serialize() begins with the byte order.
Begin ==
    /\ phase = "writing"
    /\ written = <<>>
    /\ enc' = PutEndian(enc)
    /\ UNCHANGED <<plan, orders, phase, dec, next, platform>>
    /\ written' = <<Record("endian", enc.little)>>

Writing == phase = "writing" /\ written # <<>>

Write(item) ==
    /\ Writing
    /\ Items < plan.most
    /\ enc' = PutItem(enc, item)
    /\ UNCHANGED <<plan, orders, phase, dec, next, platform>>
    /\ written' = Append(written, Record("item", item))

\* Empty encapsulations are left out: there is nothing in them to be read.
Open(foreign) ==
    /\ Writing
    /\ Len(orders) < plan.depth
    /\ Items < plan.most
    /\ enc' = LET e == PutUlong(enc, 0)
               IN  PutEndian([ReserveSize(e) EXCEPT !.little = (foreign # enc.little)])
    /\ orders' = Append(orders, enc.little)
    /\ written' = Append(written, Record("open", enc'.little))
    /\ UNCHANGED <<plan, phase, dec, next, platform>>

Close ==
    /\ Writing
    /\ orders # <<>>
    /\ Last(written).type # "open"
    /\ enc' = PutEndEncapsulation([enc EXCEPT !.little = Last(orders)])
    /\ orders' = Front(orders)
    /\ written' = Append(written, Record("close", enc'.little))
    /\ UNCHANGED <<plan, phase, dec, next, platform>>

\* encoder.buffer.slice(0, encoder.offset) arrives in one piece.
Send ==
    /\ Writing
    /\ orders = <<>>
    /\ Items > 0
    /\ phase' = "reading"
    /\ dec' = GetEndian(Decoder(Slice(enc, 0, enc.offset)))
    /\ next' = 1
    /\ UNCHANGED <<plan, enc, written, orders, platform>>

Reading(type) ==
    /\ phase = "reading"
    /\ dec.ok
    /\ next < Len(written)
    /\ written[next + 1].type = type
    /\ next' = next + 1
    /\ UNCHANGED <<plan, enc, written, orders, phase, platform>>

Afresh == [dec EXCEPT !.got = <<>>]

Read ==
    /\ Reading("item")
    /\ dec' = GetItem(Afresh, written[next + 1].item)

Enter ==
    /\ Reading("open")
    /\ dec' = GetBeginEncapsulation(Afresh)

Leave ==
    /\ Reading("close")
    /\ dec' = GetEndEncapsulation(Afresh)

\* The rest of the encapsulation is of no interest to the reader.
LeaveEarly ==
    /\ phase = "reading"
    /\ dec.ok
    /\ dec.encapStack # <<>>
    /\ next' = CloseAfter(next)
    /\ dec' = GetEndEncapsulation(Afresh)
    /\ UNCHANGED <<plan, enc, written, orders, phase, platform>>

Next ==
    \/ Begin
    \/ \E item \in plan.items : Write(item)
    \/ \E foreign \in BOOLEAN : Open(foreign)
    \/ Close
    \/ Send
    \/ Read
    \/ Enter
    \/ Leave
    \/ LeaveEarly

Spec == Init /\ [][Next]_vars
-----------------------------------------------------------------------------
TypeOK ==
    /\ plan \in Plan
    /\ enc.offset \in Nat /\ enc.bytes \in Seq(Octet) /\ enc.little \in BOOLEAN
    /\ orders \in Seq(BOOLEAN) /\ Len(orders) = Len(enc.sizeStack)
    /\ phase \in {"writing", "reading"}
    /\ dec.offset \in Nat /\ dec.bytes \in Seq(Octet) /\ dec.ok \in BOOLEAN
    /\ next \in 0..Len(written)
    /\ platform \in BOOLEAN

(***************************************************************************)
(* The buffer has grown before anything is written to it, however a large  *)
(* item follows on a full buffer: alignAndReserveVarying() (giop.ts:812)   *)
(* doubles until there is room, and what an operation reserves is what it  *)
(* then writes.                                                            *)
(***************************************************************************)
Contained == enc.offset <= Len(enc.bytes)

\* What reading an item returns when all goes well.
Expected(item) ==
    CASE item.type = "octet" -> <<item.v>>
      [] item.type = "oid" -> TRUE
      [] item.type = "tag" -> [class |-> item.class, encoding |-> item.encoding,
                               tag |-> item.tag, length |-> Len(item.v)]
      [] OTHER -> item.v

\* What a read returned, as far as the application sees it.
Returned(item) ==
    IF item.type \in {"reference", "nil", "peer"} THEN Named(Value(dec)) ELSE Value(dec)

\* Read otherwise than it was written: a tag of more than five bits, and a
\* reference whose profiles are miscounted.
Misread(w) ==
    /\ w.type = "item"
    /\ \/ w.item.type = "tag" /\ w.item.tag >= 31
       \/ w.item.type = "peer" /\ Miscounted(w.item.profiles)

(***************************************************************************)
(* Whatever was written is what is read, at any alignment, in either byte  *)
(* order, in and after encapsulations that were read to the end or not     *)
(* (giop.ts:787-1026 against giop.ts:1532-1818): numbers, texts, sequences,*)
(* ASN.1 items of which none takes an octet of the next, and references    *)
(* (giop.ts:670-715, 1261-1377, ior.ts:60-86).  Except for long tags; but  *)
(* the address and key of an IIOP profile that comes first are right       *)
(* whatever the loops make of the profiles behind it.                      *)
(***************************************************************************)
ReadBack ==
    LET w == written[next]
    IN  /\ ~dec.ok => Misread(w) /\ w.item.type = "tag"
        /\ next > 0 /\ w.type = "item" /\ dec.ok /\ dec.got # <<>> =>
               \/ Misread(w) /\ w.item.type = "tag"
               \/ Returned(w.item) = Expected(w.item)

(***************************************************************************)
(* After each thing read the decoder is where the encoder was after it     *)
(* wrote that thing, and in the same byte order (giop.ts:804-828 and 1813  *)
(* compute the padding differently; giop.ts:1066 returns to the byte order *)
(* outside the encapsulation).  A reference of another ORB is left before  *)
(* its end exactly when its profiles are miscounted (giop.ts:1293).        *)
(***************************************************************************)
InStep ==
    dec.ok /\ next > 0 =>
        IF Misread(written[next])
        THEN written[next].item.type = "peer" => dec.offset < written[next].offset
        ELSE /\ dec.offset = written[next].offset
             /\ dec.little = written[next].little
=============================================================================
