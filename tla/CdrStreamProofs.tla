--------------------------- MODULE CdrStreamProofs ---------------------------
(***************************************************************************)
(* What the encoder writes stays within its buffer, for messages of every  *)
(* length and any nesting; and what it writes of numbers, texts and        *)
(* sequences, in encapsulations or not, is what the decoder reads.         *)
(***************************************************************************)
EXTENDS CdrStream, CdrProofs

(***************************************************************************)
(* The inductive invariant: the encoder has room for what was written, and *)
(* for each size to be filled in, which belongs to a place that is behind  *)
(* the encoder, there is a byte order to return to.                        *)
(***************************************************************************)
EncInv ==
    /\ plan \in Plan
    /\ enc \in Encoders
    /\ orders \in Seq(BOOLEAN)
    /\ Len(orders) = Len(enc.sizeStack)
    /\ \A i \in 1..Len(enc.sizeStack) : enc.sizeStack[i] <= enc.offset

\* A tag is put around the octets of another encoder.
LEMMA TaggedKeeps ==
    ASSUME NEW e \in Encoders, NEW class \in 0..3, NEW tag \in Nat, NEW encoding \in 0..1,
           NEW octets \in Seq(Octet)
    PROVE  PutAsn1Tag(e, class, tag, encoding, LAMBDA s : PutOctets(s, octets)) \in Later(e)
  <1> DEFINE new == Encoder(e.little)
             content == PutOctets(new, octets)
  <1>1. new \in Encoders
    BY NewEncoder DEF Encoders
  <1>2. content \in Encoders
    <2> HIDE DEF new
    <2>. QED
      BY <1>1, OctetsKeep, LaterIsEncoder
  <1> HIDE DEF content
  <1>3. LET c == class * 64 + encoding * 32
            tagged == IF tag < 31 THEN PutOctet(e, c + tag)
                      ELSE PutAsn1Number(PutOctet(e, c + 31), tag)
        IN  PutOctets(PutAsn1Number(tagged, content.offset),
                      Slice(content, 0, content.offset)) \in Later(e)
    BY <1>2, TagKeeps, Zenon
  <1>. QED
    BY <1>3 DEF PutAsn1Tag, content, new

LEMMA TaggedOidKeeps ==
    ASSUME NEW e \in Encoders, NEW oid \in ObjectIdentifier
    PROVE  PutAsn1Tag(e, Universal, OID, Primitive, LAMBDA s : PutAsn1Oid(s, oid)) \in Later(e)
  <1> DEFINE new == Encoder(e.little)
             content == PutAsn1Oid(new, oid)
  <1>1. new \in Encoders
    BY NewEncoder DEF Encoders
  <1>2. content \in Encoders
    <2> HIDE DEF new
    <2>. QED
      BY <1>1, OidKeeps, LaterIsEncoder
  <1> HIDE DEF content
  <1>3. Universal \in 0..3 /\ OID \in Nat /\ Primitive \in 0..1
    BY DEF Universal, OID, Primitive
  <1>4. LET c == Universal * 64 + Primitive * 32
            tagged == IF OID < 31 THEN PutOctet(e, c + OID)
                      ELSE PutAsn1Number(PutOctet(e, c + 31), OID)
        IN  PutOctets(PutAsn1Number(tagged, content.offset),
                      Slice(content, 0, content.offset)) \in Later(e)
    BY <1>2, <1>3, TagKeeps, Zenon
  <1>. QED
    BY <1>4 DEF PutAsn1Tag, content, new

LEMMA ItemKeeps ==
    ASSUME NEW e \in Encoders, NEW item, IsItem(item)
    PROVE  PutItem(e, item) \in Later(e)
  <1>1. CASE item.type = "octet" /\ item.v \in Octet
    BY <1>1, OctetKeeps DEF PutItem
  <1>2. CASE item.type = "number" /\ \E w \in {1, 2, 4, 8} : item.v \in Word(w)
    <2>1. item.v \in AnyWord
      BY <1>2, Zenon DEF Word, AnyWord, AlignWidth
    <2>. QED
      BY <1>2, <2>1, NumberKeeps DEF PutItem
  <1>3. CASE item.type \in {"string", "blob", "octets"} /\ item.v \in Seq(Octet)
    <2>1. PutString(e, item.v) \in Later(e)
      BY <1>3, StringKeeps
    <2>2. PutBlob(e, item.v) \in Later(e)
      BY <1>3, BlobKeeps
    <2>3. PutSequenceOctet(e, item.v) \in Later(e)
      BY <1>3, SequenceOctetKeeps
    <2>. QED
      BY <1>3, <2>1, <2>2, <2>3 DEF PutItem
  <1>4. CASE /\ item.type = "sequence" /\ item.width \in {1, 2, 4, 8}
             /\ item.v \in Seq(Word(item.width))
    <2>1. Word(item.width) \subseteq AnyWord
      BY <1>4, Zenon DEF Word, AnyWord, AlignWidth
    <2>2. item.v \in Seq(AnyWord)
      BY <1>4, <2>1
    <2>. QED
      BY <1>4, <2>2, SequenceKeeps DEF PutItem
  <1>5. CASE item.type = "floats" /\ item.v \in Seq(Word(4))
    BY <1>5, ArrayKeeps, Zenon DEF PutItem, PutSequenceFloat
  <1>6. CASE item.type = "doubles" /\ item.v \in Seq(Word(8))
    BY <1>6, ArrayKeeps, Zenon DEF PutItem, PutSequenceDouble
  <1>7. CASE item.type = "asn1number" /\ item.v \in Nat
    BY <1>7, Asn1NumberKeeps DEF PutItem
  <1>8. CASE /\ item.type = "oid"
             /\ item.v \in Seq(Nat) /\ Len(item.v) >= 2 /\ item.v[1] * 40 + item.v[2] \in Octet
    <2>1. item.v \in ObjectIdentifier
      BY <1>8 DEF ObjectIdentifier
    <2>2. PutAsn1Tag(e, Universal, OID, Primitive, LAMBDA s : PutAsn1Oid(s, item.v)) \in Later(e)
      BY <2>1, TaggedOidKeeps, Zenon
    <2>3. PutItem(e, item)
              = PutAsn1Tag(e, Universal, OID, Primitive, LAMBDA s : PutAsn1Oid(s, item.v))
      BY <1>8 DEF PutItem, PutAsn1Tag
    <2>. QED
      BY <2>2, <2>3 DEF PutAsn1Tag
  <1>9. CASE /\ item.type = "tag"
             /\ item.class \in 0..3 /\ item.tag \in Nat /\ item.encoding \in 0..1
             /\ item.v \in Seq(Octet)
    <2>1. PutAsn1Tag(e, item.class, item.tag, item.encoding, LAMBDA s : PutOctets(s, item.v))
              \in Later(e)
      BY <1>9, TaggedKeeps, Zenon
    <2>2. PutItem(e, item)
              = PutAsn1Tag(e, item.class, item.tag, item.encoding, LAMBDA s : PutOctets(s, item.v))
      BY <1>9 DEF PutItem, PutAsn1Tag
    <2>. QED
      BY <2>1, <2>2 DEF PutAsn1Tag
  <1>10. CASE item.type = "reference" /\ IsReference(item.v)
    BY <1>10, ReferenceKeeps DEF PutItem
  <1>11. CASE item.type = "nil"
    BY <1>11, NilReferenceKeeps DEF PutItem
  <1>12. CASE /\ item.type = "peer" /\ IsReference(item.v)
              /\ item.profiles \in Seq(ForeignProfile)
    BY <1>12, PeerReferenceKeeps DEF PutItem
  <1>. QED
    BY <1>1, <1>2, <1>3, <1>4, <1>5, <1>6, <1>7, <1>8, <1>9, <1>10, <1>11, <1>12 DEF IsItem
-----------------------------------------------------------------------------
LEMMA InitEnc == Init => EncInv
  <1> SUFFICES ASSUME Init
               PROVE  EncInv
    OBVIOUS
  <1>1. PICK little \in BOOLEAN : enc = Encoder(little)
    BY DEF Init
  <1>2. enc \in Encoders /\ enc.sizeStack = <<>>
    BY <1>1, NewEncoder
  <1>3. orders \in Seq(BOOLEAN) /\ Len(orders) = Len(enc.sizeStack)
    BY <1>2 DEF Init
  <1>4. 1..Len(enc.sizeStack) = {}
    BY <1>2
  <1>. QED
    BY <1>2, <1>3, <1>4 DEF EncInv, Init

\* The places stay behind the encoder as it goes on.
LEMMA PlacesStayBehind ==
    ASSUME NEW e \in Encoders, NEW d \in Later(e),
           \A i \in 1..Len(e.sizeStack) : e.sizeStack[i] <= e.offset
    PROVE  \A i \in 1..Len(d.sizeStack) : d.sizeStack[i] <= d.offset
  <1>1. /\ d.sizeStack = e.sizeStack /\ d.offset >= e.offset /\ d.offset \in Nat /\ e.offset \in Nat
        /\ e.sizeStack \in Seq(StackEntry)
    BY DEF Later, Beyond, Encoders
  <1>2. \A i \in 1..Len(e.sizeStack) : e.sizeStack[i] \in Nat
    BY <1>1 DEF StackEntry
  <1>. QED
    BY <1>1, <1>2

LEMMA BeginKeeps == EncInv /\ Begin => EncInv'
  <1> SUFFICES ASSUME EncInv, Begin
               PROVE  EncInv'
    OBVIOUS
  <1>1. enc' \in Later(enc)
    BY EndianKeeps DEF EncInv, Begin
  <1>2. \A i \in 1..Len(enc'.sizeStack) : enc'.sizeStack[i] <= enc'.offset
    BY <1>1, PlacesStayBehind DEF EncInv
  <1>. QED
    BY <1>1, <1>2 DEF EncInv, Begin, Later, Beyond

LEMMA WriteKeeps == ASSUME NEW item \in plan.items PROVE EncInv /\ Write(item) => EncInv'
  <1> SUFFICES ASSUME EncInv, Write(item)
               PROVE  EncInv'
    OBVIOUS
  <1>1. IsItem(item)
    BY PlanAssumption DEF EncInv
  <1>2. enc' \in Later(enc)
    BY <1>1, ItemKeeps DEF EncInv, Write
  <1>3. \A i \in 1..Len(enc'.sizeStack) : enc'.sizeStack[i] <= enc'.offset
    BY <1>2, PlacesStayBehind DEF EncInv
  <1>. QED
    BY <1>2, <1>3 DEF EncInv, Write, Later, Beyond

\* The byte order of what follows is the encoder's own or, in what comes from
\* another ORB, another.
LEMMA OtherOrder ==
    ASSUME NEW e \in Encoders, NEW little \in BOOLEAN
    PROVE  LET d == [e EXCEPT !.little = little]
           IN  /\ d \in Encoders
               /\ d.sizeStack = e.sizeStack /\ d.offset = e.offset /\ d.bytes = e.bytes
               /\ d.little = little
  BY DEF Encoders

LEMMA OpenKeeps == ASSUME NEW foreign \in BOOLEAN PROVE EncInv /\ Open(foreign) => EncInv'
  <1> SUFFICES ASSUME EncInv, Open(foreign)
               PROVE  EncInv'
    OBVIOUS
  <1> DEFINE e == PutUlong(enc, 0)
             r == ReserveSize(e)
             o == [r EXCEPT !.little = (foreign # enc.little)]
  <1>0. enc \in Encoders /\ 0 \in Int
    BY DEF EncInv
  <1>1. e \in Later(enc) /\ e \in Encoders
    BY <1>0, UlongKeeps
  <1>2. e.sizeStack = enc.sizeStack
    BY <1>1 DEF Later, Beyond
  <1>3. enc' = PutEndian(o) /\ orders' = Append(orders, enc.little) /\ plan' = plan
    BY DEF Open
  <1> HIDE DEF e
  <1> DEFINE n == Aligned(e.offset, 4) + 4
  <1>4. n \in StackEntry /\ r \in Encoders /\ r.sizeStack = Append(e.sizeStack, n)
        /\ r.offset = n /\ n >= e.offset + 4
    BY <1>1, SizeReserved DEF Beyond
  <1> HIDE DEF r, n
  <1>5. (foreign # enc.little) \in BOOLEAN /\ enc.little \in BOOLEAN
    BY DEF EncInv, Encoders
  <1>6. o \in Encoders /\ o.sizeStack = r.sizeStack /\ o.offset = n
    BY <1>4, <1>5, OtherOrder, Zenon
  <1> HIDE DEF o
  <1>7. enc' \in Encoders /\ enc'.sizeStack = o.sizeStack /\ enc'.offset = n + 1
    BY <1>3, <1>6, EndianKeeps DEF Later, Beyond
  <1>8. enc'.sizeStack = Append(enc.sizeStack, n) /\ enc.sizeStack \in Seq(StackEntry)
    BY <1>2, <1>4, <1>6, <1>7 DEF EncInv, Encoders
  <1>9. Len(orders') = Len(enc'.sizeStack) /\ orders' \in Seq(BOOLEAN)
    BY <1>3, <1>5, <1>8 DEF EncInv
  <1>10. ASSUME NEW i \in 1..Len(enc'.sizeStack)
         PROVE  enc'.sizeStack[i] <= enc'.offset
    <2>1. enc.offset \in Nat /\ e.offset \in Nat /\ n \in Nat /\ e.offset >= enc.offset
      BY <1>1, <1>4 DEF Encoders, Later, Beyond, StackEntry, EncInv
    <2>2. CASE i = Len(enc.sizeStack) + 1
      BY <1>7, <1>8, <2>1, <2>2
    <2>3. CASE i \in 1..Len(enc.sizeStack)
      <3>1. enc'.sizeStack[i] = enc.sizeStack[i] /\ enc.sizeStack[i] \in Nat
        BY <1>8, <2>3 DEF StackEntry
      <3>2. enc.sizeStack[i] <= enc.offset
        BY <2>3 DEF EncInv
      <3>. QED
        BY <1>4, <1>7, <2>1, <3>1, <3>2
    <2>. QED
      BY <1>8, <2>2, <2>3
  <1>. QED
    BY <1>3, <1>7, <1>9, <1>10 DEF EncInv

LEMMA CloseKeeps == EncInv /\ Close => EncInv'
  <1> SUFFICES ASSUME EncInv, Close
               PROVE  EncInv'
    OBVIOUS
  <1> DEFINE d == [enc EXCEPT !.little = Last(orders)]
             stack == Front(enc.sizeStack)
             r == Last(enc.sizeStack)
             m == Len(enc.sizeStack)
  <1>1. /\ enc \in Encoders /\ enc.sizeStack \in Seq(StackEntry) /\ orders \in Seq(BOOLEAN)
        /\ Len(orders) = m /\ m > 0 /\ m \in Nat /\ Len(orders) > 0
    BY DEF EncInv, Close, Encoders
  <1>2. /\ Front(orders) \in Seq(BOOLEAN) /\ Last(orders) \in BOOLEAN
        /\ Len(Front(orders)) = m - 1
    BY <1>1, FrontAndLast
  <1>3. /\ stack \in Seq(StackEntry) /\ r \in StackEntry
        /\ Len(stack) = m - 1
        /\ enc.sizeStack = Append(stack, r)
        /\ \A i \in 1..m - 1 : stack[i] = enc.sizeStack[i]
    BY <1>1, FrontAndLast
  <1>4. r = enc.sizeStack[m]
    BY DEF Last
  <1>5. d \in Encoders /\ d.sizeStack = enc.sizeStack /\ d.offset = enc.offset
    BY <1>1, <1>2, OtherOrder
  <1>6. enc' = FillinSize(d) /\ orders' = Front(orders) /\ plan' = plan
    BY DEF Close, PutEndEncapsulation
  <1> HIDE DEF d, stack, r
  <1>7. r <= d.offset
    BY <1>1, <1>4, <1>5 DEF EncInv
  <1>8. enc' \in Encoders /\ enc'.sizeStack = stack /\ enc'.offset = d.offset
    BY <1>3, <1>5, <1>6, <1>7, SizeFilled
  <1>9. \A i \in 1..Len(stack) : stack[i] <= enc.offset
    BY <1>1, <1>3 DEF EncInv
  <1>. QED
    BY <1>2, <1>3, <1>5, <1>6, <1>8, <1>9 DEF EncInv

(***************************************************************************)
(* The invariant holds for every message, whatever it is made of.          *)
(***************************************************************************)
LEMMA EncInvHolds == Spec => []EncInv
  <1>1. Init => EncInv
    BY InitEnc
  <1>2. EncInv /\ [Next]_vars => EncInv'
    <2> SUFFICES ASSUME EncInv, [Next]_vars
                 PROVE  EncInv'
      OBVIOUS
    <2>1. CASE Begin
      BY <2>1, BeginKeeps
    <2>2. ASSUME NEW item \in plan.items, Write(item)
          PROVE  EncInv'
      BY <2>2, WriteKeeps
    <2>3. ASSUME NEW foreign \in BOOLEAN, Open(foreign)
          PROVE  EncInv'
      BY <2>3, OpenKeeps
    <2>4. CASE Close
      BY <2>4, CloseKeeps
    <2>5. CASE Send
      BY <2>5 DEF Send, EncInv
    <2>6. CASE Read
      BY <2>6 DEF Read, Reading, EncInv
    <2>7. CASE Enter
      BY <2>7 DEF Enter, Reading, EncInv
    <2>8. CASE Leave
      BY <2>8 DEF Leave, Reading, EncInv
    <2>9. CASE LeaveEarly
      BY <2>9 DEF LeaveEarly, EncInv
    <2>10. CASE UNCHANGED vars
      BY <2>10 DEF vars, EncInv
    <2>. QED
      BY <2>1, <2>2, <2>3, <2>4, <2>5, <2>6, <2>7, <2>8, <2>9, <2>10 DEF Next
  <1>. QED
    BY <1>1, <1>2, PTL DEF Spec

(***************************************************************************)
(* Contained (giop.ts:812): in every message, of items of every size at    *)
(* every alignment and in encapsulations nested to any depth, the encoder  *)
(* never goes beyond its buffer.                                           *)
(***************************************************************************)
THEOREM NeverBeyondTheBuffer == Spec => []Contained
  <1>1. EncInv => Contained
    BY DEF EncInv, Encoders, Contained
  <1>. QED
    BY <1>1, EncInvHolds, PTL
-----------------------------------------------------------------------------
(***************************************************************************)
(* Items of CDR: what is put is what is read, from the same offset on and  *)
(* in the same byte order.                                                 *)
(***************************************************************************)
PlainTypes ==
    {"octet", "number", "string", "blob", "sequence", "octets", "floats", "doubles"}

\* GetItem on a given platform.
GetPlain(d, item, platformLittle) ==
    CASE item.type = "octet"    -> GetNumber(d, 1)
      [] item.type = "number"   -> GetNumber(d, Len(item.v))
      [] item.type = "string"   -> GetString(d)
      [] item.type = "blob"     -> GetBlob(d)
      [] item.type = "sequence" -> GetSequence(d, item.width)
      [] item.type = "octets"   -> GetSequenceOctet(d)
      [] item.type = "floats"   -> GetSequenceFloat(d, platformLittle)
      [] item.type = "doubles"  -> GetSequenceDouble(d, platformLittle)

LEMMA ItemIsRead ==
    ASSUME NEW e \in Encoders, NEW item, IsItem(item), item.type \in PlainTypes,
           NEW d \in Decoders, d.offset = e.offset, d.little = e.little,
           Agrees(d, e.offset, PutItem(e, item)), PutItem(e, item).offset < UlongLimit,
           NEW platformLittle
    PROVE  GetPlain(d, item, platformLittle)
               = Advanced(d, PutItem(e, item).offset, Expected(item))
  <1>1. CASE item.type = "octet"
    <2>1. item.v \in Octet
      BY <1>1 DEF IsItem
    <2>2. PutItem(e, item) = PutOctet(e, item.v) /\ Expected(item) = <<item.v>>
          /\ GetPlain(d, item, platformLittle) = GetNumber(d, 1)
      BY <1>1 DEF PutItem, Expected, GetPlain
    <2>. QED
      BY <2>1, <2>2, OctetIsRead
  <1>2. CASE item.type = "number"
    <2>1. item.v \in AnyWord
      BY <1>2 DEF IsItem, Word, AnyWord, AlignWidth
    <2>2. PutItem(e, item) = PutNumber(e, item.v) /\ Expected(item) = item.v
          /\ GetPlain(d, item, platformLittle) = GetNumber(d, Len(item.v))
      BY <1>2 DEF PutItem, Expected, GetPlain
    <2>. QED
      BY <2>1, <2>2, PutNumberIsRead
  <1>3. CASE item.type = "string"
    <2>1. item.v \in Seq(Octet)
      BY <1>3 DEF IsItem
    <2>2. PutItem(e, item) = PutString(e, item.v) /\ Expected(item) = item.v
          /\ GetPlain(d, item, platformLittle) = GetString(d)
      BY <1>3 DEF PutItem, Expected, GetPlain
    <2>. QED
      BY <2>1, <2>2, PutStringIsRead
  <1>4. CASE item.type = "blob"
    <2>1. item.v \in Seq(Octet)
      BY <1>4 DEF IsItem
    <2>2. PutItem(e, item) = PutBlob(e, item.v) /\ Expected(item) = item.v
          /\ GetPlain(d, item, platformLittle) = GetBlob(d)
      BY <1>4 DEF PutItem, Expected, GetPlain
    <2>. QED
      BY <2>1, <2>2, PutBlobIsRead
  <1>5. CASE item.type = "sequence"
    <2>1. item.width \in AlignWidth /\ item.v \in Seq(Word(item.width))
      BY <1>5 DEF IsItem, AlignWidth
    <2>2. PutItem(e, item) = PutSequence(e, item.v) /\ Expected(item) = item.v
          /\ GetPlain(d, item, platformLittle) = GetSequence(d, item.width)
      BY <1>5 DEF PutItem, Expected, GetPlain
    <2>. QED
      BY <2>1, <2>2, PutSequenceIsRead
  <1>6. CASE item.type = "octets"
    <2>1. item.v \in Seq(Octet)
      BY <1>6 DEF IsItem
    <2>2. PutItem(e, item) = PutSequenceOctet(e, item.v) /\ Expected(item) = item.v
          /\ GetPlain(d, item, platformLittle) = GetSequenceOctet(d)
      BY <1>6 DEF PutItem, Expected, GetPlain
    <2>. QED
      BY <2>1, <2>2, PutSequenceOctetIsRead
  <1>7. CASE item.type = "floats"
    <2> DEFINE vs == item.v
               c == Put(ReserveVarying(PutUlong(e, Len(vs)), 4, 4 * Len(vs)),
                        Elements(vs, e.little))
    <2>1. vs \in Seq(Word(4))
      BY <1>7 DEF IsItem
    <2>2. PutItem(e, item) = c /\ Expected(item) = vs
          /\ GetPlain(d, item, platformLittle) = GetSequenceFloat(d, platformLittle)
      BY <1>7 DEF PutItem, PutSequenceFloat, Expected, GetPlain
    <2>3. Agrees(d, e.offset, c) /\ c.offset < UlongLimit
      BY <2>2
    <2> HIDE DEF vs
    <2>4. GetSequenceFloat(d, platformLittle) = Advanced(d, c.offset, vs)
      BY <2>1, <2>3, PutArrayIsRead
    <2>. QED
      BY <2>2, <2>4
  <1>8. CASE item.type = "doubles"
    <2> DEFINE vs == item.v
               c == Put(ReserveVarying(PutUlong(e, Len(vs)), 8, 8 * Len(vs)),
                        Elements(vs, e.little))
    <2>1. vs \in Seq(Word(8))
      BY <1>8 DEF IsItem
    <2>2. PutItem(e, item) = c /\ Expected(item) = vs
          /\ GetPlain(d, item, platformLittle) = GetSequenceDouble(d, platformLittle)
      BY <1>8 DEF PutItem, PutSequenceDouble, Expected, GetPlain
    <2>3. Agrees(d, e.offset, c) /\ c.offset < UlongLimit
      BY <2>2
    <2> HIDE DEF vs
    <2>4. GetSequenceDouble(d, platformLittle) = Advanced(d, c.offset, vs)
      BY <2>1, <2>3, PutArrayIsRead
    <2>. QED
      BY <2>2, <2>4
  <1>. QED
    BY <1>1, <1>2, <1>3, <1>4, <1>5, <1>6, <1>7, <1>8 DEF PlainTypes

LEMMA ReadsPlain ==
    ASSUME NEW d, NEW item, item.type \in PlainTypes
    PROVE  GetItem(d, item) = GetPlain(d, item, platform)
  <1>1. CASE item.type \in {"octet", "number", "string", "blob"}
    BY <1>1 DEF GetItem, GetPlain
  <1>2. CASE item.type \in {"sequence", "octets", "floats", "doubles"}
    BY <1>2 DEF GetItem, GetPlain
  <1>. QED
    BY <1>1, <1>2 DEF PlainTypes
-----------------------------------------------------------------------------
(***************************************************************************)
(* The inductive invariant of a message that is written and read.          *)
(***************************************************************************)
\* What can be written of a set of items.
Things(items) ==
    [type : {"endian", "item", "open", "close"}, item : items \cup BOOLEAN,
     offset : Nat, little : BOOLEAN, depth : Nat]

\* Each thing and the one before it: what is written goes on, and the
\* encapsulations nest.
Follows(v, w) ==
    /\ v.offset <= w.offset
    /\ \/ w.type = "item" /\ w.depth = v.depth /\ w.little = v.little
       \/ w.type = "open" /\ w.depth = v.depth + 1
       \/ w.type = "close" /\ w.depth = v.depth - 1 /\ w.offset = v.offset

\* What the things written last say of the encoder.
Shape ==
    /\ written \in Seq(Things(plan.items))
    /\ Len(written) = 0 => enc.offset = 0 /\ Len(orders) = 0
    /\ Len(written) > 0 =>
          /\ written[1].type = "endian" /\ written[1].offset = 1 /\ written[1].depth = 0
          /\ enc.bytes[1] = IF written[1].little THEN 1 ELSE 0
          /\ written[Len(written)].offset = enc.offset
          /\ written[Len(written)].little = enc.little
          /\ written[Len(written)].depth = Len(orders)
    /\ \A i \in 2..Len(written) :
          /\ Follows(written[i - 1], written[i])
          /\ written[i].type = "item" => written[i].item \in plan.items
    /\ \A i, j \in 1..Len(written) : i <= j => written[i].offset <= written[j].offset

\* For each of the encapsulations that are still open: the thing that opened it tells
\* the place of the size, and the byte order to return to.
OpenIn(things, stack, little, depth) ==
    \A k \in 1..depth : \E i \in 2..Len(things) :
        /\ things[i].type = "open" /\ things[i].depth = k
        /\ \A m \in i..Len(things) : things[m].depth >= k
        /\ stack[k] = things[i].offset - 1
        /\ little[k] = things[i - 1].little

Places == OpenIn(written, enc.sizeStack, orders, Len(orders))

\* From i on, j is the first thing that is less than k levels deep.
LeavesAt(i, j, k) ==
    /\ i < j /\ written[j].depth < k
    /\ \A m \in i + 1..j - 1 : written[m].depth >= k

\* The buffer shows a ulong behind an offset.
Spells(bytes, from, n, little) ==
    \A m \in 1..4 : bytes[from + m] = InOrder(Pattern(n, 4), little)[m]

\* What is in the buffer of an encapsulation: type, and byte order.
Begins(bytes, v, w) ==
    /\ w.offset = Aligned(v.offset, 4) + 9
    /\ Spells(bytes, w.offset - 9, 0, v.little)
    /\ bytes[w.offset] = IF w.little THEN 1 ELSE 0

\* Its size leads to where it was closed.
Sized(bytes, v, w, end) ==
    /\ Spells(bytes, w.offset - 5, end.offset - w.offset + 1, v.little)
    /\ end.little = v.little

\* A decoder where v was written reads w.
Reads(bytes, v, w) ==
    \A d \in Decoders : \A platformLittle \in BOOLEAN :
        /\ d.offset = v.offset /\ d.little = v.little
        /\ w.offset <= Len(d.bytes)
        /\ \A p \in v.offset + 1..w.offset : d.bytes[p] = bytes[p]
        => GetPlain(d, w.item, platformLittle) = Advanced(d, w.offset, Expected(w.item))

ItemsRead ==
    \A i \in 2..Len(written) : written[i].type = "item" =>
        Reads(enc.bytes, written[i - 1], written[i])

Opens ==
    \A i \in 2..Len(written) : written[i].type = "open" =>
        Begins(enc.bytes, written[i - 1], written[i])

Closes ==
    \A i \in 2..Len(written) : \A j \in 2..Len(written) :
        written[i].type = "open" /\ LeavesAt(i, j, written[i].depth) =>
            Sized(enc.bytes, written[i - 1], written[i], written[j])

\* A decoder that has not thrown, whatever it returned.
IsDecoder(d) ==
    d \in [offset : Nat, bytes : Seq(Octet), little : BOOLEAN, encapStack : Seq(Closing),
           ok : {TRUE}, got : {d.got}]

\* The decoder is where the encoder was, and knows where the encapsulations end
\* that it is in.
ReaderInv ==
    /\ phase \in {"writing", "reading"} /\ platform \in BOOLEAN
    /\ phase = "writing" => next = 0 /\ dec.ok
    /\ phase = "reading" =>
          /\ Len(orders) = 0
          /\ next \in 1..Len(written)
          /\ IsDecoder(dec)
          /\ Len(dec.bytes) = enc.offset
          /\ \A p \in 1..enc.offset : dec.bytes[p] = enc.bytes[p]
          /\ dec.offset = written[next].offset /\ dec.little = written[next].little
          /\ Len(dec.encapStack) = written[next].depth
          /\ \A k \in 1..Len(dec.encapStack) : \A j \in 1..Len(written) :
                LeavesAt(next, j, k) =>
                    dec.encapStack[k] = [nextOffset |-> written[j].offset,
                                         endian |-> written[j].little]
          /\ written[next].type = "item" =>
                dec.got \in {<<>>, <<Expected(written[next].item)>>}

StreamInv ==
    EncInv /\ Shape /\ Places /\ ItemsRead /\ Opens /\ Closes /\ ReaderInv

\* The messages of this module: of items of CDR, and no longer than a ulong tells.
Plain == \A item \in plan.items : item.type \in PlainTypes
Small == enc.offset < UlongLimit
-----------------------------------------------------------------------------
(***************************************************************************)
(* What is written.                                                        *)
(***************************************************************************)
LEMMA Grown ==
    ASSUME NEW S, NEW s \in Seq(S), NEW w \in S, NEW t, t = Append(s, w)
    PROVE  /\ t \in Seq(S) /\ Len(t) = Len(s) + 1 /\ Len(s) \in Nat
           /\ \A i \in 1..Len(s) : t[i] = s[i]
           /\ t[Len(s) + 1] = w
  OBVIOUS

LEMMA ThingsAre ==
    ASSUME Shape, NEW i \in 1..Len(written)
    PROVE  /\ written[i] \in Things(plan.items)
           /\ written[i].offset \in Nat /\ written[i].depth \in Nat
           /\ written[i].little \in BOOLEAN
  <1>1. written \in Seq(Things(plan.items))
    BY DEF Shape
  <1>2. written[i] \in Things(plan.items)
    BY <1>1
  <1>. QED
    BY <1>2 DEF Things

\* A thing is added to what was written.
LEMMA ShapeGrows ==
    ASSUME Shape, Len(written) > 0, plan' = plan,
           NEW w \in Things(plan.items), written' = Append(written, w),
           w.offset = enc'.offset, w.little = enc'.little, w.depth = Len(orders'),
           Follows(written[Len(written)], w), w.type = "item" => w.item \in plan.items,
           enc'.bytes[1] = enc.bytes[1]
    PROVE  Shape'
  <1> DEFINE n == Len(written)
             t == written'
  <1>1. written \in Seq(Things(plan.items))
    BY DEF Shape
  <1>2. /\ t \in Seq(Things(plan.items)) /\ Len(t) = n + 1 /\ n \in Nat /\ n > 0
        /\ \A i \in 1..n : t[i] = written[i]
        /\ t[n + 1] = w
    BY <1>1, Grown
  <1>3. t[1] = written[1]
    BY <1>2
  <1>4. ASSUME NEW i \in 2..Len(t)
        PROVE  Follows(t[i - 1], t[i]) /\ (t[i].type = "item" => t[i].item \in plan.items)
    <2>1. CASE i = n + 1
      <3>1. t[i - 1] = written[n] /\ t[i] = w
        BY <1>2, <2>1
      <3>. QED
        BY <3>1
    <2>2. CASE i \in 2..n
      <3>1. t[i - 1] = written[i - 1] /\ t[i] = written[i]
        BY <1>2, <2>2
      <3>2. Follows(written[i - 1], written[i])
            /\ (written[i].type = "item" => written[i].item \in plan.items)
        BY <2>2 DEF Shape
      <3>. QED
        BY <3>1, <3>2
    <2>. QED
      BY <1>2, <2>1, <2>2
  <1>5. ASSUME NEW i \in 1..Len(t), NEW j \in 1..Len(t), i <= j
        PROVE  t[i].offset <= t[j].offset
    <2>1. CASE j \in 1..n
      <3>1. i \in 1..n /\ t[i] = written[i] /\ t[j] = written[j]
        BY <1>2, <1>5, <2>1
      <3>2. written[i].offset <= written[j].offset
        BY <1>5, <2>1, <3>1 DEF Shape
      <3>. QED
        BY <3>1, <3>2
    <2>2. CASE j = n + 1 /\ i = n + 1
      <3>1. w.offset \in Nat
        BY DEF Things
      <3>. QED
        BY <1>2, <2>2, <3>1
    <2>3. CASE j = n + 1 /\ i \in 1..n
      <3>1. t[i] = written[i] /\ t[j] = w /\ n \in 1..n
        BY <1>2, <2>3
      <3>2. written[i].offset <= written[n].offset
        BY <1>2, <2>3, <3>1 DEF Shape
      <3>3. written[n].offset <= w.offset
        BY DEF Follows
      <3>4. written[i].offset \in Nat /\ written[n].offset \in Nat /\ w.offset \in Nat
        BY <2>3, <3>1, ThingsAre DEF Things
      <3>. QED
        BY <3>1, <3>2, <3>3, <3>4
    <2>. QED
      BY <1>2, <2>1, <2>2, <2>3
  <1> HIDE DEF n
  <1>6. /\ t[1].type = "endian" /\ t[1].offset = 1 /\ t[1].depth = 0
        /\ enc'.bytes[1] = IF t[1].little THEN 1 ELSE 0
    <2>1. /\ written[1].type = "endian" /\ written[1].offset = 1 /\ written[1].depth = 0
          /\ enc.bytes[1] = IF written[1].little THEN 1 ELSE 0
      BY DEF Shape
    <2>. QED
      BY <1>3, <2>1
  <1>7. t[Len(t)] = w /\ Len(t) > 0 /\ Len(t) # 0
    BY <1>2
  <1>. QED
    BY <1>2, <1>4, <1>5, <1>6, <1>7 DEF Shape

\* What is behind an offset stays what it shows.
LEMMA StillReads ==
    ASSUME NEW bytes, NEW other, NEW v, NEW w, Reads(bytes, v, w),
           \A p \in v.offset + 1..w.offset : other[p] = bytes[p]
    PROVE  Reads(other, v, w)
  BY DEF Reads

LEMMA StillBegins ==
    ASSUME NEW bytes, NEW other, NEW v, NEW w, v.offset \in Nat, w.offset \in Nat,
           Begins(bytes, v, w),
           \A p \in v.offset + 1..w.offset : other[p] = bytes[p]
    PROVE  Begins(other, v, w)
  <1> DEFINE a == v.offset
             b == w.offset
             at == Aligned(a, 4)
  <1>1. at \in Nat /\ at >= a
    BY AlignedUp, Zenon DEF AlignWidth
  <1>2. b = at + 9
    BY DEF Begins
  <1> HIDE DEF at
  <1>3. \A m \in 1..4 : b - 9 + m \in a + 1..b
    BY <1>1, <1>2
  <1>4. b \in a + 1..b
    BY <1>1, <1>2
  <1>5. \A m \in 1..4 : other[b - 9 + m] = bytes[b - 9 + m]
    BY <1>3
  <1>6. other[b] = bytes[b]
    BY <1>4
  <1>. QED
    BY <1>5, <1>6 DEF Begins, Spells

LEMMA StillSized ==
    ASSUME NEW bytes, NEW other, NEW v, NEW w, NEW end, v.offset \in Nat, w.offset \in Nat,
           w.offset = Aligned(v.offset, 4) + 9, Sized(bytes, v, w, end),
           \A p \in v.offset + 1..w.offset : other[p] = bytes[p]
    PROVE  Sized(other, v, w, end)
  <1> DEFINE a == v.offset
             b == w.offset
             at == Aligned(a, 4)
  <1>1. at \in Nat /\ at >= a
    BY AlignedUp, Zenon DEF AlignWidth
  <1>2. b = at + 9
    OBVIOUS
  <1> HIDE DEF at
  <1>3. \A m \in 1..4 : b - 5 + m \in a + 1..b
    BY <1>1, <1>2
  <1>4. \A m \in 1..4 : other[b - 5 + m] = bytes[b - 5 + m]
    BY <1>3
  <1>. QED
    BY <1>4 DEF Sized, Spells

\* A thing is added, and what earlier things put into the buffer stays, except for
\* the thing o: an encapsulation that is still open.
LEMMA ContentsGrow ==
    ASSUME Shape, ItemsRead, Opens, Closes, Len(written) > 0,
           NEW w \in Things(plan.items), written' = Append(written, w),
           NEW o \in Nat,
           \A i \in 2..Len(written) : i # o =>
               \A p \in written[i - 1].offset + 1..written[i].offset : enc'.bytes[p] = enc.bytes[p],
           o \in 2..Len(written) =>
               /\ written[o].type = "open"
               /\ \A m \in o..Len(written) : written[m].depth >= written[o].depth
               /\ Begins(enc'.bytes, written[o - 1], written[o]),
           w.type = "item" => Reads(enc'.bytes, written[Len(written)], w),
           w.type = "open" => Begins(enc'.bytes, written[Len(written)], w),
           \A i \in 2..Len(written) :
               /\ written[i].type = "open" /\ w.depth < written[i].depth
               /\ \A m \in i + 1..Len(written) : written[m].depth >= written[i].depth
               => Sized(enc'.bytes, written[i - 1], written[i], w)
    PROVE  ItemsRead' /\ Opens' /\ Closes'
  <1> DEFINE n == Len(written)
             t == written'
             bytes == enc.bytes
             other == enc'.bytes
  <1>1. written \in Seq(Things(plan.items))
    BY DEF Shape
  <1>2. /\ Len(t) = n + 1 /\ n \in Nat /\ n > 0
        /\ \A i \in 1..n : t[i] = written[i]
        /\ t[n + 1] = w
    BY <1>1, Grown
  <1>3. ASSUME NEW i \in 2..n
        PROVE  /\ t[i - 1] = written[i - 1] /\ t[i] = written[i]
               /\ written[i - 1].offset \in Nat /\ written[i].offset \in Nat
               /\ written[i - 1].depth \in Nat /\ written[i].depth \in Nat
    <2>1. i \in 1..n /\ i - 1 \in 1..n
      BY <1>2
    <2>. QED
      BY <1>2, <2>1, ThingsAre
  <1>4. ASSUME NEW i \in 2..n + 1, t[i].type = "item"
        PROVE  Reads(other, t[i - 1], t[i])
    <2>1. CASE i = n + 1
      BY <1>2, <1>4, <2>1
    <2>2. CASE i \in 2..n
      <3>1. Reads(bytes, written[i - 1], written[i])
        BY <1>3, <1>4, <2>2 DEF ItemsRead
      <3>2. i # o
        BY <1>3, <1>4, <2>2
      <3>3. \A p \in written[i - 1].offset + 1..written[i].offset : other[p] = bytes[p]
        BY <2>2, <3>2
      <3>4. Reads(other, written[i - 1], written[i])
        BY <3>1, <3>3, StillReads
      <3>. QED
        BY <1>3, <2>2, <3>4
    <2>. QED
      BY <1>2, <2>1, <2>2
  <1>5. ASSUME NEW i \in 2..n + 1, t[i].type = "open"
        PROVE  Begins(other, t[i - 1], t[i])
    <2>1. CASE i = n + 1
      BY <1>2, <1>5, <2>1
    <2>2. CASE i \in 2..n /\ i = o
      BY <1>3, <2>2
    <2>3. CASE i \in 2..n /\ i # o
      <3>1. Begins(bytes, written[i - 1], written[i])
        BY <1>3, <1>5, <2>3 DEF Opens
      <3>2. \A p \in written[i - 1].offset + 1..written[i].offset : other[p] = bytes[p]
        BY <2>3
      <3>3. Begins(other, written[i - 1], written[i])
        BY <1>3, <2>3, <3>1, <3>2, StillBegins, Zenon
      <3>. QED
        BY <1>3, <2>3, <3>3
    <2>. QED
      BY <1>2, <2>1, <2>2, <2>3
  <1>6. ASSUME NEW i \in 2..n + 1, NEW j \in 2..n + 1, t[i].type = "open", i < j,
               t[j].depth < t[i].depth,
               \A m \in i + 1..j - 1 : t[m].depth >= t[i].depth
        PROVE  Sized(other, t[i - 1], t[i], t[j])
    <2>1. i \in 2..n
      BY <1>2, <1>6
    <2>2. written[i].type = "open" /\ t[i] = written[i] /\ t[i - 1] = written[i - 1]
      BY <1>3, <1>6, <2>1
    <2>3. \A m \in i + 1..j - 1 : m \in 1..n /\ t[m] = written[m]
      BY <1>2, <2>1
    <2>4. CASE j = n + 1
      <3>1. j - 1 = n /\ t[j] = w
        BY <1>2, <2>4
      <3>2. \A m \in i + 1..n : written[m].depth >= written[i].depth
        BY <1>6, <2>2, <2>3, <3>1
      <3>. QED
        BY <1>6, <2>1, <2>2, <3>1, <3>2
    <2>5. CASE j \in 2..n
      <3>1. t[j] = written[j]
        BY <1>3, <2>5
      <3>2. LeavesAt(i, j, written[i].depth)
        BY <1>6, <2>2, <2>3, <3>1 DEF LeavesAt
      <3>3. Sized(bytes, written[i - 1], written[i], written[j])
        BY <2>1, <2>2, <2>5, <3>2 DEF Closes
      <3>4. i # o
        <4>1. CASE i = o
          <5>1. j \in o..n
            BY <1>6, <2>5, <4>1
          <5>2. written[j].depth >= written[o].depth
            BY <2>1, <4>1, <5>1
          <5>3. written[j].depth < written[o].depth
            BY <1>6, <2>2, <3>1, <4>1
          <5>4. written[j].depth \in Nat /\ written[o].depth \in Nat
            BY <1>3, <2>1, <2>5, <4>1
          <5>. QED
            BY <5>2, <5>3, <5>4
        <4>. QED
          BY <4>1
      <3>5. \A p \in written[i - 1].offset + 1..written[i].offset : other[p] = bytes[p]
        BY <2>1, <3>4
      <3>6. written[i].offset = Aligned(written[i - 1].offset, 4) + 9
        BY <2>1, <2>2 DEF Opens, Begins
      <3>7. Sized(other, written[i - 1], written[i], written[j])
        BY <1>3, <2>1, <3>3, <3>5, <3>6, StillSized, Zenon
      <3>. QED
        BY <2>2, <3>1, <3>7
    <2>. QED
      BY <1>2, <2>4, <2>5
  <1> HIDE DEF n
  <1>7. ItemsRead'
    BY <1>2, <1>4 DEF ItemsRead
  <1>8. Opens'
    BY <1>2, <1>5 DEF Opens
  <1>9. Closes'
    BY <1>2, <1>6, Zenon DEF Closes, LeavesAt
  <1>. QED
    BY <1>7, <1>8, <1>9

\* The thing added is in no fewer than depth encapsulations, and what is kept of
\* these stays.
LEMMA PlacesGrow ==
    ASSUME Shape, Places, Len(written) > 0,
           NEW w \in Things(plan.items), written' = Append(written, w),
           NEW depth \in Nat, depth <= Len(orders), depth <= w.depth,
           \A k \in 1..depth : enc'.sizeStack[k] = enc.sizeStack[k] /\ orders'[k] = orders[k]
    PROVE  OpenIn(written', enc'.sizeStack, orders', depth)
  <1> DEFINE n == Len(written)
             t == written'
  <1>1. written \in Seq(Things(plan.items)) /\ w.depth \in Nat
    BY DEF Shape, Things
  <1>2. /\ Len(t) = n + 1 /\ n \in Nat /\ n > 0
        /\ \A i \in 1..n : t[i] = written[i]
        /\ t[n + 1] = w
    BY <1>1, Grown
  <1>3. ASSUME NEW k \in 1..depth
        PROVE  \E i \in 2..Len(t) :
                  /\ t[i].type = "open" /\ t[i].depth = k
                  /\ \A m \in i..Len(t) : t[m].depth >= k
                  /\ enc'.sizeStack[k] = t[i].offset - 1
                  /\ orders'[k] = t[i - 1].little
    <2>1. k \in 1..Len(orders)
      <3>1. Len(orders) \in Int
        <4>1. written[n].depth = Len(orders) /\ n \in 1..n
          BY <1>2 DEF Shape
        <4>. QED
          BY <1>1, <4>1, ThingsAre
      <3>. QED
        BY <3>1
    <2>2. PICK i \in 2..n : /\ written[i].type = "open" /\ written[i].depth = k
                            /\ \A m \in i..n : written[m].depth >= k
                            /\ enc.sizeStack[k] = written[i].offset - 1
                            /\ orders[k] = written[i - 1].little
      BY <2>1, Zenon DEF Places, OpenIn
    <2>3. i \in 2..Len(t) /\ i \in 1..n /\ i - 1 \in 1..n
      BY <1>2
    <2>4. t[i] = written[i] /\ t[i - 1] = written[i - 1]
      BY <1>2, <2>3
    <2>5. ASSUME NEW m \in i..Len(t)
          PROVE  t[m].depth >= k
      <3>1. CASE m = n + 1
        BY <1>1, <1>2, <3>1
      <3>2. CASE m \in i..n
        <4>1. m \in 1..n /\ t[m] = written[m]
          BY <1>2, <2>3, <3>2
        <4>. QED
          BY <2>2, <3>2, <4>1
      <3>3. m = n + 1 \/ m \in i..n
        <4>1. Len(t) = n + 1 /\ n \in Int /\ i \in Int
          BY <1>2
        <4> HIDE DEF n, t
        <4>. QED
          BY <4>1
      <3>. QED
        BY <3>1, <3>2, <3>3
    <2>. QED
      BY <2>2, <2>3, <2>4, <2>5, Zenon
  <1>. QED
    BY <1>3, Zenon DEF OpenIn

\* What was written lies before the encoder.
LEMMA EarlierThings ==
    ASSUME Shape, Len(written) > 0, NEW bytes,
           \A p \in 1..enc.offset : bytes[p] = enc.bytes[p]
    PROVE  \A i \in 2..Len(written) :
               \A p \in written[i - 1].offset + 1..written[i].offset : bytes[p] = enc.bytes[p]
  <1> DEFINE n == Len(written)
  <1>1. n \in Nat /\ n > 0 /\ n \in 1..n
    BY DEF Shape
  <1>2. written[n].offset = enc.offset
    BY DEF Shape
  <1>3. ASSUME NEW i \in 2..n, NEW p \in written[i - 1].offset + 1..written[i].offset
        PROVE  bytes[p] = enc.bytes[p]
    <2>1. i \in 1..n /\ i - 1 \in 1..n /\ i <= n
      BY <1>1
    <2>2. written[i].offset \in Nat /\ written[i - 1].offset \in Nat /\ written[n].offset \in Nat
      BY <1>1, <2>1, ThingsAre
    <2>3. written[i].offset <= written[n].offset
      BY <1>1, <2>1 DEF Shape
    <2>4. p \in 1..enc.offset
      BY <1>2, <2>2, <2>3
    <2>. QED
      BY <2>4
  <1>. QED
    BY <1>3

\* A thing that does not leave an encapsulation ends none.
LEMMA NothingEnds ==
    ASSUME Shape, Len(written) > 0, NEW depth \in Nat, depth >= written[Len(written)].depth
    PROVE  \A i \in 2..Len(written) :
               ~(/\ written[i].type = "open" /\ depth < written[i].depth
                 /\ \A m \in i + 1..Len(written) : written[m].depth >= written[i].depth)
  <1> DEFINE n == Len(written)
  <1>1. n \in Nat /\ n > 0 /\ n \in 1..n
    BY DEF Shape
  <1>2. ASSUME NEW i \in 2..n, depth < written[i].depth,
               \A m \in i + 1..n : written[m].depth >= written[i].depth
        PROVE  FALSE
    <2>1. i \in 1..n /\ (i = n \/ n \in i + 1..n)
      BY <1>1
    <2>2. written[i].depth \in Nat /\ written[n].depth \in Nat
      BY <1>1, <2>1, ThingsAre
    <2>3. written[n].depth >= written[i].depth
      BY <1>2, <2>1, <2>2
    <2>. QED
      BY <1>2, <2>2, <2>3
  <1>. QED
    BY <1>2

\* The reader has nothing to do with what is written.
LEMMA NotReading ==
    ASSUME ReaderInv, phase = "writing", phase' = "writing", UNCHANGED <<dec, next, platform>>
    PROVE  ReaderInv'
  BY DEF ReaderInv

LEMMA InitStream == Init => StreamInv
  <1> SUFFICES ASSUME Init
               PROVE  StreamInv
    OBVIOUS
  <1>1. EncInv
    BY InitEnc
  <1>2. written = <<>> /\ orders = <<>> /\ phase = "writing" /\ next = 0 /\ dec = Decoder(<<>>)
        /\ platform \in BOOLEAN
    BY DEF Init
  <1>3. Len(written) = 0 /\ Len(orders) = 0 /\ written \in Seq(Things(plan.items))
        /\ (1..0 = {}) /\ (2..0 = {}) /\ ~(0 > 0)
    BY <1>2
  <1>4. enc.offset = 0
    BY NewEncoder DEF Init
  <1>5. Shape
    BY <1>3, <1>4 DEF Shape
  <1>6. Places /\ ItemsRead /\ Opens /\ Closes
    BY <1>3 DEF Places, OpenIn, ItemsRead, Opens, Closes
  <1>7. ReaderInv
    BY <1>2 DEF ReaderInv, Decoder
  <1>. QED
    BY <1>1, <1>5, <1>6, <1>7 DEF StreamInv

LEMMA BeginStream == StreamInv /\ Begin => StreamInv'
  <1> SUFFICES ASSUME StreamInv, Begin
               PROVE  StreamInv'
    OBVIOUS
  <1> DEFINE w == [type |-> "endian", item |-> enc.little, offset |-> enc'.offset,
                   little |-> enc'.little, depth |-> Len(orders')]
  <1>1. EncInv'
    BY BeginKeeps DEF StreamInv
  <1>2. written = <<>> /\ Len(written) = 0 /\ phase = "writing" /\ enc' = PutEndian(enc)
        /\ orders' = orders /\ plan' = plan /\ written' = <<w>>
        /\ UNCHANGED <<phase, dec, next, platform>>
    BY DEF Begin, Record
  <1>3. enc.offset = 0 /\ Len(orders) = 0
    BY <1>2 DEF StreamInv, Shape
  <1>4. enc' \in Encoders /\ enc'.offset = 1 /\ enc'.little = enc.little
        /\ enc'.bytes[1] = IF enc.little THEN 1 ELSE 0
    <2>1. enc \in Encoders
      BY DEF StreamInv, EncInv
    <2>2. enc' \in Later(enc) /\ enc'.offset = enc.offset + 1
          /\ enc'.bytes[enc.offset + 1] = IF enc.little THEN 1 ELSE 0
      BY <1>2, <2>1, EndianKeeps
    <2>3. enc.offset + 1 = 1
      BY <1>3
    <2>. QED
      BY <2>1, <2>2, <2>3, LaterIsEncoder DEF Later, Beyond
  <1>5. w.type = "endian" /\ w.offset = 1 /\ w.little = enc.little /\ w.depth = 0
        /\ enc.little \in BOOLEAN
    BY <1>2, <1>3, <1>4 DEF Encoders
  <1>6. w \in Things(plan.items)
    BY <1>2, <1>3, <1>4, <1>5 DEF Things
  <1> HIDE DEF w
  <1>7. written' \in Seq(Things(plan'.items)) /\ Len(written') = 1 /\ written'[1] = w
    BY <1>2, <1>6
  <1>8. \A i \in 1..1 : i = 1
    OBVIOUS
  <1>9. Shape'
    <2>1. \A i, j \in 1..Len(written') : i <= j => written'[i].offset <= written'[j].offset
      BY <1>5, <1>7, <1>8
    <2>2. 2..Len(written') = {} /\ Len(written') > 0 /\ Len(written') # 0
      BY <1>7
    <2>. QED
      BY <1>2, <1>3, <1>4, <1>5, <1>7, <2>1, <2>2 DEF Shape
  <1>10. Places' /\ ItemsRead' /\ Opens' /\ Closes'
    <2>1. 2..Len(written') = {} /\ 1..Len(orders') = {}
      BY <1>2, <1>3, <1>7
    <2>. QED
      BY <2>1 DEF Places, OpenIn, ItemsRead, Opens, Closes
  <1>11. ReaderInv'
    BY <1>2, NotReading DEF StreamInv
  <1>. QED
    BY <1>1, <1>9, <1>10, <1>11 DEF StreamInv

LEMMA WriteStream ==
    ASSUME NEW item \in plan.items, StreamInv, Plain, Small', Write(item)
    PROVE  StreamInv'
  <1> DEFINE w == [type |-> "item", item |-> item, offset |-> enc'.offset,
                   little |-> enc'.little, depth |-> Len(orders')]
             n == Len(written)
  <1>1. EncInv'
    BY WriteKeeps DEF StreamInv
  <1>2. Shape /\ Places /\ ItemsRead /\ Opens /\ Closes /\ enc \in Encoders /\ orders \in Seq(BOOLEAN)
    BY DEF StreamInv, EncInv
  <1>3. /\ phase = "writing" /\ written # <<>> /\ enc' = PutItem(enc, item)
        /\ orders' = orders /\ plan' = plan /\ written' = Append(written, w)
        /\ UNCHANGED <<phase, dec, next, platform>>
    BY DEF Write, Writing, Record
  <1>4. n \in Nat /\ n > 0 /\ n \in 1..n
    BY <1>2, <1>3 DEF Shape
  <1>5. IsItem(item) /\ item.type \in PlainTypes
    BY PlanAssumption DEF StreamInv, EncInv, Plain
  <1>6. /\ enc' \in Later(enc) /\ enc' \in Encoders /\ enc'.little = enc.little
        /\ enc'.sizeStack = enc.sizeStack /\ enc'.offset >= enc.offset
        /\ \A p \in 1..enc.offset : enc'.bytes[p] = enc.bytes[p]
    <2>1. enc' \in Later(enc)
      BY <1>2, <1>3, <1>5, ItemKeeps
    <2>. QED
      BY <1>2, <2>1, LaterIsEncoder DEF Later, Beyond
  <1>7. written[n].offset = enc.offset /\ written[n].little = enc.little
        /\ written[n].depth = Len(orders) /\ enc.offset \in Nat /\ enc'.offset \in Nat
        /\ Len(orders) \in Nat /\ enc'.little \in BOOLEAN
    BY <1>2, <1>4, <1>6 DEF Shape, Encoders
  <1>8. w.type = "item" /\ w.item = item /\ w.offset = enc'.offset /\ w.little = enc'.little
        /\ w.depth = Len(orders')
    OBVIOUS
  <1>9. w \in Things(plan.items)
    BY <1>3, <1>7 DEF Things
  <1> HIDE DEF w, n
  <1>10. Follows(written[Len(written)], w)
    BY <1>3, <1>6, <1>7, <1>8 DEF Follows, n
  <1>11. enc.offset >= 1 /\ 1 \in 1..n
    <2>1. written[1].offset = 1 /\ written[1].offset <= written[n].offset
      BY <1>2, <1>4 DEF Shape, n
    <2>. QED
      BY <1>4, <1>7, <2>1
  <1>12. Shape'
    <2>1. enc'.bytes[1] = enc.bytes[1]
      BY <1>6, <1>7, <1>11
    <2>. QED
      BY <1>2, <1>3, <1>4, <1>8, <1>9, <1>10, <2>1, ShapeGrows DEF n
  <1>13. Reads(enc'.bytes, written[Len(written)], w)
    <2> SUFFICES ASSUME NEW d \in Decoders, NEW platformLittle \in BOOLEAN,
                        d.offset = enc.offset, d.little = enc.little, enc'.offset <= Len(d.bytes),
                        \A p \in enc.offset + 1..enc'.offset : d.bytes[p] = enc'.bytes[p]
                 PROVE  GetPlain(d, item, platformLittle)
                            = Advanced(d, enc'.offset, Expected(item))
      BY <1>7, <1>8 DEF Reads, n
    <2>1. Agrees(d, enc.offset, enc')
      BY DEF Agrees
    <2>2. enc'.offset < UlongLimit
      BY DEF Small
    <2>. QED
      BY <1>2, <1>3, <1>5, <2>1, <2>2, ItemIsRead
  <1>14. ItemsRead' /\ Opens' /\ Closes'
    <2>1. \A i \in 2..Len(written) :
              \A p \in written[i - 1].offset + 1..written[i].offset : enc'.bytes[p] = enc.bytes[p]
      BY <1>2, <1>4, <1>6, EarlierThings DEF n
    <2>2. \A i \in 2..Len(written) :
              ~(/\ written[i].type = "open" /\ w.depth < written[i].depth
                /\ \A m \in i + 1..Len(written) : written[m].depth >= written[i].depth)
      BY <1>2, <1>3, <1>4, <1>7, <1>8, NothingEnds DEF n
    <2>3. 0 \in Nat /\ 0 \notin 2..Len(written)
      OBVIOUS
    <2>. QED
      BY <1>2, <1>3, <1>4, <1>8, <1>9, <1>13, <2>1, <2>2, <2>3, ContentsGrow DEF n
  <1> DEFINE depth == Len(orders)
  <1>15. Places'
    <2>1. depth \in Nat /\ depth <= Len(orders) /\ depth <= w.depth /\ Len(orders') = depth
      BY <1>3, <1>7, <1>8
    <2>2. \A k \in 1..depth : enc'.sizeStack[k] = enc.sizeStack[k] /\ orders'[k] = orders[k]
      BY <1>3, <1>6
    <2>3. Shape /\ Places /\ Len(written) > 0 /\ written' = Append(written, w)
      BY <1>2, <1>3, <1>4 DEF n
    <2> HIDE DEF depth
    <2>4. OpenIn(written', enc'.sizeStack, orders', depth)
      BY <1>9, <2>1, <2>2, <2>3, PlacesGrow
    <2>. QED
      BY <2>1, <2>4 DEF Places
  <1>16. ReaderInv'
    BY <1>3, NotReading DEF StreamInv
  <1>. QED
    BY <1>1, <1>12, <1>14, <1>15, <1>16 DEF StreamInv

\* What an encapsulation begins with.
LEMMA OpenedShows ==
    ASSUME NEW e \in Encoders, NEW little \in BOOLEAN, NEW at, at = Aligned(e.offset, 4),
           NEW c, c = PutEndian([ReserveSize(PutUlong(e, 0)) EXCEPT !.little = little])
    PROVE  /\ c \in Encoders /\ c.little = little /\ c.offset = at + 9
           /\ c.sizeStack = Append(e.sizeStack, at + 8)
           /\ \A p \in 1..e.offset : c.bytes[p] = e.bytes[p]
           /\ Spells(c.bytes, at, 0, e.little)
           /\ c.bytes[at + 9] = IF little THEN 1 ELSE 0
  <1> DEFINE u == PutUlong(e, 0)
             r == ReserveSize(u)
             o == [r EXCEPT !.little = little]
  <1>1. e.offset \in Nat /\ 4 \in AlignWidth /\ 0 \in Int
    BY DEF Encoders, AlignWidth
  <1>2. at \in Nat /\ at >= e.offset /\ at % 4 = 0
    BY <1>1, AlignedUp
  <1>3. /\ u \in Later(e) /\ u \in Encoders /\ u.offset = at + 4
        /\ \A m \in 1..4 : u.bytes[at + m] = InOrder(Pattern(0, 4), e.little)[m]
    <2>. USE <1>1
    <2>. QED
      BY UlongKeeps
  <1>4. u.sizeStack = e.sizeStack /\ \A p \in 1..e.offset : u.bytes[p] = e.bytes[p]
    BY <1>3 DEF Later, Beyond
  <1>5. c = PutEndian(o)
    OBVIOUS
  <1> HIDE DEF u
  <1>6. Aligned(u.offset, 4) = at + 4
    BY <1>2, <1>3 DEF Aligned
  <1>7. /\ r \in Encoders /\ r.sizeStack = Append(e.sizeStack, at + 8) /\ r.offset = at + 8
        /\ \A p \in 1..at + 4 : r.bytes[p] = u.bytes[p]
    <2>1. LET s == Aligned(u.offset, 4) + 4
          IN  r \in Beyond(u, s, Append(u.sizeStack, s)) /\ r.offset = s
      BY <1>3, SizeReserved
    <2>2. at + 4 + 4 = at + 8
      BY <1>2
    <2>. QED
      BY <1>3, <1>4, <1>6, <2>1, <2>2 DEF Beyond
  <1> HIDE DEF r
  <1>8. /\ o \in Encoders /\ o.sizeStack = r.sizeStack /\ o.offset = at + 8 /\ o.little = little
        /\ o.bytes = r.bytes
    BY <1>7, OtherOrder
  <1> HIDE DEF o
  <1>9. /\ c \in Later(o) /\ c.offset = at + 8 + 1
        /\ c.bytes[at + 8 + 1] = IF little THEN 1 ELSE 0
    BY <1>5, <1>8, EndianKeeps
  <1>10. /\ c \in Encoders /\ c.sizeStack = r.sizeStack /\ c.little = little
         /\ \A p \in 1..at + 8 : c.bytes[p] = r.bytes[p]
    BY <1>8, <1>9, Zenon DEF Later, Beyond
  <1>11. at + 8 + 1 = at + 9
    BY <1>2
  <1>12. \A p \in 1..e.offset : c.bytes[p] = e.bytes[p]
    <2>1. \A p \in 1..e.offset : p \in 1..at + 8 /\ p \in 1..at + 4
      BY <1>1, <1>2
    <2>. QED
      BY <1>4, <1>7, <1>10, <2>1, Zenon
  <1>13. Spells(c.bytes, at, 0, e.little)
    <2>1. \A m \in 1..4 : at + m \in 1..at + 8 /\ at + m \in 1..at + 4
      BY <1>2
    <2>2. \A m \in 1..4 : c.bytes[at + m] = InOrder(Pattern(0, 4), e.little)[m]
      BY <1>3, <1>7, <1>10, <2>1, Zenon
    <2>. QED
      BY <2>2 DEF Spells
  <1>. QED
    BY <1>7, <1>9, <1>10, <1>11, <1>12, <1>13, Zenon

LEMMA OpenStream ==
    ASSUME NEW foreign \in BOOLEAN, StreamInv, Open(foreign)
    PROVE  StreamInv'
  <1> DEFINE w == [type |-> "open", item |-> enc'.little, offset |-> enc'.offset,
                   little |-> enc'.little, depth |-> Len(orders')]
             n == Len(written)
             little == (foreign # enc.little)
             at == Aligned(enc.offset, 4)
  <1>1. EncInv'
    BY OpenKeeps DEF StreamInv
  <1>2. Shape /\ Places /\ ItemsRead /\ Opens /\ Closes /\ enc \in Encoders /\ orders \in Seq(BOOLEAN)
        /\ Len(orders) = Len(enc.sizeStack)
    BY DEF StreamInv, EncInv
  <1>3. /\ phase = "writing" /\ written # <<>>
        /\ enc' = PutEndian([ReserveSize(PutUlong(enc, 0)) EXCEPT !.little = little])
        /\ orders' = Append(orders, enc.little) /\ plan' = plan /\ written' = Append(written, w)
        /\ UNCHANGED <<phase, dec, next, platform>>
    BY DEF Open, Writing, Record
  <1>4. n \in Nat /\ n > 0 /\ n \in 1..n
    BY <1>2, <1>3 DEF Shape
  <1>5. little \in BOOLEAN /\ enc.little \in BOOLEAN /\ enc.offset \in Nat
        /\ enc.sizeStack \in Seq(StackEntry)
    BY <1>2 DEF Encoders
  <1> HIDE DEF little
  <1>6. /\ enc' \in Encoders /\ enc'.little = little /\ enc'.offset = at + 9
        /\ enc'.sizeStack = Append(enc.sizeStack, at + 8)
        /\ \A p \in 1..enc.offset : enc'.bytes[p] = enc.bytes[p]
        /\ Spells(enc'.bytes, at, 0, enc.little)
        /\ enc'.bytes[at + 9] = IF little THEN 1 ELSE 0
    <2>1. enc \in Encoders /\ little \in BOOLEAN /\ at = Aligned(enc.offset, 4)
          /\ enc' = PutEndian([ReserveSize(PutUlong(enc, 0)) EXCEPT !.little = little])
      BY <1>2, <1>3, <1>5
    <2> HIDE DEF at
    <2>. QED
      BY <2>1, OpenedShows
  <1>7. at \in Nat /\ at >= enc.offset
    <2>1. 4 \in AlignWidth
      BY DEF AlignWidth
    <2>. QED
      BY <1>5, <2>1, AlignedUp, Zenon
  <1>8. written[n].offset = enc.offset /\ written[n].little = enc.little
        /\ written[n].depth = Len(orders) /\ Len(orders) \in Nat
    BY <1>2, <1>4 DEF Shape
  <1>9. Len(orders') = Len(orders) + 1 /\ orders'[Len(orders) + 1] = enc.little
        /\ \A k \in 1..Len(orders) : orders'[k] = orders[k]
    BY <1>2, <1>3, <1>5, <1>8
  <1>10. enc'.sizeStack[Len(orders) + 1] = at + 8
         /\ \A k \in 1..Len(orders) : enc'.sizeStack[k] = enc.sizeStack[k]
    <2>1. at + 8 \in Nat
      BY <1>7
    <2>2. enc.sizeStack \in Seq(Nat)
      BY <1>5 DEF StackEntry
    <2>. QED
      BY <1>2, <1>6, <1>8, <2>1, <2>2
  <1>11. w.type = "open" /\ w.offset = at + 9 /\ w.offset = enc'.offset /\ w.little = little
         /\ w.little = enc'.little /\ w.depth = Len(orders')
    BY <1>6
  <1>12. w \in Things(plan.items)
    BY <1>5, <1>6, <1>7, <1>8, <1>9 DEF Things
  <1> HIDE DEF w, n, at
  <1>13. Follows(written[Len(written)], w)
    <2>1. written[Len(written)].offset <= w.offset
      BY <1>5, <1>7, <1>8, <1>11 DEF n
    <2>2. w.type = "open" /\ w.depth = written[Len(written)].depth + 1
      BY <1>8, <1>9, <1>11 DEF n
    <2>. QED
      BY <2>1, <2>2 DEF Follows
  <1>14. enc.offset >= 1 /\ 1 \in 1..n
    <2>1. written[1].offset = 1 /\ written[1].offset <= written[n].offset
      BY <1>2, <1>4 DEF Shape, n
    <2>. QED
      BY <1>4, <1>5, <1>8, <2>1
  <1>15. Shape'
    <2>1. enc'.bytes[1] = enc.bytes[1]
      BY <1>5, <1>6, <1>14
    <2>2. w.type # "item"
      BY <1>11
    <2>. QED
      BY <1>2, <1>3, <1>4, <1>11, <1>12, <1>13, <2>1, <2>2, ShapeGrows, Zenon DEF n
  <1>16. Begins(enc'.bytes, written[Len(written)], w)
    <2>1. w.offset = Aligned(written[n].offset, 4) + 9
      BY <1>8, <1>11 DEF at
    <2>2. w.offset - 9 = at
      BY <1>7, <1>11
    <2>3. Spells(enc'.bytes, w.offset - 9, 0, written[n].little)
      BY <1>6, <1>8, <2>2
    <2>4. enc'.bytes[w.offset] = IF w.little THEN 1 ELSE 0
      BY <1>6, <1>11
    <2>. QED
      BY <2>1, <2>3, <2>4 DEF Begins, n
  <1>17. ItemsRead' /\ Opens' /\ Closes'
    <2>1. \A i \in 2..Len(written) :
              \A p \in written[i - 1].offset + 1..written[i].offset : enc'.bytes[p] = enc.bytes[p]
      BY <1>2, <1>4, <1>6, EarlierThings, Zenon DEF n
    <2>2. w.depth \in Nat /\ w.depth >= written[Len(written)].depth
      BY <1>8, <1>9, <1>11 DEF n
    <2>3. \A i \in 2..Len(written) :
              ~(/\ written[i].type = "open" /\ w.depth < written[i].depth
                /\ \A m \in i + 1..Len(written) : written[m].depth >= written[i].depth)
      BY <1>2, <1>4, <2>2, NothingEnds, Zenon DEF n
    <2>4. 0 \in Nat /\ 0 \notin 2..Len(written) /\ w.type # "item"
      BY <1>11
    <2>. QED
      BY <1>2, <1>3, <1>4, <1>12, <1>16, <2>1, <2>3, <2>4, ContentsGrow, Zenon DEF n
  <1> DEFINE depth == Len(orders)
  <1>18. Places'
    <2>1. depth \in Nat /\ depth <= Len(orders) /\ depth <= w.depth /\ Len(orders') = depth + 1
      BY <1>8, <1>9, <1>11
    <2>2. \A k \in 1..depth : enc'.sizeStack[k] = enc.sizeStack[k] /\ orders'[k] = orders[k]
      BY <1>9, <1>10
    <2>3. Shape /\ Places /\ Len(written) > 0 /\ written' = Append(written, w)
      BY <1>2, <1>3, <1>4 DEF n
    <2>4. written[n].little = enc.little /\ orders'[depth + 1] = enc.little
          /\ enc'.sizeStack[depth + 1] = at + 8 /\ w.depth = depth + 1
      BY <1>8, <1>9, <1>10, <1>11
    <2> HIDE DEF depth
    <2>5. OpenIn(written', enc'.sizeStack, orders', depth)
      BY <1>12, <2>1, <2>2, <2>3, PlacesGrow
    <2>6. Len(written') = n + 1 /\ written'[n + 1] = w /\ written'[n] = written[n]
      <3>1. written \in Seq(Things(plan.items))
        BY <1>2 DEF Shape
      <3>. QED
        BY <1>4, <1>12, <2>3, <3>1, Grown DEF n
    <2>7. n + 1 \in 2..Len(written') /\ (n + 1) - 1 = n /\ \A m \in n + 1..Len(written') : m = n + 1
      BY <1>4, <2>6
    <2>8. enc'.sizeStack[depth + 1] = written'[n + 1].offset - 1
      BY <1>7, <1>11, <2>4, <2>6
    <2>9. w.depth >= depth + 1
      BY <2>1, <2>4
    <2>10. OpenIn(written', enc'.sizeStack, orders', depth + 1)
      <3> SUFFICES ASSUME NEW k \in 1..depth + 1
                   PROVE  \E i \in 2..Len(written') :
                             /\ written'[i].type = "open" /\ written'[i].depth = k
                             /\ \A m \in i..Len(written') : written'[m].depth >= k
                             /\ enc'.sizeStack[k] = written'[i].offset - 1
                             /\ orders'[k] = written'[i - 1].little
        BY DEF OpenIn
      <3>1. CASE k \in 1..depth
        BY <2>5, <3>1 DEF OpenIn
      <3>2. CASE k = depth + 1
        <4>1. written'[n + 1].type = "open" /\ written'[n + 1].depth = k
              /\ written'[n + 1].depth >= k
          BY <1>11, <2>4, <2>6, <2>9, <3>2
        <4>2. \A m \in n + 1..Len(written') : written'[m].depth >= k
          BY <2>7, <4>1
        <4>3. enc'.sizeStack[k] = written'[n + 1].offset - 1
          BY <2>8, <3>2
        <4>4. written'[(n + 1) - 1].little = enc.little
          BY <2>4, <2>6, <2>7
        <4>5. orders'[k] = enc.little
          BY <2>4, <3>2
        <4>6. orders'[k] = written'[(n + 1) - 1].little
          BY <4>4, <4>5
        <4>7. n + 1 \in 2..Len(written')
          BY <2>7
        <4>. WITNESS n + 1 \in 2..Len(written')
        <4>. QED
          BY <4>1, <4>2, <4>3, <4>6
      <3>. QED
        BY <2>1, <3>1, <3>2
    <2>. QED
      BY <2>1, <2>10 DEF Places
  <1>19. ReaderInv'
    BY <1>3, NotReading DEF StreamInv
  <1>. QED
    BY <1>1, <1>15, <1>17, <1>18, <1>19 DEF StreamInv

\* The innermost encapsulation that is open has one thing that opened it.
LEMMA OneOpened ==
    ASSUME Shape, NEW k \in Nat,
           NEW o \in 2..Len(written), written[o].type = "open", written[o].depth = k,
           \A m \in o..Len(written) : written[m].depth >= k,
           NEW i \in 2..Len(written), written[i].type = "open", written[i].depth = k,
           \A m \in i + 1..Len(written) : written[m].depth >= k
    PROVE  i = o
  <1> DEFINE n == Len(written)
  <1>1. n \in Nat /\ o \in 1..n /\ i \in 1..n /\ o - 1 \in 1..n /\ i - 1 \in 1..n
    BY DEF Shape
  <1>2. written[o - 1].depth \in Nat /\ written[i - 1].depth \in Nat
    BY <1>1, ThingsAre
  <1>3. written[o - 1].depth = k - 1
    <2>1. Follows(written[o - 1], written[o])
      BY DEF Shape
    <2>2. k = written[o - 1].depth + 1
      BY <2>1 DEF Follows
    <2>. QED
      BY <1>2, <2>2
  <1>4. written[i - 1].depth = k - 1
    <2>1. Follows(written[i - 1], written[i])
      BY DEF Shape
    <2>2. k = written[i - 1].depth + 1
      BY <2>1 DEF Follows
    <2>. QED
      BY <1>2, <2>2
  <1>5. ~(i < o)
    <2> SUFFICES ASSUME i < o
                 PROVE  FALSE
      OBVIOUS
    <2>1. o - 1 = i \/ o - 1 \in i + 1..n
      BY <1>1
    <2>2. written[o - 1].depth >= k
      <3>1. CASE o - 1 = i
        BY <3>1
      <3>2. CASE o - 1 \in i + 1..n
        BY <3>2
      <3>. QED
        BY <2>1, <3>1, <3>2
    <2>. QED
      BY <1>3, <2>2
  <1>6. ~(o < i)
    <2> SUFFICES ASSUME o < i
                 PROVE  FALSE
      OBVIOUS
    <2>1. i - 1 \in o..n
      BY <1>1
    <2>2. written[i - 1].depth >= k
      BY <2>1
    <2>. QED
      BY <1>4, <2>2
  <1>. QED
    BY <1>1, <1>5, <1>6

\* What filling in the size of the encapsulation that the thing o opened leaves alone.
LEMMA FilledElsewhere ==
    ASSUME Shape, Opens, NEW o \in 2..Len(written), written[o].type = "open",
           NEW bytes, NEW r, r = written[o].offset - 1,
           \A p \in 1..enc.offset : p \notin r - 3..r => bytes[p] = enc.bytes[p]
    PROVE  /\ bytes[1] = enc.bytes[1]
           /\ \A i \in 2..Len(written) : i # o =>
                 \A p \in written[i - 1].offset + 1..written[i].offset : bytes[p] = enc.bytes[p]
           /\ Begins(bytes, written[o - 1], written[o])
  <1> DEFINE n == Len(written)
             a == written[o - 1].offset
             b == written[o].offset
             at == Aligned(a, 4)
  <1>1. n \in Nat /\ n > 0 /\ n \in 1..n /\ 1 \in 1..n /\ o \in 1..n /\ o - 1 \in 1..n
        /\ o <= n /\ 1 <= o - 1
    BY DEF Shape
  <1>2. a \in Nat /\ b \in Nat /\ written[n].offset \in Nat /\ written[1].offset \in Nat
    BY <1>1, ThingsAre
  <1>3. written[n].offset = enc.offset /\ written[1].offset = 1 /\ b <= written[n].offset
        /\ written[1].offset <= a
    BY <1>1 DEF Shape
  <1>4. Begins(enc.bytes, written[o - 1], written[o])
    BY DEF Opens
  <1>5. b = at + 9
    BY <1>4 DEF Begins
  <1>6. at \in Nat /\ at >= a
    <2>1. 4 \in AlignWidth
      BY DEF AlignWidth
    <2>. QED
      BY <1>2, <2>1, AlignedUp, Zenon
  <1>7. r = at + 8
    BY <1>5, <1>6
  <1>8. bytes[1] = enc.bytes[1]
    <2>1. 1 \in 1..enc.offset /\ 1 \notin r - 3..r
      BY <1>2, <1>3, <1>6, <1>7
    <2>. QED
      BY <2>1
  <1> HIDE DEF at, a, b
  <1>9. ASSUME NEW i \in 2..n, i # o, NEW p \in written[i - 1].offset + 1..written[i].offset
        PROVE  bytes[p] = enc.bytes[p]
    <2>1. i \in 1..n /\ i - 1 \in 1..n /\ i <= n
      BY <1>1
    <2>2. written[i].offset \in Nat /\ written[i - 1].offset \in Nat
      BY <2>1, ThingsAre
    <2>3. written[i].offset <= written[n].offset
      BY <1>1, <2>1 DEF Shape
    <2> DEFINE x == written[i - 1].offset
               y == written[i].offset
    <2>4. x \in Nat /\ y \in Nat /\ y <= enc.offset /\ enc.offset \in Nat /\ p \in x + 1..y
      BY <1>2, <1>3, <2>2, <2>3
    <2>5. i < o => y <= a
      <3>1. i < o => i <= o - 1
        BY <1>1
      <3>. QED
        BY <1>1, <2>1, <3>1 DEF Shape, a
    <2>6. o < i => b <= x
      <3>1. o < i => o <= i - 1
        BY <1>1
      <3>. QED
        BY <1>1, <2>1, <3>1 DEF Shape, b
    <2>7. a \in Nat /\ a <= at /\ at \in Nat /\ r = at + 8 /\ b = at + 9
      BY <1>2, <1>5, <1>6, <1>7
    <2> HIDE DEF x, y
    <2>8. p \in 1..enc.offset
      BY <2>4
    <2>9. CASE i < o
      <3>1. p \notin r - 3..r
        BY <2>4, <2>5, <2>7, <2>9
      <3>. QED
        BY <2>8, <3>1
    <2>10. CASE o < i
      <3>1. p \notin r - 3..r
        BY <2>4, <2>6, <2>7, <2>10
      <3>. QED
        BY <2>8, <3>1
    <2>. QED
      BY <1>9, <2>1, <2>9, <2>10
  <1>10. Begins(bytes, written[o - 1], written[o])
    <2>1. \A m \in 1..4 : b - 9 + m \in 1..enc.offset /\ b - 9 + m \notin r - 3..r
      BY <1>2, <1>3, <1>5, <1>6, <1>7
    <2>2. b \in 1..enc.offset /\ b \notin r - 3..r
      BY <1>2, <1>3, <1>5, <1>6, <1>7
    <2>3. \A m \in 1..4 : bytes[b - 9 + m] = enc.bytes[b - 9 + m]
      BY <2>1, Zenon
    <2>4. bytes[b] = enc.bytes[b]
      BY <2>2
    <2>. QED
      BY <1>4, <2>3, <2>4, Zenon DEF Begins, Spells, b
  <1>. QED
    BY <1>8, <1>9, <1>10

LEMMA CloseStream == StreamInv /\ Close => StreamInv'
  <1> SUFFICES ASSUME StreamInv, Close
               PROVE  StreamInv'
    OBVIOUS
  <1> DEFINE n == Len(written)
             k == Len(orders)
             d == [enc EXCEPT !.little = Last(orders)]
             stack == Front(enc.sizeStack)
             r == Last(enc.sizeStack)
             w == [type |-> "close", item |-> enc'.little, offset |-> enc'.offset,
                   little |-> enc'.little, depth |-> Len(orders')]
  <1>1. EncInv'
    BY CloseKeeps DEF StreamInv
  <1>2. Shape /\ Places /\ ItemsRead /\ Opens /\ Closes /\ enc \in Encoders /\ orders \in Seq(BOOLEAN)
        /\ Len(orders) = Len(enc.sizeStack)
        /\ \A i \in 1..Len(enc.sizeStack) : enc.sizeStack[i] <= enc.offset
    BY DEF StreamInv, EncInv
  <1>3. /\ phase = "writing" /\ written # <<>> /\ orders # <<>>
        /\ enc' = FillinSize(d)
        /\ orders' = Front(orders) /\ plan' = plan /\ written' = Append(written, w)
        /\ UNCHANGED <<phase, dec, next, platform>>
    BY DEF Close, Writing, Record, PutEndEncapsulation
  <1>4. n \in Nat /\ n > 0 /\ n \in 1..n
    BY <1>2, <1>3 DEF Shape
  <1>5. k \in Nat /\ k > 0 /\ k \in 1..k /\ enc.offset \in Nat /\ enc.sizeStack \in Seq(StackEntry)
        /\ enc.offset <= Len(enc.bytes) /\ enc.bytes \in Seq(Octet)
    BY <1>2, <1>3 DEF Encoders
  <1>6. written[n].offset = enc.offset /\ written[n].depth = k
    BY <1>2, <1>4 DEF Shape
  <1>7. /\ Last(orders) = orders[k] /\ Last(orders) \in BOOLEAN /\ Len(orders') = k - 1
        /\ \A j \in 1..k - 1 : orders'[j] = orders[j]
    <2>1. Last(orders) = orders[k]
      BY DEF Last
    <2>2. Last(orders) \in BOOLEAN /\ Len(Front(orders)) = k - 1
          /\ \A j \in 1..k - 1 : Front(orders)[j] = orders[j]
      BY <1>2, <1>5, FrontAndLast, Zenon
    <2>. QED
      BY <1>3, <2>1, <2>2
  <1>8. /\ r = enc.sizeStack[k] /\ r \in StackEntry /\ stack \in Seq(StackEntry)
        /\ enc.sizeStack = Append(stack, r)
        /\ \A j \in 1..k - 1 : stack[j] = enc.sizeStack[j]
    <2>1. Last(enc.sizeStack) = enc.sizeStack[k]
      BY <1>2 DEF Last
    <2>2. Len(enc.sizeStack) > 0 /\ Len(enc.sizeStack) = k
      BY <1>2, <1>5
    <2>. QED
      BY <1>5, <2>1, <2>2, FrontAndLast
  <1>9. d \in Encoders /\ d.sizeStack = enc.sizeStack /\ d.offset = enc.offset
        /\ d.bytes = enc.bytes /\ d.little = orders[k]
    BY <1>2, <1>7, OtherOrder
  <1>10. r <= d.offset /\ r \in Nat
    BY <1>2, <1>5, <1>8, <1>9, Zenon DEF StackEntry
  <1> HIDE DEF d, r, stack
  <1>11. /\ enc' \in Encoders /\ enc'.offset = enc.offset /\ enc'.sizeStack = stack
         /\ enc'.little = orders[k]
         /\ \A i \in 1..4 : enc'.bytes[r - 4 + i] = InOrder(Pattern(enc.offset - r, 4), orders[k])[i]
         /\ \A i \in 1..Len(enc.bytes) : i \notin r - 3..r => enc'.bytes[i] = enc.bytes[i]
    <2>1. d.sizeStack = Append(stack, r)
      BY <1>8, <1>9, Zenon
    <2>2. /\ FillinSize(d) \in Encoders /\ FillinSize(d).offset = d.offset
          /\ FillinSize(d).sizeStack = stack /\ FillinSize(d).little = d.little
          /\ \A i \in 1..4 : FillinSize(d).bytes[r - 4 + i]
                                 = InOrder(Pattern(d.offset - r, 4), d.little)[i]
          /\ \A i \in 1..Len(d.bytes) :
                i \notin r - 3..r => FillinSize(d).bytes[i] = d.bytes[i]
      <3>1. d \in Encoders /\ stack \in Seq(StackEntry) /\ r \in StackEntry /\ r <= d.offset
        BY <1>8, <1>9, <1>10, Zenon
      <3>2. \A i \in 1..4 : FillinSize(d).bytes[r - 4 + i]
                               = InOrder(Pattern(d.offset - r, 4), d.little)[i]
        BY <2>1, <3>1, SizeFilled, ZenonT(40)
      <3>3. \A i \in 1..Len(d.bytes) :
                i \notin r - 3..r => FillinSize(d).bytes[i] = d.bytes[i]
        BY <2>1, <3>1, SizeFilled
      <3>4. /\ FillinSize(d) \in Encoders /\ FillinSize(d).offset = d.offset
            /\ FillinSize(d).sizeStack = stack /\ FillinSize(d).little = d.little
        BY <2>1, <3>1, SizeFilled
      <3>. QED
        BY <3>2, <3>3, <3>4
    <2>. QED
      BY <1>3, <1>9, <2>2
  <1>12. w.type = "close" /\ w.offset = enc.offset /\ w.offset = enc'.offset
         /\ w.little = orders[k] /\ w.little = enc'.little
         /\ w.depth = k - 1 /\ w.depth = Len(orders')
    BY <1>7, <1>11
  <1>13. w \in Things(plan.items)
    BY <1>5, <1>7, <1>11 DEF Things
  <1> HIDE DEF w
  <1>14. PICK o \in 2..n : /\ written[o].type = "open" /\ written[o].depth = k
                           /\ \A m \in o..n : written[m].depth >= k
                           /\ enc.sizeStack[k] = written[o].offset - 1
                           /\ orders[k] = written[o - 1].little
    BY <1>2, <1>5, Zenon DEF Places, OpenIn
  <1> HIDE DEF n, k
  <1>15. o \in 2..Len(written) /\ \A m \in o..Len(written) : written[m].depth >= k
    BY <1>14 DEF n
  <1>16. \A p \in 1..enc.offset : p \notin r - 3..r => enc'.bytes[p] = enc.bytes[p]
    <2>1. \A p \in 1..enc.offset : p \in 1..Len(enc.bytes)
      BY <1>5
    <2>. QED
      BY <1>11, <2>1
  <1>17. /\ enc'.bytes[1] = enc.bytes[1]
         /\ \A i \in 2..Len(written) : i # o =>
               \A p \in written[i - 1].offset + 1..written[i].offset : enc'.bytes[p] = enc.bytes[p]
         /\ Begins(enc'.bytes, written[o - 1], written[o])
    <2>1. r = written[o].offset - 1
      BY <1>8, <1>14
    <2>2. Shape /\ Opens /\ written[o].type = "open"
      BY <1>2, <1>14
    <2>3. o \in 2..Len(written)
      BY <1>15
    <2>. QED
      BY <1>16, <2>1, <2>2, <2>3, FilledElsewhere, SMTT(30)
  <1>18. Follows(written[Len(written)], w)
    <2>1. written[Len(written)].offset <= w.offset
      BY <1>5, <1>6, <1>12 DEF n
    <2>. QED
      BY <1>6, <1>12, <2>1 DEF Follows, n
  <1>19. Shape'
    <2>1. w.type # "item"
      BY <1>12
    <2>. QED
      BY <1>2, <1>3, <1>4, <1>12, <1>13, <1>17, <1>18, <2>1, ShapeGrows DEF n
  <1>20. Sized(enc'.bytes, written[o - 1], written[o], w)
    <2>1. written[o].offset \in Nat
      BY <1>2, <1>14, <1>15, ThingsAre
    <2>2. r - 4 = written[o].offset - 5 /\ enc.offset - r = w.offset - written[o].offset + 1
      <3>1. r = written[o].offset - 1 /\ enc.offset \in Nat /\ w.offset = enc.offset
        BY <1>5, <1>8, <1>12, <1>14
      <3>. QED
        BY <2>1, <3>1
    <2>3. Spells(enc'.bytes, written[o].offset - 5, w.offset - written[o].offset + 1,
                 written[o - 1].little)
      <3>1. \A i \in 1..4 : enc'.bytes[written[o].offset - 5 + i]
                = InOrder(Pattern(w.offset - written[o].offset + 1, 4), written[o - 1].little)[i]
        BY <1>11, <1>14, <2>2
      <3>. QED
        BY <3>1 DEF Spells
    <2>4. w.little = written[o - 1].little
      BY <1>12, <1>14, Zenon
    <2>. QED
      BY <2>3, <2>4 DEF Sized
  <1>21. ASSUME NEW i \in 2..Len(written), written[i].type = "open", w.depth < written[i].depth,
                \A m \in i + 1..Len(written) : written[m].depth >= written[i].depth
         PROVE  Sized(enc'.bytes, written[i - 1], written[i], w)
    <2>1. i \in 1..Len(written) /\ (i = n \/ n \in i + 1..Len(written))
      BY <1>4 DEF n
    <2>2. written[i].depth \in Nat
      BY <1>2, <2>1, ThingsAre
    <2>3. written[n].depth >= written[i].depth
      BY <1>21, <2>1, <2>2
    <2>4. written[i].depth = k
      BY <1>5, <1>6, <1>12, <1>21, <2>2, <2>3
    <2>5. \A m \in i + 1..Len(written) : written[m].depth >= k
      BY <1>21, <2>4
    <2>6. k \in Nat
      BY <1>5
    <2>7. i = o
      BY <1>2, <1>14, <1>15, <1>21, <2>4, <2>5, <2>6, OneOpened, Zenon
    <2>. QED
      BY <1>20, <2>7
  <1>22. ItemsRead' /\ Opens' /\ Closes'
    <2>1. o \in Nat /\ (o \in 2..Len(written) =>
               /\ written[o].type = "open"
               /\ \A m \in o..Len(written) : written[m].depth >= written[o].depth
               /\ Begins(enc'.bytes, written[o - 1], written[o]))
      BY <1>14, <1>15, <1>17
    <2>2. w.type # "item" /\ w.type # "open"
      BY <1>12
    <2>3. Shape /\ ItemsRead /\ Opens /\ Closes /\ Len(written) > 0 /\ written' = Append(written, w)
      BY <1>2, <1>3, <1>4 DEF n
    <2>4. \A i \in 2..Len(written) : i # o =>
             \A p \in written[i - 1].offset + 1..written[i].offset : enc'.bytes[p] = enc.bytes[p]
      BY <1>17
    <2>. QED
      BY <1>13, <1>21, <2>1, <2>2, <2>3, <2>4, ContentsGrow
  <1> DEFINE depth == k - 1
  <1>23. Places'
    <2>1. depth \in Nat /\ depth <= Len(orders) /\ depth <= w.depth /\ Len(orders') = depth
      BY <1>5, <1>7, <1>12 DEF k
    <2>2. \A j \in 1..depth : enc'.sizeStack[j] = enc.sizeStack[j] /\ orders'[j] = orders[j]
      BY <1>7, <1>8, <1>11, Zenon
    <2>3. Shape /\ Places /\ Len(written) > 0 /\ written' = Append(written, w)
      BY <1>2, <1>3, <1>4 DEF n
    <2> HIDE DEF depth
    <2>4. OpenIn(written', enc'.sizeStack, orders', depth)
      BY <1>13, <2>1, <2>2, <2>3, PlacesGrow
    <2>. QED
      BY <2>1, <2>4 DEF Places
  <1>24. ReaderInv'
    BY <1>3, NotReading DEF StreamInv
  <1>. QED
    BY <1>1, <1>19, <1>22, <1>23, <1>24 DEF StreamInv

LEMMA SendStream == StreamInv /\ Send => StreamInv'
  <1> SUFFICES ASSUME StreamInv, Send
               PROVE  StreamInv'
    OBVIOUS
  <1> DEFINE bytes == Slice(enc, 0, enc.offset)
             d == Decoder(bytes)
             n == Len(written)
  <1>1. /\ written # <<>> /\ orders = <<>> /\ phase' = "reading" /\ dec' = GetEndian(d) /\ next' = 1
        /\ UNCHANGED <<plan, enc, written, orders, platform>>
    BY DEF Send, Writing
  <1>2. EncInv /\ Shape /\ Places /\ ItemsRead /\ Opens /\ Closes
    BY DEF StreamInv
  <1>3. EncInv' /\ Shape' /\ Places' /\ ItemsRead' /\ Opens' /\ Closes'
    <2>1. EncInv'
      BY <1>1, <1>2 DEF EncInv
    <2>2. Shape'
      BY <1>1, <1>2 DEF Shape
    <2>3. Places'
      BY <1>1, <1>2 DEF Places
    <2>4. ItemsRead' /\ Opens' /\ Closes'
      BY <1>1, <1>2 DEF ItemsRead, Opens, Closes, LeavesAt
    <2>. QED
      BY <2>1, <2>2, <2>3, <2>4
  <1>4. enc \in Encoders /\ enc.offset \in Nat
    BY <1>2 DEF EncInv, Encoders
  <1>5. bytes \in Seq(Octet) /\ Len(bytes) = enc.offset
        /\ \A p \in 1..enc.offset : bytes[p] = enc.bytes[p]
    BY <1>4, SliceOfEncoder
  <1> HIDE DEF bytes
  <1>6. d \in Decoders /\ d.offset = 0 /\ d.bytes = bytes /\ d.encapStack = <<>>
    BY <1>5 DEF Decoder, Decoders
  <1> HIDE DEF d
  <1>7. n \in Nat /\ n > 0 /\ 1 \in 1..n /\ n \in 1..n /\ 1 <= n
    BY <1>1, <1>2 DEF Shape
  <1>8. /\ written[1].type = "endian" /\ written[1].offset = 1 /\ written[1].depth = 0
        /\ enc.bytes[1] = IF written[1].little THEN 1 ELSE 0
        /\ written[1].little \in BOOLEAN
    <2>1. written[1].little \in BOOLEAN
      BY <1>2, <1>7, ThingsAre
    <2>. QED
      BY <1>2, <1>7, <2>1 DEF Shape
  <1>9. enc.offset >= 1
    BY <1>2, <1>4, <1>7, <1>8 DEF Shape
  <1>10. dec' = [d EXCEPT !.offset = 1, !.little = written[1].little]
    <2>1. d.offset + 1 = 1 /\ 1 <= Len(d.bytes)
      BY <1>4, <1>5, <1>6, <1>9
    <2>2. d.bytes[d.offset + 1] = IF written[1].little THEN 1 ELSE 0
      <3>1. 1 \in 1..enc.offset
        BY <1>4, <1>9
      <3>. QED
        BY <1>5, <1>6, <1>8, <2>1, <3>1
    <2>3. d.offset + 1 <= Len(d.bytes)
      BY <2>1
    <2>4. GetEndian(d) = [d EXCEPT !.offset = d.offset + 1, !.little = written[1].little]
      BY <1>6, <1>8, <2>2, <2>3, EndianIsRead, Zenon
    <2>. QED
      BY <1>1, <2>1, <2>4, Zenon
  <1>11. /\ dec' \in Decoders /\ dec'.offset = 1 /\ dec'.little = written[1].little
         /\ dec'.bytes = bytes /\ dec'.encapStack = <<>>
    BY <1>6, <1>8, <1>10, Zenon DEF Decoders
  <1>12. IsDecoder(dec')
    BY <1>11, Zenon DEF Decoders, IsDecoder
  <1>13. Len(dec'.encapStack) = 0 /\ 1..Len(dec'.encapStack) = {} /\ Len(orders) = 0
         /\ platform' \in BOOLEAN
    BY <1>1, <1>11 DEF StreamInv, ReaderInv
  <1>14. ReaderInv'
    BY <1>1, <1>5, <1>7, <1>8, <1>11, <1>12, <1>13 DEF ReaderInv
  <1>. QED
    BY <1>3, <1>14 DEF StreamInv
-----------------------------------------------------------------------------
(***************************************************************************)
(* What is read.                                                           *)
(***************************************************************************)
\* The reader changes only what is the reader's.
LEMMA ReaderGoesOn ==
    ASSUME StreamInv, UNCHANGED <<plan, enc, written, orders, phase, platform>>, ReaderInv'
    PROVE  StreamInv'
  <1>1. EncInv /\ Shape /\ Places /\ ItemsRead /\ Opens /\ Closes
    BY DEF StreamInv
  <1>2. EncInv'
    BY <1>1 DEF EncInv
  <1>3. Shape'
    BY <1>1 DEF Shape
  <1>4. Places'
    BY <1>1 DEF Places
  <1>5. ItemsRead' /\ Opens' /\ Closes'
    BY <1>1 DEF ItemsRead, Opens, Closes, LeavesAt
  <1>. QED
    BY <1>2, <1>3, <1>4, <1>5 DEF StreamInv

LEMMA NothingReturned ==
    ASSUME NEW d, IsDecoder(d), NEW a, a = [d EXCEPT !.got = <<>>]
    PROVE  /\ a \in Decoders /\ a.got = <<>> /\ a.offset = d.offset /\ a.little = d.little
           /\ a.bytes = d.bytes /\ a.encapStack = d.encapStack
  <1>1. d \in [offset : Nat, bytes : Seq(Octet), little : BOOLEAN, encapStack : Seq(Closing),
               ok : {TRUE}, got : {d.got}]
    BY Zenon DEF IsDecoder
  <1>2. a = [offset |-> d.offset, bytes |-> d.bytes, little |-> d.little,
             encapStack |-> d.encapStack, ok |-> d.ok, got |-> <<>>]
    BY <1>1
  <1>3. d.offset \in Nat /\ d.bytes \in Seq(Octet) /\ d.little \in BOOLEAN
        /\ d.encapStack \in Seq(Closing) /\ d.ok \in {TRUE}
    BY <1>1, Zenon
  <1>4. <<>> \in Seq(Seq(Octet))
    OBVIOUS
  <1>. QED
    BY <1>2, <1>3, <1>4, Zenon DEF Decoders

\* The reader, before it goes on.
LEMMA ReaderIs ==
    ASSUME StreamInv, phase = "reading"
    PROVE  /\ next \in 1..Len(written) /\ Len(written) \in Nat /\ platform \in BOOLEAN
           /\ Afresh \in Decoders /\ Afresh.got = <<>>
           /\ Afresh.offset = written[next].offset /\ Afresh.little = written[next].little
           /\ Afresh.bytes = dec.bytes /\ Afresh.encapStack = dec.encapStack
           /\ Len(dec.bytes) = enc.offset /\ enc.offset \in Nat
           /\ \A p \in 1..enc.offset : dec.bytes[p] = enc.bytes[p]
           /\ dec.encapStack \in Seq(Closing) /\ Len(dec.encapStack) = written[next].depth
           /\ \A k \in 1..Len(dec.encapStack) : \A j \in 1..Len(written) :
                 LeavesAt(next, j, k) =>
                     dec.encapStack[k] = [nextOffset |-> written[j].offset,
                                          endian |-> written[j].little]
           /\ written[Len(written)].depth = 0
           /\ \A i \in 1..Len(written) : written[i].offset <= enc.offset
  <1>1. ReaderInv /\ Shape /\ enc \in Encoders
    BY DEF StreamInv, EncInv
  <1>2. /\ Len(orders) = 0
        /\ next \in 1..Len(written)
        /\ IsDecoder(dec)
        /\ Len(dec.bytes) = enc.offset
        /\ \A p \in 1..enc.offset : dec.bytes[p] = enc.bytes[p]
        /\ dec.offset = written[next].offset /\ dec.little = written[next].little
        /\ Len(dec.encapStack) = written[next].depth
        /\ \A k \in 1..Len(dec.encapStack) : \A j \in 1..Len(written) :
              LeavesAt(next, j, k) =>
                  dec.encapStack[k] = [nextOffset |-> written[j].offset,
                                       endian |-> written[j].little]
    BY <1>1, Zenon DEF ReaderInv
  <1>3. /\ Afresh \in Decoders /\ Afresh.got = <<>>
        /\ Afresh.offset = dec.offset /\ Afresh.little = dec.little
        /\ Afresh.bytes = dec.bytes /\ Afresh.encapStack = dec.encapStack
    BY <1>2, NothingReturned DEF Afresh
  <1>4. Len(written) \in Nat /\ Len(written) > 0 /\ enc.offset \in Nat /\ platform \in BOOLEAN
    BY <1>1, <1>2 DEF Shape, Encoders, ReaderInv
  <1>5. written[Len(written)].depth = 0 /\ written[Len(written)].offset = enc.offset
    BY <1>1, <1>2, <1>4 DEF Shape
  <1>6. ASSUME NEW i \in 1..Len(written)
        PROVE  written[i].offset <= enc.offset
    <2>1. Len(written) \in 1..Len(written) /\ i <= Len(written)
      BY <1>4
    <2>2. written[i].offset <= written[Len(written)].offset
      BY <1>1, <2>1 DEF Shape
    <2>. QED
      BY <1>5, <2>2
  <1>7. dec.encapStack \in Seq(Closing)
    BY <1>2 DEF IsDecoder
  <1>. QED
    BY <1>2, <1>3, <1>4, <1>5, <1>6, <1>7

\* What the reader is left with after it was at the thing before i.
LEMMA ReaderMoves ==
    ASSUME StreamInv, phase = "reading", UNCHANGED <<plan, enc, written, orders, phase, platform>>,
           NEW i \in 1..Len(written), next' = i, IsDecoder(dec'), dec'.bytes = dec.bytes,
           dec'.offset = written[i].offset, dec'.little = written[i].little,
           Len(dec'.encapStack) = written[i].depth,
           \A k \in 1..Len(dec'.encapStack) : \A j \in 1..Len(written) :
               LeavesAt(i, j, k) =>
                   dec'.encapStack[k] = [nextOffset |-> written[j].offset,
                                         endian |-> written[j].little],
           written[i].type = "item" => dec'.got \in {<<>>, <<Expected(written[i].item)>>}
    PROVE  StreamInv'
  <1>2. /\ Len(orders) = 0 /\ Len(dec.bytes) = enc.offset
        /\ \A p \in 1..enc.offset : dec.bytes[p] = enc.bytes[p]
        /\ platform \in BOOLEAN
    BY DEF StreamInv, ReaderInv
  <1>1. \A k \in 1..Len(dec'.encapStack) : \A j \in 1..Len(written') :
            LeavesAt(next, j, k)' =>
                dec'.encapStack[k] = [nextOffset |-> written'[j].offset,
                                      endian |-> written'[j].little]
    <2>1. written' = written /\ next' = i
      OBVIOUS
    <2>2. \A j, k : LeavesAt(next, j, k)' <=> LeavesAt(i, j, k)
      BY <2>1 DEF LeavesAt
    <2>. QED
      BY <2>1, <2>2
  <1>3. /\ platform' \in BOOLEAN /\ phase' = "reading" /\ Len(orders') = 0
        /\ next' \in 1..Len(written') /\ Len(dec'.bytes) = enc'.offset
        /\ \A p \in 1..enc'.offset : dec'.bytes[p] = enc'.bytes[p]
    BY <1>2
  <1>4. /\ dec'.offset = written'[next'].offset /\ dec'.little = written'[next'].little
        /\ Len(dec'.encapStack) = written'[next'].depth
        /\ written'[next'].type = "item" =>
               dec'.got \in {<<>>, <<Expected(written'[next'].item)>>}
    OBVIOUS
  <1>5. IsDecoder(dec)'
    OBVIOUS
  <1>6. ReaderInv'
    BY <1>1, <1>3, <1>4, <1>5 DEF ReaderInv
  <1>. QED
    BY <1>6, ReaderGoesOn

LEMMA ReadStream == StreamInv /\ Plain /\ Read => StreamInv'
  <1> SUFFICES ASSUME StreamInv, Plain, Read
               PROVE  StreamInv'
    OBVIOUS
  <1> DEFINE i == next + 1
             item == written[i].item
             v == written[next]
             w == written[i]
  <1>1. /\ phase = "reading" /\ next < Len(written) /\ w.type = "item" /\ next' = i
        /\ UNCHANGED <<plan, enc, written, orders, phase, platform>>
        /\ dec' = GetItem(Afresh, item)
    BY DEF Read, Reading
  <1>2. Shape /\ ItemsRead
    BY DEF StreamInv
  <1>3. /\ next \in 1..Len(written) /\ Len(written) \in Nat /\ platform \in BOOLEAN
        /\ Afresh \in Decoders /\ Afresh.got = <<>>
        /\ Afresh.offset = v.offset /\ Afresh.little = v.little
        /\ Afresh.bytes = dec.bytes /\ Afresh.encapStack = dec.encapStack
        /\ Len(dec.bytes) = enc.offset /\ enc.offset \in Nat
        /\ \A p \in 1..enc.offset : dec.bytes[p] = enc.bytes[p]
        /\ Len(dec.encapStack) = v.depth
        /\ \A k \in 1..Len(dec.encapStack) : \A j \in 1..Len(written) :
              LeavesAt(next, j, k) =>
                  dec.encapStack[k] = [nextOffset |-> written[j].offset,
                                       endian |-> written[j].little]
        /\ \A m \in 1..Len(written) : written[m].offset <= enc.offset
    BY <1>1, ReaderIs
  <1>4. i \in 2..Len(written) /\ i \in 1..Len(written) /\ i - 1 = next
    BY <1>1, <1>3
  <1>5. v.offset \in Nat /\ w.offset \in Nat /\ v.depth \in Nat /\ w.depth \in Nat
    BY <1>2, <1>3, <1>4, ThingsAre
  <1>6. Follows(v, w) /\ item \in plan.items
    BY <1>1, <1>2, <1>4 DEF Shape
  <1>7. w.depth = v.depth /\ w.little = v.little
    BY <1>1, <1>6 DEF Follows
  <1>8. Reads(enc.bytes, v, w)
    BY <1>1, <1>2, <1>4 DEF ItemsRead
  <1>9. GetPlain(Afresh, w.item, platform) = Advanced(Afresh, w.offset, Expected(w.item))
    <2>1. w.offset <= Len(Afresh.bytes)
      BY <1>3, <1>4
    <2>2. \A p \in v.offset + 1..w.offset : Afresh.bytes[p] = enc.bytes[p]
      <3>1. w.offset <= enc.offset
        BY <1>3, <1>4
      <3>2. \A p \in v.offset + 1..w.offset : p \in 1..enc.offset
        BY <1>3, <1>5, <3>1
      <3>. QED
        BY <1>3, <3>2
    <2>. QED
      BY <1>3, <1>8, <2>1, <2>2 DEF Reads
  <1>10. dec' = Advanced(Afresh, w.offset, Expected(item))
    <2>1. item.type \in PlainTypes
      BY <1>6 DEF Plain
    <2>2. GetItem(Afresh, item) = GetPlain(Afresh, item, platform)
      BY <2>1, ReadsPlain
    <2>. QED
      BY <1>1, <1>9, <2>2
  <1> DEFINE a == Afresh
  <1>11. a \in Decoders /\ dec' = Advanced(a, w.offset, Expected(item)) /\ a.got = <<>>
         /\ a.little = v.little /\ a.bytes = dec.bytes /\ a.encapStack = dec.encapStack
    BY <1>3, <1>10
  <1> HIDE DEF a
  <1>12. /\ dec' = [a EXCEPT !.offset = w.offset, !.got = Append(<<>>, Expected(item))]
         /\ Append(<<>>, Expected(item)) = <<Expected(item)>>
    BY <1>11 DEF Advanced
  <1>13. /\ dec'.offset = w.offset /\ dec'.little = w.little /\ dec'.bytes = dec.bytes
         /\ dec'.encapStack = dec.encapStack /\ dec'.got = <<Expected(item)>>
    BY <1>7, <1>11, <1>12 DEF Decoders
  <1>14. IsDecoder(dec')
    BY <1>5, <1>11, <1>12, Zenon DEF Decoders, IsDecoder
  <1>15. Len(dec'.encapStack) = w.depth
    BY <1>3, <1>7, <1>13
  <1>16. ASSUME NEW k \in 1..Len(dec'.encapStack), NEW j \in 1..Len(written), LeavesAt(i, j, k)
         PROVE  dec'.encapStack[k] = [nextOffset |-> written[j].offset,
                                      endian |-> written[j].little]
    <2>1. LeavesAt(next, j, k)
      <3>1. w.depth >= k
        BY <1>5, <1>15
      <3>2. \A m \in next + 1..j - 1 : m = i \/ m \in i + 1..j - 1
        BY <1>3
      <3>. QED
        BY <1>3, <1>16, <3>1, <3>2 DEF LeavesAt
    <2>2. k \in 1..Len(dec.encapStack)
      BY <1>13
    <2>. QED
      BY <1>3, <1>13, <2>1, <2>2
  <1> HIDE DEF i, v, w, item
  <1>17. StreamInv /\ i \in 1..Len(written)
    BY <1>4
  <1>. QED
    BY <1>1, <1>13, <1>14, <1>15, <1>16, <1>17, ReaderMoves, Zenon DEF w, item

\* The reader leaves an encapsulation at the first thing behind it.
LEMMA Leaves ==
    ASSUME StreamInv, phase = "reading", UNCHANGED <<plan, enc, written, orders, phase, platform>>,
           NEW i \in 1..Len(written), next' = i, written[next].depth > 0,
           LeavesAt(next, i, written[next].depth), dec' = GetEndEncapsulation(Afresh)
    PROVE  StreamInv'
  <1> DEFINE n == Len(written)
             v == written[next]
             w == written[i]
             k == v.depth
             stack == dec.encapStack
             top == stack[k]
  <1>1. /\ next \in 1..n /\ n \in Nat /\ platform \in BOOLEAN
        /\ Afresh \in Decoders /\ Afresh.got = <<>>
        /\ Afresh.bytes = dec.bytes /\ Afresh.encapStack = stack
        /\ stack \in Seq(Closing) /\ Len(stack) = k
        /\ \A c \in 1..Len(stack) : \A j \in 1..n :
              LeavesAt(next, j, c) =>
                  stack[c] = [nextOffset |-> written[j].offset, endian |-> written[j].little]
    BY ReaderIs
  <1>2. Shape
    BY DEF StreamInv
  <1>3. /\ k \in Nat /\ w.depth \in Nat /\ w.offset \in Nat /\ w.little \in BOOLEAN
        /\ \A m \in 1..n : written[m].depth \in Nat
    BY <1>1, <1>2, ThingsAre
  <1>4. k \in 1..k /\ i > next /\ w.depth < k /\ \A m \in next + 1..i - 1 : written[m].depth >= k
    BY <1>3 DEF LeavesAt
  <1>5. top = [nextOffset |-> w.offset, endian |-> w.little]
    BY <1>1, <1>4
  <1>6. /\ Last(stack) = top /\ Front(stack) \in Seq(Closing) /\ Len(Front(stack)) = k - 1
        /\ \A c \in 1..k - 1 : Front(stack)[c] = stack[c]
    <2>1. Last(stack) = stack[Len(stack)]
      BY DEF Last
    <2>2. stack \in Seq(Closing) /\ Len(stack) > 0 /\ Len(stack) = k
      BY <1>1, <1>4
    <2>3. /\ Front(stack) \in Seq(Closing) /\ Len(Front(stack)) = Len(stack) - 1
          /\ \A c \in 1..Len(stack) - 1 : Front(stack)[c] = stack[c]
      <3> HIDE DEF stack
      <3>. QED
        BY <2>2, FrontAndLast, Zenon
    <2>. QED
      BY <2>1, <2>2, <2>3
  <1>7. w.depth = k - 1
    <2>1. i \in 2..n /\ i - 1 \in 1..n /\ (i - 1 = next \/ i - 1 \in next + 1..i - 1)
      BY <1>1, <1>4
    <2>2. written[i - 1].depth >= k /\ written[i - 1].depth \in Nat
      <3>1. CASE i - 1 = next
        BY <1>3, <3>1
      <3>2. CASE i - 1 \in next + 1..i - 1
        BY <1>3, <1>4, <2>1, <3>2
      <3>. QED
        BY <2>1, <3>1, <3>2
    <2>3. Follows(written[i - 1], w)
      BY <1>2, <2>1 DEF Shape
    <2>4. w.depth >= written[i - 1].depth - 1
      BY <1>3, <2>2, <2>3 DEF Follows
    <2> DEFINE x == written[i - 1].depth
               y == w.depth
    <2>5. x \in Nat /\ y \in Nat /\ k \in Nat /\ x >= k /\ y < k /\ y >= x - 1
      BY <1>3, <1>4, <2>2, <2>4
    <2>6. y = k - 1
      <3> HIDE DEF x, y, k
      <3>. QED
        BY <2>5
    <2>. QED
      BY <2>6
  <1> DEFINE a == Afresh
             rest == Front(stack)
  <1>8. a \in Decoders /\ a.got = <<>> /\ a.bytes = dec.bytes /\ a.encapStack = stack
        /\ dec' = [a EXCEPT !.encapStack = rest, !.little = w.little, !.offset = w.offset]
    <2>1. Last(a.encapStack) = [nextOffset |-> w.offset, endian |-> w.little]
      BY <1>1, <1>5, <1>6
    <2>2. GetEndEncapsulation(a)
              = [a EXCEPT !.encapStack = Front(a.encapStack),
                          !.little = Last(a.encapStack).endian,
                          !.offset = Last(a.encapStack).nextOffset]
      BY <1>1 DEF GetEndEncapsulation, Decoders
    <2>. QED
      BY <1>1, <2>1, <2>2
  <1>9. rest \in Seq(Closing) /\ Len(rest) = k - 1 /\ \A c \in 1..k - 1 : rest[c] = stack[c]
    BY <1>6
  <1> HIDE DEF a, rest
  <1>10. /\ dec' \in Decoders /\ dec'.encapStack = rest /\ dec'.little = w.little
         /\ dec'.offset = w.offset /\ dec'.bytes = dec.bytes /\ dec'.got = <<>>
    BY <1>3, <1>8, <1>9, Zenon DEF Decoders
  <1>11. IsDecoder(dec')
    BY <1>10, Zenon DEF Decoders, IsDecoder
  <1>12. Len(dec'.encapStack) = w.depth
    BY <1>7, <1>9, <1>10
  <1>13. ASSUME NEW c \in 1..Len(dec'.encapStack), NEW j \in 1..n, LeavesAt(i, j, c)
         PROVE  dec'.encapStack[c] = [nextOffset |-> written[j].offset,
                                      endian |-> written[j].little]
    <2>1. c \in 1..k - 1 /\ c \in 1..Len(stack) /\ c < k
      <3>1. c \in 1..k - 1 /\ Len(stack) = k /\ k \in Nat
        BY <1>1, <1>3, <1>9, <1>10
      <3> HIDE DEF stack, k
      <3>. QED
        BY <3>1
    <2>2. i < j /\ written[j].depth < c /\ \A m \in i + 1..j - 1 : written[m].depth >= c
      BY <1>13 DEF LeavesAt
    <2>3. ASSUME NEW m \in next + 1..j - 1
          PROVE  written[m].depth >= c
      <3>1. m \in next + 1..i - 1 \/ m = i \/ m \in i + 1..j - 1
        BY <1>1, <2>2
      <3>2. CASE m \in next + 1..i - 1
        <4>1. written[m].depth >= k /\ m \in 1..n
          BY <1>1, <1>4, <2>2, <3>2
        <4>. QED
          BY <1>3, <2>1, <4>1
      <3>3. CASE m = i
        BY <1>3, <1>7, <2>1, <3>3
      <3>4. CASE m \in i + 1..j - 1
        BY <2>2, <3>4
      <3>. QED
        BY <3>1, <3>2, <3>3, <3>4
    <2>4. LeavesAt(next, j, c)
      BY <1>1, <1>4, <2>2, <2>3 DEF LeavesAt
    <2>5. stack[c] = [nextOffset |-> written[j].offset, endian |-> written[j].little]
      BY <1>1, <2>1, <2>4
    <2>. QED
      BY <1>9, <1>10, <2>1, <2>5
  <1> HIDE DEF n, v, w, k, stack, top
  <1>14. \A c \in 1..Len(dec'.encapStack) : \A j \in 1..Len(written) :
             LeavesAt(i, j, c) =>
                 dec'.encapStack[c] = [nextOffset |-> written[j].offset,
                                       endian |-> written[j].little]
    BY <1>13 DEF n
  <1>. QED
    BY <1>10, <1>11, <1>12, <1>14, ReaderMoves DEF w

LEMMA LeaveStream == StreamInv /\ Leave => StreamInv'
  <1> SUFFICES ASSUME StreamInv, Leave
               PROVE  StreamInv'
    OBVIOUS
  <1> DEFINE i == next + 1
             v == written[next]
             w == written[i]
  <1>1. /\ phase = "reading" /\ next < Len(written) /\ w.type = "close" /\ next' = i
        /\ UNCHANGED <<plan, enc, written, orders, phase, platform>>
        /\ dec' = GetEndEncapsulation(Afresh)
    BY DEF Leave, Reading
  <1>2. next \in 1..Len(written) /\ Len(written) \in Nat
    BY <1>1, ReaderIs
  <1>3. i \in 2..Len(written) /\ i \in 1..Len(written) /\ i - 1 = next
    BY <1>1, <1>2
  <1>4. Shape
    BY DEF StreamInv
  <1>5. v.depth \in Nat /\ w.depth \in Nat
    BY <1>2, <1>3, <1>4, ThingsAre
  <1>6. w.depth = v.depth - 1
    <2>1. Follows(v, w)
      BY <1>3, <1>4 DEF Shape
    <2>. QED
      BY <1>1, <2>1 DEF Follows
  <1>7. LeavesAt(next, i, v.depth)
    BY <1>2, <1>5, <1>6 DEF LeavesAt
  <1>8. v.depth > 0
    BY <1>5, <1>6
  <1> HIDE DEF i
  <1>. QED
    BY <1>1, <1>3, <1>7, <1>8, Leaves

\* Wherever an encapsulation is, there is where it is closed: none is left open in what
\* was sent.
LEMMA LeftSometime ==
    ASSUME NEW n \in Nat, NEW depth, \A m \in 1..n : depth[m] \in Nat,
           NEW i \in 1..n, NEW k \in Nat, depth[n] < k, depth[i] >= k
    PROVE  \E j \in i + 1..n :
               /\ depth[j] < k
               /\ \A m \in i + 1..j - 1 : depth[m] >= k
  <1> DEFINE S == {m \in i + 1..n : depth[m] < k}
  <1>1. depth[n] \in Nat /\ depth[i] \in Nat
    BY n \in 1..n
  <1>2. i # n
    BY <1>1
  <1>3. n \in S /\ S \in SUBSET Nat
    BY <1>2
  <1>4. S # {}
    BY <1>3
  <1> HIDE DEF S
  <1>5. PICK j \in S : \A m \in S : j <= m
    BY <1>3, <1>4, ByNumber!Least
  <1>6. j \in i + 1..n /\ depth[j] < k
    BY <1>5 DEF S
  <1>7. ASSUME NEW m \in i + 1..j - 1
        PROVE  depth[m] >= k
    <2>1. m \in i + 1..n /\ m \in 1..n /\ ~(j <= m)
      BY <1>6
    <2>2. m \notin S
      BY <1>5, <2>1
    <2>3. ~(depth[m] < k) /\ depth[m] \in Nat
      BY <2>1, <2>2 DEF S
    <2>. QED
      BY <2>3
  <1>. QED
    BY <1>6, <1>7

LEMMA ClosedSometime ==
    ASSUME Shape, NEW i \in 1..Len(written), NEW k \in Nat,
           written[Len(written)].depth < k, written[i].depth >= k
    PROVE  \E j \in 2..Len(written) :
               /\ j \in i + 1..Len(written) /\ j \in 1..Len(written)
               /\ LeavesAt(i, j, k)
  <1> DEFINE n == Len(written)
             depth == [m \in 1..n |-> written[m].depth]
  <1>1. n \in Nat /\ i \in 1..n /\ n \in 1..n /\ \A m \in 1..n : depth[m] \in Nat
    BY ThingsAre DEF Shape
  <1>2. \A m \in 1..n : depth[m] = written[m].depth
    OBVIOUS
  <1> HIDE DEF depth, n
  <1>3. depth[n] < k /\ depth[i] >= k
    BY <1>1, <1>2 DEF n
  <1>4. PICK j \in i + 1..n : /\ depth[j] < k
                              /\ \A m \in i + 1..j - 1 : depth[m] >= k
    BY <1>1, <1>3, LeftSometime, Zenon
  <1>5. j \in 2..n /\ j \in 1..n /\ i < j
    BY <1>1
  <1>6. \A m \in i + 1..j - 1 : m \in 1..n
    BY <1>1, <1>5
  <1>7. LeavesAt(i, j, k)
    BY <1>2, <1>4, <1>5, <1>6 DEF LeavesAt
  <1>. QED
    BY <1>4, <1>5, <1>7 DEF n

LEMMA LeaveEarlyStream == StreamInv /\ LeaveEarly => StreamInv'
  <1> SUFFICES ASSUME StreamInv, LeaveEarly
               PROVE  StreamInv'
    OBVIOUS
  <1> DEFINE j == CloseAfter(next)
             v == written[next]
             n == Len(written)
  <1>1. /\ phase = "reading" /\ dec.encapStack # <<>> /\ next' = j
        /\ UNCHANGED <<plan, enc, written, orders, phase, platform>>
        /\ dec' = GetEndEncapsulation(Afresh)
    BY DEF LeaveEarly
  <1>2. /\ next \in 1..n /\ n \in Nat
        /\ dec.encapStack \in Seq(Closing) /\ Len(dec.encapStack) = v.depth
        /\ written[n].depth = 0
    BY <1>1, ReaderIs
  <1>3. Shape
    BY DEF StreamInv
  <1>4. v.depth \in Nat /\ v.depth > 0
    BY <1>1, <1>2
  <1>5. written[n].depth < v.depth /\ v.depth >= v.depth
    BY <1>2, <1>4
  <1>6. PICK c \in 2..n : c \in next + 1..n /\ LeavesAt(next, c, v.depth)
    BY <1>2, <1>3, <1>4, <1>5, ClosedSometime
  <1>7. /\ written[c].depth < v.depth
        /\ \A m \in next + 1..c - 1 : written[m].depth >= v.depth
    BY <1>6 DEF LeavesAt
  <1>8. /\ j \in next + 1..n
        /\ written[j].depth < v.depth
        /\ \A m \in next + 1..j - 1 : written[m].depth >= v.depth
    BY <1>6, <1>7 DEF CloseAfter
  <1> HIDE DEF j
  <1>9. j \in 1..n /\ next < j
    BY <1>2, <1>8
  <1>10. LeavesAt(next, j, v.depth)
    BY <1>8, <1>9 DEF LeavesAt
  <1>. QED
    BY <1>1, <1>4, <1>9, <1>10, Leaves

LEMMA SpelledIsShown ==
    ASSUME NEW d \in Decoders, NEW bytes, NEW from \in Nat, NEW n \in Int,
           from + 4 <= Len(d.bytes),
           \A p \in from + 1..from + 4 : d.bytes[p] = bytes[p],
           Spells(bytes, from, n, d.little)
    PROVE  ShowsUlong(d, from, n)
  <1> DEFINE q == InOrder(Pattern(n, 4), d.little)
  <1>1. d.little \in BOOLEAN
    BY DEF Decoders
  <1>2. Pattern(n, 4) \in Seq(Octet) /\ Len(Pattern(n, 4)) = 4
    <2>1. 4 \in {1, 2, 4}
      OBVIOUS
    <2>. QED
      BY <2>1, PatternIsWord DEF AnyWord
  <1>3. Len(q) = 4
    BY <1>1, <1>2, InOrderKeeps
  <1>4. \A m \in 1..4 : bytes[from + m] = q[m]
    BY DEF Spells
  <1> HIDE DEF q
  <1>5. \A m \in 1..4 : d.bytes[from + m] = q[m]
    <2>1. \A m \in 1..4 : from + m \in from + 1..from + 4
      OBVIOUS
    <2>. QED
      BY <1>4, <2>1
  <1>6. Shows(d, from, q)
    BY <1>3, <1>5 DEF Shows
  <1>. QED
    BY <1>6 DEF ShowsUlong, q

\* From i on, one thing is the first that is less than k levels deep.
LEMMA OneLeaves ==
    ASSUME NEW i \in Nat, NEW k \in Nat, NEW j \in Nat, NEW m \in Nat,
           LeavesAt(i, j, k), LeavesAt(i, m, k),
           written[j].depth \in Nat, written[m].depth \in Nat
    PROVE  j = m
  <1>1. /\ i < j /\ written[j].depth < k /\ \A x \in i + 1..j - 1 : written[x].depth >= k
        /\ i < m /\ written[m].depth < k /\ \A x \in i + 1..m - 1 : written[x].depth >= k
    BY DEF LeavesAt
  <1>2. ~(j < m)
    <2>1. j < m => j \in i + 1..m - 1
      BY <1>1
    <2>. QED
      BY <1>1, <2>1
  <1>3. ~(m < j)
    <2>1. m < j => m \in i + 1..j - 1
      BY <1>1
    <2>. QED
      BY <1>1, <2>1
  <1>. QED
    BY <1>2, <1>3

LEMMA EnterStream == StreamInv /\ Small /\ Enter => StreamInv'
  <1> SUFFICES ASSUME StreamInv, Small, Enter
               PROVE  StreamInv'
    OBVIOUS
  <1> DEFINE n == Len(written)
             i == next + 1
             v == written[next]
             w == written[i]
             stack == dec.encapStack
             k == w.depth
             at == Aligned(v.offset, 4)
  <1>1. /\ phase = "reading" /\ next < n /\ w.type = "open" /\ next' = i
        /\ UNCHANGED <<plan, enc, written, orders, phase, platform>>
        /\ dec' = GetBeginEncapsulation(Afresh)
    BY DEF Enter, Reading
  <1>2. Shape /\ Opens /\ Closes
    BY DEF StreamInv
  <1>3. /\ next \in 1..n /\ n \in Nat /\ platform \in BOOLEAN
        /\ Afresh \in Decoders /\ Afresh.got = <<>>
        /\ Afresh.offset = v.offset /\ Afresh.little = v.little
        /\ Afresh.bytes = dec.bytes /\ Afresh.encapStack = stack
        /\ Len(dec.bytes) = enc.offset /\ enc.offset \in Nat
        /\ \A p \in 1..enc.offset : dec.bytes[p] = enc.bytes[p]
        /\ stack \in Seq(Closing) /\ Len(stack) = v.depth
        /\ \A c \in 1..Len(stack) : \A j \in 1..n :
              LeavesAt(next, j, c) =>
                  stack[c] = [nextOffset |-> written[j].offset, endian |-> written[j].little]
        /\ written[n].depth = 0
        /\ \A m \in 1..n : written[m].offset <= enc.offset
    BY <1>1, ReaderIs
  <1>4. i \in 2..n /\ i \in 1..n /\ i - 1 = next
    BY <1>1, <1>3
  <1>5. /\ v.offset \in Nat /\ w.offset \in Nat /\ v.depth \in Nat /\ k \in Nat
        /\ v.little \in BOOLEAN /\ w.little \in BOOLEAN
        /\ \A m \in 1..n : written[m].depth \in Nat /\ written[m].offset \in Nat
    BY <1>2, <1>3, <1>4, ThingsAre
  <1>6. k = v.depth + 1
    <2>1. Follows(v, w)
      BY <1>2, <1>4 DEF Shape
    <2>. QED
      BY <1>1, <2>1 DEF Follows
  <1>7. Begins(enc.bytes, v, w)
    BY <1>1, <1>2, <1>4 DEF Opens
  <1>8. /\ w.offset = at + 9 /\ Spells(enc.bytes, w.offset - 9, 0, v.little)
        /\ enc.bytes[w.offset] = IF w.little THEN 1 ELSE 0
    BY <1>7 DEF Begins
  <1>9. at \in Nat
    <2>1. 4 \in AlignWidth
      BY DEF AlignWidth
    <2>. QED
      BY <1>5, <2>1, AlignedUp, Zenon
  <1>10. PICK j \in 2..n : j \in i + 1..n /\ j \in 1..n /\ LeavesAt(i, j, k)
    <2>1. written[n].depth < k /\ w.depth >= k
      BY <1>3, <1>5, <1>6
    <2>. QED
      BY <1>2, <1>4, <1>5, <2>1, ClosedSometime
  <1>11. Sized(enc.bytes, v, w, written[j])
    BY <1>1, <1>2, <1>4, <1>10 DEF Closes
  <1> DEFINE size == written[j].offset - w.offset + 1
  <1>12. Spells(enc.bytes, w.offset - 5, size, v.little) /\ written[j].little = v.little
    BY <1>11 DEF Sized
  <1>13. size \in Nat /\ size < UlongLimit /\ 0 < UlongLimit /\ 0 \in Nat
    <2>1. w.offset <= written[j].offset /\ written[j].offset <= enc.offset
          /\ written[j].offset \in Nat
      <3>1. i <= j
        BY <1>3, <1>10
      <3>2. w.offset <= written[j].offset
        BY <1>2, <1>4, <1>10, <3>1 DEF Shape
      <3>. QED
        BY <1>3, <1>5, <1>10, <3>2
    <2>2. size \in Nat /\ size <= enc.offset
      <3> DEFINE b == w.offset
                 c == written[j].offset
      <3>1. b \in Nat /\ c \in Nat /\ b >= 9 /\ b <= c /\ c <= enc.offset
        BY <1>5, <1>8, <1>9, <2>1
      <3>2. size = c - b + 1
        OBVIOUS
      <3> HIDE DEF b, c, size
      <3>. QED
        BY <1>3, <3>1, <3>2
    <2>3. enc.offset < UlongLimit /\ UlongLimit \in Nat
      BY SMTT(30) DEF Small, UlongLimit
    <2> HIDE DEF size
    <2>. QED
      BY <1>3, <2>2, <2>3
  <1> DEFINE a == Afresh
  <1>14. a \in Decoders /\ a.offset = v.offset /\ a.little = v.little /\ a.bytes = dec.bytes
         /\ a.encapStack = stack /\ a.got = <<>> /\ dec' = GetBeginEncapsulation(a)
    BY <1>1, <1>3
  <1> HIDE DEF a, at, v, w, stack, n, k, i
  <1>15. at + 9 <= Len(a.bytes) /\ Len(a.bytes) = enc.offset
         /\ \A p \in 1..at + 9 : a.bytes[p] = enc.bytes[p]
    <2>1. w.offset <= enc.offset
      BY <1>3, <1>4 DEF w
    <2>. QED
      BY <1>3, <1>8, <1>9, <1>14, <2>1
  <1>16. ShowsUlong(a, at, 0)
    <2>1. w.offset - 9 = at
      BY <1>8, <1>9
    <2>2. Spells(enc.bytes, at, 0, a.little)
      BY <1>8, <1>14, <2>1
    <2>3. at + 4 <= Len(a.bytes) /\ 0 \in Int
          /\ \A p \in at + 1..at + 4 : a.bytes[p] = enc.bytes[p]
      BY <1>3, <1>9, <1>15
    <2>. QED
      BY <1>9, <1>14, <2>2, <2>3, SpelledIsShown, Zenon
  <1>17. ShowsUlong(a, at + 4, size)
    <2>1. w.offset - 5 = at + 4 /\ at + 4 \in Nat
      BY <1>8, <1>9
    <2>2. Spells(enc.bytes, at + 4, size, a.little)
      BY <1>12, <1>14, <2>1
    <2>3. at + 4 + 4 <= Len(a.bytes) /\ size \in Int
          /\ \A p \in at + 4 + 1..at + 4 + 4 : a.bytes[p] = enc.bytes[p]
      BY <1>3, <1>9, <1>13, <1>15
    <2> HIDE DEF size
    <2>. QED
      BY <1>14, <2>1, <2>2, <2>3, SpelledIsShown, Zenon
  <1>18. a.bytes[at + 9] = IF w.little THEN 1 ELSE 0
    <2>1. at + 9 \in 1..at + 9
      BY <1>9
    <2>. QED
      BY <1>8, <1>15, <2>1
  <1>19. at + 8 + size = written[j].offset
    BY <1>5, <1>8, <1>9, <1>10
  <1> HIDE DEF size
  <1> DEFINE closing == [nextOffset |-> written[j].offset, endian |-> written[j].little]
             type == Pattern(0, 4)
  <1>20. dec' = [a EXCEPT !.offset = at + 9, !.little = w.little,
                          !.encapStack = Append(@, closing), !.got = Append(@, type)]
    <2>1. at = Aligned(a.offset, 4)
      BY <1>14 DEF at
    <2>2. GetBeginEncapsulation(a) = Entered(a, at, 0, size, w.little)
      <3>1. /\ a \in Decoders /\ 0 \in Nat /\ 0 < UlongLimit /\ size \in Nat
            /\ size < UlongLimit /\ w.little \in BOOLEAN /\ at + 9 <= Len(a.bytes)
            /\ ShowsOrder(a, at + 9, w.little)
        BY <1>5, <1>13, <1>14, <1>15, <1>18 DEF ShowsOrder
      <3> HIDE DEF closing, type
      <3>. QED
        BY <1>16, <1>17, <2>1, <3>1, EncapsulationIsEntered
    <2>3. [nextOffset |-> at + 8 + size, endian |-> a.little] = closing
      BY <1>12, <1>14, <1>19
    <2> HIDE DEF closing, type
    <2>4. dec' = GetBeginEncapsulation(a)
      BY <1>14
    <2>. QED
      BY <2>2, <2>3, <2>4, Zenon DEF type, Entered
  <1>21. closing \in Closing /\ closing.nextOffset = written[j].offset
    BY <1>5, <1>10, <1>12 DEF Closing
  <1>22. type \in Seq(Octet)
    <2>1. 4 \in {1, 2, 4} /\ 0 \in Int
      OBVIOUS
    <2>2. Pattern(0, 4) \in AnyWord
      BY <2>1, PatternIsWord
    <2>. QED
      BY <2>2 DEF AnyWord
  <1> DEFINE longer == Append(stack, closing)
  <1>23. /\ longer \in Seq(Closing) /\ Len(longer) = k /\ longer[k] = closing
         /\ \A c \in 1..k - 1 : longer[c] = stack[c]
    <2> HIDE DEF closing
    <2>. QED
      BY <1>3, <1>5, <1>6, <1>21
  <1>24. Append(a.got, type) \in Seq(Seq(Octet))
    BY <1>14, <1>22 DEF Decoders
  <1> HIDE DEF closing, type
  <1>25. /\ dec' \in Decoders /\ dec'.offset = w.offset /\ dec'.little = w.little
         /\ dec'.bytes = dec.bytes /\ dec'.encapStack = longer
    <2>1. dec' = [a EXCEPT !.offset = at + 9, !.little = w.little,
                           !.encapStack = longer, !.got = Append(a.got, type)]
      BY <1>14, <1>20
    <2> HIDE DEF longer
    <2>. QED
      BY <1>5, <1>8, <1>14, <1>23, <1>24, <2>1, Zenon DEF Decoders
  <1> HIDE DEF longer
  <1>26. IsDecoder(dec')
    BY <1>25, Zenon DEF Decoders, IsDecoder
  <1>27. Len(dec'.encapStack) = w.depth
    BY <1>23, <1>25 DEF k
  <1>28. ASSUME NEW c \in 1..Len(dec'.encapStack), NEW m \in 1..n, LeavesAt(i, m, c)
         PROVE  dec'.encapStack[c] = [nextOffset |-> written[m].offset,
                                      endian |-> written[m].little]
    <2>1. CASE c = k
      <3>1. i \in Nat /\ m \in Nat /\ j \in Nat /\ k \in Nat
            /\ written[m].depth \in Nat /\ written[j].depth \in Nat
        BY <1>4, <1>5, <1>10
      <3>2. LeavesAt(i, m, k)
        BY <1>28, <2>1
      <3>3. j = m
        BY <1>10, <3>1, <3>2, OneLeaves
      <3>. QED
        BY <1>23, <1>25, <2>1, <3>3 DEF closing
    <2>2. CASE c \in 1..k - 1
      <3>1. c \in 1..Len(stack) /\ k >= c
        BY <1>3, <1>5, <1>6, <2>2
      <3>2. LeavesAt(next, m, c)
        <4>1. \A x \in next + 1..m - 1 : x = i \/ x \in i + 1..m - 1
          BY <1>3 DEF i
        <4>2. i < m /\ next < m
          BY <1>3, <1>28 DEF LeavesAt, i
        <4>. QED
          BY <1>28, <3>1, <4>1, <4>2 DEF LeavesAt, k, w
      <3>. QED
        BY <1>3, <1>23, <1>25, <2>2, <3>1, <3>2, Zenon
    <2>. QED
      BY <1>5, <1>23, <1>25, <2>1, <2>2
  <1>29. \A c \in 1..Len(dec'.encapStack) : \A m \in 1..Len(written) :
             LeavesAt(i, m, c) =>
                 dec'.encapStack[c] = [nextOffset |-> written[m].offset,
                                       endian |-> written[m].little]
    BY <1>28 DEF n
  <1>30. written[i].type # "item"
    BY <1>1 DEF w
  <1>. QED
    BY <1>1, <1>4, <1>25, <1>26, <1>27, <1>29, <1>30, ReaderMoves DEF w, n
-----------------------------------------------------------------------------
(***************************************************************************)
(* The invariant holds in every message of items of CDR that is not longer *)
(* than a ulong can tell.                                                  *)
(***************************************************************************)
LEMMA StreamStep == StreamInv /\ Plain /\ Small /\ Small' /\ [Next]_vars => StreamInv'
  <1> SUFFICES ASSUME StreamInv, Plain, Small, Small', [Next]_vars
               PROVE  StreamInv'
    OBVIOUS
  <1>1. CASE Begin
    BY <1>1, BeginStream
  <1>2. ASSUME NEW item \in plan.items, Write(item)
        PROVE  StreamInv'
    BY <1>2, WriteStream
  <1>3. ASSUME NEW foreign \in BOOLEAN, Open(foreign)
        PROVE  StreamInv'
    BY <1>3, OpenStream
  <1>4. CASE Close
    BY <1>4, CloseStream
  <1>5. CASE Send
    BY <1>5, SendStream
  <1>6. CASE Read
    BY <1>6, ReadStream
  <1>7. CASE Enter
    BY <1>7, EnterStream
  <1>8. CASE Leave
    BY <1>8, LeaveStream
  <1>9. CASE LeaveEarly
    BY <1>9, LeaveEarlyStream
  <1>10. CASE UNCHANGED vars
    <2>1. EncInv /\ Shape /\ Places /\ ItemsRead /\ Opens /\ Closes /\ ReaderInv
      BY DEF StreamInv
    <2>2. EncInv'
      BY <1>10, <2>1 DEF vars, EncInv
    <2>3. Shape'
      BY <1>10, <2>1 DEF vars, Shape
    <2>4. Places'
      BY <1>10, <2>1 DEF vars, Places
    <2>5. ItemsRead' /\ Opens' /\ Closes'
      BY <1>10, <2>1 DEF vars, ItemsRead, Opens, Closes, LeavesAt
    <2>6. ReaderInv'
      BY <1>10, <2>1 DEF vars, ReaderInv, LeavesAt
    <2>. QED
      BY <2>2, <2>3, <2>4, <2>5, <2>6 DEF StreamInv
  <1>. QED
    BY <1>1, <1>2, <1>3, <1>4, <1>5, <1>6, <1>7, <1>8, <1>9, <1>10 DEF Next

LEMMA StreamInvHolds == Spec /\ [](Plain /\ Small) => []StreamInv
  <1>1. Init => StreamInv
    BY InitStream
  <1>2. StreamInv /\ (Plain /\ Small) /\ (Plain /\ Small)' /\ [Next]_vars => StreamInv'
    BY StreamStep
  <1>. QED
    BY <1>1, <1>2, PTL DEF Spec

\* What the decoder has returned, and where it is.
LEMMA ReaderAgrees == StreamInv /\ Plain => ReadBack /\ InStep
  <1> SUFFICES ASSUME StreamInv, Plain
               PROVE  ReadBack /\ InStep
    OBVIOUS
  <1> DEFINE w == written[next]
  <1>1. ReaderInv /\ Shape
    BY DEF StreamInv
  <1>2. CASE phase = "writing"
    <2>1. dec.ok /\ next = 0 /\ ~(next > 0)
      BY <1>1, <1>2 DEF ReaderInv
    <2>. QED
      BY <2>1 DEF ReadBack, InStep
  <1>3. CASE phase = "reading"
    <2>1. /\ next \in 1..Len(written) /\ IsDecoder(dec)
          /\ dec.offset = w.offset /\ dec.little = w.little
          /\ w.type = "item" => dec.got \in {<<>>, <<Expected(w.item)>>}
      BY <1>1, <1>3 DEF ReaderInv
    <2>2. dec.ok
      BY <2>1, Zenon DEF IsDecoder
    <2>3. w.type = "item" => w.item.type \in PlainTypes
      <3>1. CASE next = 1
        BY <1>1, <2>1, <3>1 DEF Shape
      <3>2. CASE next \in 2..Len(written)
        <4>1. w.type = "item" => w.item \in plan.items
          BY <1>1, <3>2 DEF Shape
        <4>. QED
          BY <4>1 DEF Plain
      <3>. QED
        BY <2>1, <3>1, <3>2
    <2>4. w.type = "item" => /\ w.item.type # "tag" /\ w.item.type # "peer"
                             /\ w.item.type \notin {"reference", "nil", "peer"}
      BY <2>3 DEF PlainTypes
    <2>5. ~Misread(w)
      BY <2>4 DEF Misread
    <2>6. ASSUME w.type = "item", dec.got # <<>>
          PROVE  Returned(w.item) = Expected(w.item)
      <3> DEFINE v == Expected(w.item)
      <3>1. dec.got = <<v>>
        BY <2>1, <2>6
      <3> HIDE DEF v
      <3>2. Last(<<v>>) = v
        BY DEF Last
      <3>3. Value(dec) = v
        BY <3>1, <3>2 DEF Value
      <3>4. Returned(w.item) = Value(dec)
        BY <2>4, <2>6 DEF Returned
      <3>. QED
        BY <3>3, <3>4 DEF v
    <2>. QED
      BY <2>1, <2>2, <2>5, <2>6 DEF ReadBack, InStep
  <1>. QED
    BY <1>1, <1>2, <1>3 DEF ReaderInv

(***************************************************************************)
(* ReadBack (giop.ts:787-1026 against giop.ts:1532-1818): whatever message *)
(* of numbers, texts and sequences was written, of every length, at every  *)
(* alignment, in either byte order and in encapsulations nested to any     *)
(* depth, the reader gets back what was written, also behind encapsulations*)
(* that it left before their end.                                          *)
(***************************************************************************)
THEOREM WrittenIsRead == Spec /\ [](Plain /\ Small) => []ReadBack
  BY StreamInvHolds, ReaderAgrees, PTL

(***************************************************************************)
(* InStep (giop.ts:804-828, 1066, 1813): in those messages the reader is,  *)
(* after each thing it read, where the writer was, and in its byte order.  *)
(***************************************************************************)
THEOREM ReaderInStep == Spec /\ [](Plain /\ Small) => []InStep
  BY StreamInvHolds, ReaderAgrees, PTL
=============================================================================
