-------------------------- MODULE GiopMessagesProofs --------------------------
(***************************************************************************)
(* What arrives is what was sent: proofs about requests and replies of any *)
(* length, with any service contexts, in either byte order.                *)
(***************************************************************************)
EXTENDS GiopMessages, CdrProofs

-----------------------------------------------------------------------------
(***************************************************************************)
(* The service contexts that are sent.                                     *)
(***************************************************************************)
LEMMA BeginKeeps ==
    ASSUME NEW e \in Encoders, NEW type \in Int
    PROVE  PutBeginEncapsulation(e, type) \in Encoders
  BY EncapsulationBegins, InsideIsEncoder, Zenon

LEMMA PeerContextPut ==
    ASSUME NEW e \in Encoders, NEW c, c.service \in Int, NEW S, c.fields \in Seq(S),
           \A i \in 1..Len(c.fields) : FieldOK(c.fields[i])
    PROVE  IsContext(e, PutPeerContext(e, c))
  <1> DEFINE b == PutBeginEncapsulation(e, c.service)
             l == PutFields(b, c.fields)
  <1>1. b \in Encoders
    BY BeginKeeps
  <1>2. l \in Later(b)
    <2> HIDE DEF b
    <2>. QED
      BY <1>1, FieldsKeep
  <1>3. PutPeerContext(e, c) = PutEndEncapsulation(l)
    BY DEF PutPeerContext
  <1>. QED
    BY <1>2, <1>3, Zenon DEF IsContext

LEMMA ListenPointPut ==
    ASSUME NEW e \in Encoders, NEW sender, sender.host \in Seq(Octet), sender.port \in Int
    PROVE  IsContext(e, PutListenPoint(e, sender))
  <1> DEFINE service == ServiceId.BI_DIR_IIOP
             b == PutBeginEncapsulation(e, service)
             f1 == Field("ulong", 1)
             f2 == Field("string", sender.host)
             f3 == Field("ushort", sender.port)
             fields == <<f1, f2, f3>>
             l == PutFields(b, fields)
  <1>1. service \in Int
    BY DEF ServiceId
  <1>2. b \in Encoders
    <2> HIDE DEF service
    <2>. QED
      BY <1>1, BeginKeeps
  <1>3. FieldOK(f1) /\ FieldOK(f2) /\ FieldOK(f3)
    BY FieldIsOK
  <1>4. PutListenPoint(e, sender) = PutEndEncapsulation(l)
    BY DEF PutListenPoint
  <1> HIDE DEF f1, f2, f3, b, service
  <1>5. fields \in Seq({f1, f2, f3}) /\ \A i \in 1..Len(fields) : FieldOK(fields[i])
    BY <1>3
  <1> HIDE DEF fields
  <1>6. l \in Later(b)
    BY <1>2, <1>5, FieldsKeep
  <1> HIDE DEF l
  <1>. QED
    BY <1>1, <1>4, <1>6, Zenon DEF IsContext, b

LEMMA GssTokenKeeps ==
    ASSUME NEW e \in Encoders, NEW c \in Credentials
    PROVE  GssToken(e, c) \in Later(e)
  <1> DEFINE oid == PutAsn1Oid(Encoder(e.little), GSSUP)
             tag == PutAsn1Tag(e, Universal, OID, Primitive, LAMBDA s : PutAsn1Oid(s, GSSUP))
             order == PutEndian(tag)
             f1 == Field("blob", c.user)
             f2 == Field("blob", c.password)
             f3 == Field("blob", c.target)
             fields == <<f1, f2, f3>>
  <1>1. oid \in Encoders
    <2>1. Encoder(e.little) \in Encoders
      BY NewEncoder DEF Encoders
    <2>2. GSSUP \in ObjectIdentifier
      <3>1. GSSUP \in Seq(Nat) /\ Len(GSSUP) >= 2
        BY DEF GSSUP
      <3>2. GSSUP[1] * 40 + GSSUP[2] \in Octet
        BY DEF GSSUP, Octet
      <3>. QED
        BY <3>1, <3>2 DEF ObjectIdentifier
    <2>. QED
      BY <2>1, <2>2, OidKeeps, LaterIsEncoder
  <1>2. tag \in Later(e)
    <2> HIDE DEF oid
    <2>1. Universal \in 0..3 /\ OID \in Nat /\ Primitive \in 0..1
      BY DEF Universal, OID, Primitive
    <2>2. LET k == Universal * 64 + Primitive * 32
              tagged == IF OID < 31 THEN PutOctet(e, k + OID)
                        ELSE PutAsn1Number(PutOctet(e, k + 31), OID)
          IN  PutOctets(PutAsn1Number(tagged, oid.offset), Slice(oid, 0, oid.offset)) \in Later(e)
      BY <1>1, <2>1, TagKeeps, Zenon
    <2>. QED
      BY <2>2 DEF PutAsn1Tag, oid
  <1>3. GssToken(e, c) = PutFields(order, fields)
    BY DEF GssToken, PutAsn1Tag
  <1> HIDE DEF tag
  <1>4. tag \in Encoders
    BY <1>2, LaterIsEncoder
  <1>5. order \in Later(tag) /\ order \in Encoders
    BY <1>4, EndianKeeps, LaterIsEncoder
  <1> HIDE DEF order
  <1>6. FieldOK(f1) /\ FieldOK(f2) /\ FieldOK(f3)
    BY FieldIsOK DEF Credentials
  <1> HIDE DEF f1, f2, f3
  <1>7. fields \in Seq({f1, f2, f3}) /\ \A i \in 1..Len(fields) : FieldOK(fields[i])
    BY <1>6
  <1> HIDE DEF fields
  <1>8. PutFields(order, fields) \in Later(order)
    BY <1>5, <1>7, FieldsKeep
  <1>9. PutFields(order, fields) \in Later(tag)
    BY <1>4, <1>5, <1>8, LaterIsLater
  <1>. QED
    BY <1>2, <1>3, <1>9, LaterIsLater

LEMMA SecurityPut ==
    ASSUME NEW e \in Encoders, NEW c \in Credentials
    PROVE  IsContext(e, PutEstablishSecurityContext(e, c))
  <1> DEFINE service == ServiceId.SecurityAttributeService
             b == PutBeginEncapsulation(e, service)
             f1 == Field("ulong", SASType.EstablishContext)
             f2 == Field("number", <<0, 0, 0, 0, 0, 0, 0, 1>>)
             f3 == Field("ulong", 0)
             f4 == Field("ulong", IdentityAbsent)
             f5 == Field("octet", 1)
             fields == <<f1, f2, f3, f4, f5>>
             head == PutFields(b, fields)
             s == ReserveSize(head)
             token == GssToken(Encoder(s.little), c)
             tag == PutAsn1Tag(s, Application, 0, Constructed, LAMBDA z : GssToken(z, c))
             l == FillinSize(tag)
  <1>1. service \in Int
    BY DEF ServiceId
  <1>2. b \in Encoders
    <2> HIDE DEF service
    <2>. QED
      BY <1>1, BeginKeeps
  <1>3. PutEstablishSecurityContext(e, c) = PutEndEncapsulation(l)
    BY DEF PutEstablishSecurityContext, PutAsn1Tag
  <1>4. FieldOK(f1) /\ FieldOK(f2) /\ FieldOK(f3) /\ FieldOK(f4) /\ FieldOK(f5)
    <2>1. SASType.EstablishContext \in Int /\ IdentityAbsent \in Int
      BY DEF SASType, IdentityAbsent
    <2>2. 1 \in Octet /\ 0 \in Octet
      BY DEF Octet
    <2>3. <<0, 0, 0, 0, 0, 0, 0, 1>> \in AnyWord
      <3>1. <<0, 0, 0, 0, 0, 0, 0, 1>> \in Seq(Octet) /\ Len(<<0, 0, 0, 0, 0, 0, 0, 1>>) = 8
        BY <2>2
      <3>2. 8 \in AlignWidth
        BY DEF AlignWidth
      <3>. QED
        BY <3>1, <3>2 DEF AnyWord
    <2>. QED
      BY <2>1, <2>2, <2>3, FieldIsOK
  <1> HIDE DEF f1, f2, f3, f4, f5, b, service
  <1>5. fields \in Seq({f1, f2, f3, f4, f5}) /\ \A i \in 1..Len(fields) : FieldOK(fields[i])
    BY <1>4
  <1> HIDE DEF fields
  <1>6. head \in Later(b) /\ head \in Encoders
    BY <1>2, <1>5, FieldsKeep, LaterIsEncoder
  <1> HIDE DEF head
  <1>7. s \in Inside(head) /\ s \in Encoders
    BY <1>6, SizeReserved, InsideIsEncoder
  <1>8. token \in Encoders
    <2>1. s.little \in BOOLEAN
      BY <1>7 DEF Encoders
    <2> HIDE DEF s
    <2>2. Encoder(s.little) \in Encoders
      BY <2>1, NewEncoder
    <2>. QED
      BY <2>2, GssTokenKeeps, LaterIsEncoder
  <1>9. tag \in Later(s)
    <2> HIDE DEF token, s
    <2>1. Application \in 0..3 /\ 0 \in Nat /\ Constructed \in 0..1
      BY DEF Application, Constructed
    <2>2. LET k == Application * 64 + Constructed * 32
              tagged == IF 0 < 31 THEN PutOctet(s, k + 0)
                        ELSE PutAsn1Number(PutOctet(s, k + 31), 0)
          IN  PutOctets(PutAsn1Number(tagged, token.offset), Slice(token, 0, token.offset)) \in Later(s)
      BY <1>7, <1>8, <2>1, TagKeeps, Zenon
    <2>. QED
      BY <2>2 DEF PutAsn1Tag, token
  <1> HIDE DEF s, tag, token
  <1>10. l \in Later(head)
    BY <1>6, <1>7, <1>9, InsideStays, InsideIsLeft
  <1>11. l \in Later(b)
    BY <1>2, <1>6, <1>10, LaterIsLater
  <1> HIDE DEF l
  <1>. QED
    BY <1>1, <1>3, <1>11, Zenon DEF IsContext, b

\* What the types of IDL allow can be put.
LEMMA ParameterFits ==
    ASSUME NEW x \in Parameter
    PROVE  /\ FieldOK(x) /\ x.type \in Elementary
           /\ (x.type = "ulong" => x.v < UlongLimit) => FieldFits(x)
  <1>1. \/ x.type = "ulong" /\ x.v \in Nat
        \/ x.type = "ushort" /\ x.v \in UnsignedShort
        \/ x.type = "octet" /\ x.v \in Octet
        \/ x.type \in {"blob", "string"} /\ x.v \in Seq(Octet)
    <2>1. CASE x \in [type : {"ulong"}, v : Nat]
      BY <2>1
    <2>2. CASE x \in [type : {"ushort"}, v : UnsignedShort]
      BY <2>2
    <2>3. CASE x \in [type : {"octet"}, v : Octet]
      BY <2>3
    <2>4. CASE x \in [type : {"blob", "string"}, v : Seq(Octet)]
      BY <2>4
    <2>. QED
      BY <2>1, <2>2, <2>3, <2>4 DEF Parameter
  <1>2. x.v \in UnsignedShort => x.v \in Int
    BY NumberOfTwo
  <1>3. FieldOK(x)
    BY <1>1, <1>2 DEF FieldOK
  <1>4. x.type \in Elementary
    BY <1>1 DEF Elementary
  <1>5. (x.type = "ulong" => x.v < UlongLimit) => FieldFits(x)
    BY <1>1 DEF FieldFits
  <1>. QED
    BY <1>3, <1>4, <1>5

LEMMA OwnContexts ==
    ASSUME NEW e \in Encoders, NEW sender \in Sender
    PROVE  \E m \in Nat : \E f : IsList(f, e, m) /\ PutServiceContext(e, sender) = f[m]
  <1>1. /\ sender.connected \in BOOLEAN /\ sender.host \in Seq(Octet) /\ sender.port \in Int
        /\ sender.credentials = Absent \/ sender.credentials \in Credentials
    <2>1. /\ sender.connected \in BOOLEAN /\ sender.host \in Seq(Octet)
          /\ sender.port \in UnsignedShort
          /\ sender.credentials = Absent \/ sender.credentials \in Credentials
      BY SenderAssumption DEF SenderAssumption
    <2>. QED
      BY <2>1, NumberOfTwo
  <1> DEFINE none == PutUlong(e, 0)
             n == IF sender.credentials = Absent THEN 1 ELSE 2
             first == PutUlong(e, n)
             one == PutListenPoint(first, sender)
             two == PutEstablishSecurityContext(one, sender.credentials)
  <1>2. PutServiceContext(e, sender) = IF ~sender.connected THEN none
                                       ELSE IF sender.credentials = Absent THEN one ELSE two
    BY DEF PutServiceContext, PutCredentials
  <1>3. first \in Encoders /\ IsContext(first, one)
    <2>1. first \in Encoders
      BY UlongKeeps
    <2> HIDE DEF first
    <2>. QED
      BY <1>1, <2>1, ListenPointPut
  <1>4. sender.credentials # Absent => IsContext(one, two)
    <2>1. one \in Encoders
      BY <1>3, ContextPut
    <2> HIDE DEF one
    <2>. QED
      BY <1>1, <2>1, SecurityPut
  <1> HIDE DEF none, one, two
  <1>5. CASE ~sender.connected
    <2> DEFINE f == [i \in {0} |-> none]
    <2>1. IsList(f, e, 0) /\ PutServiceContext(e, sender) = f[0]
      BY <1>2, <1>5 DEF IsList, none
    <2> HIDE DEF f
    <2>. QED
      BY <2>1
  <1>6. CASE sender.connected /\ sender.credentials = Absent
    <2> DEFINE f == [i \in 0..1 |-> IF i = 0 THEN first ELSE one]
    <2>1. n = 1 /\ f[0] = first /\ f[1] = one
      BY <1>6
    <2> HIDE DEF f
    <2>2. IsList(f, e, 1)
      <3>1. \A i \in 1..1 : i = 1 /\ i - 1 = 0
        OBVIOUS
      <3>. QED
        BY <1>3, <2>1, <3>1 DEF IsList, first
    <2>3. PutServiceContext(e, sender) = f[1]
      BY <1>2, <1>6, <2>1
    <2>. QED
      BY <2>2, <2>3
  <1>7. CASE sender.connected /\ sender.credentials # Absent
    <2> DEFINE f == [i \in 0..2 |-> IF i = 0 THEN first ELSE IF i = 1 THEN one ELSE two]
    <2>1. n = 2 /\ f[0] = first /\ f[1] = one /\ f[2] = two
      BY <1>7
    <2> HIDE DEF f
    <2>2. IsList(f, e, 2)
      <3>1. \A i \in 1..2 : \/ i = 1 /\ i - 1 = 0
                            \/ i = 2 /\ i - 1 = 1
        OBVIOUS
      <3>. QED
        BY <1>3, <1>4, <1>7, <2>1, <3>1 DEF IsList, first
    <2>3. PutServiceContext(e, sender) = f[2]
      BY <1>2, <1>7, <2>1
    <2>. QED
      BY <2>2, <2>3
  <1>. QED
    BY <1>1, <1>5, <1>6, <1>7

ByPeer == INSTANCE FoldFacts WITH Op <- LAMBDA e, c, w : PutPeerContext(e, c)

LEMMA PeersContexts ==
    ASSUME NEW e \in Encoders, NEW contexts \in PeerContexts
    PROVE  /\ Len(contexts) \in Nat
           /\ \E f : /\ IsList(f, e, Len(contexts))
                     /\ FoldLeft(PutPeerContext, PutUlong(e, Len(contexts)), contexts)
                            = f[Len(contexts)]
  <1> DEFINE S == [service : Nat, fields : Seq(Parameter \cup [type : {"number"}, v : Word(8)])]
             first == PutUlong(e, Len(contexts))
             it == CHOOSE h : ByPeer!IsIter(h, first, contexts, 0)
             all == FoldLeft(PutPeerContext, first, contexts)
  <1>1. contexts \in Seq(S)
    BY ContextAssumption DEF ContextAssumption
  <1>2. ByPeer!IsIter(it, first, contexts, 0)
    <2> HIDE DEF first, S
    <2>. QED
      BY <1>1, ByPeer!IterExists, Zenon
  <1>3. all = it[DOMAIN contexts]
    BY DEF ByPeer!IsIter, FoldLeft, MapThenFoldSet, ByPeer!Greatest, Max
  <1> HIDE DEF it, all, first, S
  <1>4. PICK f : ByPeer!IsFold(f, first, contexts, 0) /\ all = f[Len(contexts)]
    BY <1>1, <1>2, <1>3, ByPeer!IterFolds
  <1>5. f[0] = first /\ \A i \in 1..Len(contexts) : f[i] = PutPeerContext(f[i - 1], contexts[i])
    BY <1>4 DEF ByPeer!IsFold
  <1>6. Len(contexts) \in Nat /\ \A i \in 1..Len(contexts) : contexts[i] \in S
    BY <1>1
  <1>7. ASSUME NEW i \in 1..Len(contexts)
        PROVE  LET c == contexts[i]
               IN  /\ c.service \in Int
                   /\ c.fields \in Seq(Parameter \cup [type : {"number"}, v : Word(8)])
                   /\ \A j \in 1..Len(c.fields) : FieldOK(c.fields[j])
    <2> DEFINE c == contexts[i]
               P == Parameter \cup [type : {"number"}, v : Word(8)]
    <2>1. c \in S
      BY <1>6
    <2> HIDE DEF c
    <2>2. c.service \in Int /\ c.fields \in Seq(P)
      BY <2>1 DEF S
    <2>3. \A x \in P : FieldOK(x)
      <3>1. ASSUME NEW x \in Parameter
            PROVE  FieldOK(x)
        BY ParameterFits
      <3>2. ASSUME NEW x \in [type : {"number"}, v : Word(8)]
            PROVE  FieldOK(x)
        <4>1. x.type = "number" /\ x.v \in Word(8)
          OBVIOUS
        <4>2. x.v \in AnyWord
          BY <4>1 DEF Word, AnyWord, AlignWidth
        <4>. QED
          BY <4>1, <4>2 DEF FieldOK
      <3>. QED
        BY <3>1, <3>2
    <2> HIDE DEF P
    <2>4. \A j \in 1..Len(c.fields) : FieldOK(c.fields[j])
      BY <2>2, <2>3
    <2>. QED
      BY <2>2, <2>4 DEF c, P
  <1> DEFINE T == {k \in Nat : k <= Len(contexts) => f[k] \in Encoders}
             Follows(i) == IsContext(f[i - 1], f[i])
  <1>8. ASSUME NEW i \in 1..Len(contexts), f[i - 1] \in Encoders
        PROVE  Follows(i) /\ f[i] \in Encoders
    <2>1. IsContext(f[i - 1], PutPeerContext(f[i - 1], contexts[i]))
      BY <1>7, <1>8, PeerContextPut
    <2>2. IsContext(f[i - 1], f[i])
      BY <1>5, <2>1
    <2>. QED
      BY <1>8, <2>2, ContextPut
  <1>9. Nat \subseteq T
    <2>1. 0 \in T
      <3>1. Len(contexts) \in Int
        BY <1>6
      <3>2. first \in Encoders
        BY <3>1, UlongKeeps DEF first
      <3>. QED
        BY <1>5, <3>2
    <2>2. ASSUME NEW k \in Nat, k \in T
          PROVE  k + 1 \in T
      <3>1. CASE k + 1 <= Len(contexts)
        <4>1. k + 1 \in 1..Len(contexts) /\ (k + 1) - 1 = k /\ f[k] \in Encoders
          BY <1>6, <2>2, <3>1
        <4>2. f[k + 1] \in Encoders
          BY <1>8, <4>1
        <4>. QED
          BY <4>2
      <3>. QED
        BY <3>1
    <2> HIDE DEF T
    <2>. QED
      BY <2>1, <2>2, ByNumber!Induct
  <1>10. \A i \in 1..Len(contexts) : IsContext(f[i - 1], f[i])
    <2>1. ASSUME NEW i \in 1..Len(contexts)
          PROVE  Follows(i)
      <3>1. i - 1 \in T /\ i - 1 <= Len(contexts)
        BY <1>6, <1>9
      <3>2. f[i - 1] \in Encoders
        BY <3>1
      <3>. QED
        BY <1>8, <3>2
    <2>. QED
      BY <2>1
  <1>11. IsList(f, e, Len(contexts))
    BY <1>5, <1>10 DEF IsList, first
  <1>. QED
    BY <1>4, <1>6, <1>11, Zenon DEF all, first
-----------------------------------------------------------------------------
(***************************************************************************)
(* The key of an object, which may be cut.                                 *)
(***************************************************************************)
LEMMA KeyTaken ==
    ASSUME NEW V, NEW r \in Readers(V), NEW e \in Encoders, r.offset = e.offset,
           r.little = e.little, NEW key \in Seq(Octet), NEW minor,
           NEW c, c = IF Early(minor) THEN PutBlob(e, key) ELSE PutBlob(PutUshort(e, KeyAddr), key),
           c.offset < UlongLimit, Matches(r, e.offset, c)
    PROVE  /\ c.offset <= Len(r.bytes) => ScanKey(r, minor) = Advanced(r, c.offset, key)
           /\ c.offset > Len(r.bytes) => Cut(r, ScanKey(r, minor), c.offset)
  <1>1. r.ok /\ r.offset \in Nat /\ e.offset \in Nat /\ Len(r.bytes) \in Nat
    <2>1. r.bytes \in Seq(Octet) /\ r.ok /\ r.offset \in Nat
      BY DEF Readers
    <2>2. Len(r.bytes) \in Nat
      BY <2>1
    <2>. QED
      BY <2>1, <2>2
  <1>2. CASE Early(minor)
    <2>1. c = PutBlob(e, key)
      BY <1>2
    <2>2. /\ c.offset <= Len(r.bytes) => GetField(r, "blob") = Advanced(r, c.offset, key)
          /\ c.offset > Len(r.bytes) => Cut(r, GetField(r, "blob"), c.offset)
      BY <2>1, BlobFieldTaken
    <2>3. ScanKey(r, minor) = GetField(r, "blob")
      BY <1>2, Zenon DEF ScanKey
    <2>. QED
      BY <2>2, <2>3
  <1>3. CASE ~Early(minor)
    <2> DEFINE u == PutUshort(e, KeyAddr)
               y == [r EXCEPT !.got = <<>>]
               z == GetField(y, "ushort")
               d == [z EXCEPT !.got = r.got]
    <2>1. KeyAddr \in UnsignedShort /\ KeyAddr \in Int
      BY SMTT(30) DEF KeyAddr, UnsignedShort
    <2>2. u \in Later(e) /\ u \in Encoders
      BY <2>1, UshortKeeps, LaterIsEncoder
    <2>3. c = PutBlob(u, key)
      BY <1>3
    <2>4. ScanKey(r, minor) = IF z.ok THEN IF z.got[1] = KeyAddr THEN GetBlob(d) ELSE Throw(d) ELSE z
      <3>1. GetFields(y, <<"ushort">>) = z
        BY OneFieldRead
      <3> HIDE DEF z
      <3>. QED
        BY <1>3, <3>1, Zenon DEF ScanKey, Scan, After
    <2>5. y \in Readers(V) /\ y.offset = r.offset /\ y.bytes = r.bytes /\ y.little = r.little
      <3>1. <<>> \in Seq(V)
        OBVIOUS
      <3>. QED
        BY <3>1 DEF Readers
    <2> HIDE DEF u
    <2>6. c \in Later(u) /\ c \in Encoders /\ u.offset \in Nat /\ c.offset \in Nat /\ u.offset <= c.offset
      <3>1. c \in Later(u) /\ c \in Encoders
        BY <2>2, <2>3, BlobKeeps, LaterIsEncoder
      <3>. QED
        BY <2>2, <3>1 DEF Later, Beyond, Encoders
    <2>7. Matches(y, e.offset, u) /\ Matches(r, u.offset, c)
      <3>1. Matches(r, e.offset, u)
        BY <1>1, <2>2, <2>6, MatchesEarlier
      <3>2. e.offset <= u.offset
        BY <2>2 DEF Later, Beyond
      <3>3. c \in Later(c)
        BY <2>6, NowIsLater
      <3>4. Matches(r, u.offset, c)
        BY <1>1, <2>6, <3>2, <3>3, MatchesEarlier
      <3>. QED
        BY <2>5, <3>1, <3>4 DEF Matches
    <2>8. /\ u.offset <= Len(r.bytes) => z = Advanced(y, u.offset, KeyAddr)
          /\ u.offset > Len(r.bytes) => ~z.ok
      <3> HIDE DEF y
      <3>1. y.offset = e.offset /\ y.little = e.little
        BY <2>5
      <3>. QED
        BY <2>1, <2>5, <2>7, <3>1, UshortFieldTaken DEF u
    <2>9. CASE u.offset > Len(r.bytes)
      <3>1. ~z.ok /\ ScanKey(r, minor) = z
        <4> HIDE DEF z
        <4>. QED
          BY <2>4, <2>8, <2>9
      <3>2. c.offset > Len(r.bytes)
        BY <1>1, <2>6, <2>9
      <3>. QED
        BY <1>1, <2>6, <3>1, <3>2 DEF Cut
    <2>10. CASE u.offset <= Len(r.bytes)
      <3>1. z = Advanced(y, u.offset, KeyAddr)
        BY <2>8, <2>10
      <3>2. z.ok /\ z.got = <<KeyAddr>> /\ d = [r EXCEPT !.offset = u.offset]
        <4>1. z.ok /\ z.got = Append(<<>>, KeyAddr)
          BY <1>1, <3>1 DEF Advanced, Readers
        <4>2. Append(<<>>, KeyAddr) = <<KeyAddr>>
          OBVIOUS
        <4>3. d = [r EXCEPT !.offset = u.offset]
          BY <3>1 DEF Advanced, Readers
        <4>. QED
          BY <4>1, <4>2, <4>3
      <3> HIDE DEF z
      <3>3. z.got[1] = KeyAddr
        BY <3>2
      <3>4. d \in Readers(V) /\ d.offset = u.offset /\ d.little = u.little /\ d.bytes = r.bytes /\ d.ok
        <4>1. u.little = e.little
          BY <2>2 DEF Later, Beyond
        <4> HIDE DEF d
        <4>. QED
          BY <2>6, <3>2, <4>1 DEF Readers
      <3>5. \A v : Advanced(d, c.offset, v) = Advanced(r, c.offset, v)
        BY <3>2 DEF Advanced, Readers
      <3> HIDE DEF d
      <3>6. ScanKey(r, minor) = GetField(d, "blob")
        BY <2>4, <3>2, <3>3, <3>4, GetFieldIs
      <3>7. Matches(d, u.offset, c)
        BY <2>7, <3>4 DEF Matches
      <3>8. /\ c.offset <= Len(d.bytes) => GetField(d, "blob") = Advanced(d, c.offset, key)
            /\ c.offset > Len(d.bytes) => Cut(d, GetField(d, "blob"), c.offset)
        BY <2>2, <2>3, <2>6, <3>4, <3>7, BlobFieldTaken
      <3>9. Cut(d, GetField(d, "blob"), c.offset) => Cut(r, GetField(d, "blob"), c.offset)
        BY <3>5 DEF Cut
      <3>. QED
        BY <3>4, <3>5, <3>6, <3>8, <3>9
    <2>. QED
      BY <1>1, <2>6, <2>9, <2>10
  <1>. QED
    BY <1>2, <1>3
-----------------------------------------------------------------------------
(***************************************************************************)
(* Reading one field after the other from a message that may be cut: up to *)
(* the end of the message everything is read as it was written.  Behind it *)
(* the decoder goes on only as long as it does not come to a number.       *)
(***************************************************************************)
Track(g, r, offset, got) ==
    /\ Alike(g, r)
    /\ offset <= Len(r.bytes) => g = MovedTo(r, offset, got)
    /\ offset > Len(r.bytes) /\ g.ok => \E s : IsSeq(s) /\ g = MovedTo(r, offset, s)

LEMMA TrackBegins ==
    ASSUME NEW V, NEW r \in Readers(V)
    PROVE  Track(r, r, r.offset, r.got) /\ IsSeq(r.got)
  <1>1. Alike(r, r) /\ IsSeq(r.got)
    <2>1. Alike(r, r)
      BY ReaderAlike
    <2>. QED
      BY <2>1, AlikeMoves, Zenon
  <1>2. r = MovedTo(r, r.offset, r.got)
    BY DEF MovedTo, Readers
  <1>. QED
    BY <1>1, <1>2, Zenon DEF Track

LEMMA MovedAdvances ==
    ASSUME NEW V, NEW r \in Readers(V), NEW offset \in Nat, NEW s, IsSeq(s), NEW p, NEW v
    PROVE  Advanced(MovedTo(r, offset, s), p, v) = MovedTo(r, p, Append(s, v))
  <1> DEFINE g == MovedTo(r, offset, s)
  <1>1. g.got = s
    BY ReaderMovedTo
  <1>2. MovedTo(g, p, Append(s, v)) = MovedTo(r, p, Append(s, v))
    BY ReaderMovedTo
  <1>3. Advanced(g, p, v) = MovedTo(g, p, Append(g.got, v))
    BY Zenon DEF Advanced, MovedTo
  <1> HIDE DEF g
  <1>. QED
    BY <1>1, <1>2, <1>3 DEF g

LEMMA Tracked ==
    ASSUME NEW V, NEW r \in Readers(V), NEW e \in Encoders, e.little = r.little, NEW f, FieldFits(f),
           NEW c, c = PutField(e, f), c.offset < UlongLimit, Matches(r, e.offset, c),
           NEW got, IsSeq(got), NEW g, Track(g, r, e.offset, got)
    PROVE  /\ Track(GetField(g, f.type), r, c.offset, Append(got, f.v))
           /\ ~Silent(f.type) /\ c.offset > Len(r.bytes) => ~GetField(g, f.type).ok
  <1> DEFINE h == GetField(g, f.type)
             size == Len(r.bytes)
  <1>1. c \in Later(e) /\ c \in Encoders
    BY FieldFitsIsOK, FieldKeeps, LaterIsEncoder
  <1>2. e.offset \in Nat /\ c.offset \in Nat /\ e.offset <= c.offset /\ size \in Nat
    <2>1. r.bytes \in Seq(Octet)
      BY DEF Readers
    <2>. QED
      BY <1>1, <2>1 DEF Later, Beyond, Encoders
  <1>3. Alike(h, r)
    <2>1. f.type \in Elementary
      BY DEF FieldFits, Elementary
    <2>. QED
      BY <2>1, FieldAlike DEF Track
  <1>4. ASSUME NEW s, IsSeq(s), g = MovedTo(r, e.offset, s)
        PROVE  /\ c.offset <= size => h = MovedTo(r, c.offset, Append(s, f.v))
               /\ c.offset > size /\ h.ok => \E t : IsSeq(t) /\ h = MovedTo(r, c.offset, t)
               /\ ~Silent(f.type) /\ c.offset > size => ~h.ok
    <2>1. PICK S : g \in Readers(S)
      BY <1>2, <1>4, ReaderMovedTo
    <2>2. g.offset = e.offset /\ g.little = e.little /\ g.bytes = r.bytes
      BY <1>2, <1>4, ReaderMovedTo
    <2>3. Matches(g, e.offset, c)
      BY <2>2 DEF Matches
    <2>4. /\ c.offset <= Len(g.bytes) => h = Advanced(g, c.offset, f.v)
          /\ c.offset > Len(g.bytes) =>
                 IF Silent(f.type) THEN Cut(g, h, c.offset) ELSE ~h.ok
      BY <2>1, <2>2, <2>3, FieldTaken
    <2>5. \A v : Advanced(g, c.offset, v) = MovedTo(r, c.offset, Append(s, v))
      BY <1>2, <1>4, MovedAdvances
    <2>6. \A v : IsSeq(Append(s, v))
      BY <1>4, SequencesStay
    <2> HIDE DEF h
    <2>7. Cut(g, h, c.offset) /\ h.ok => \E t : IsSeq(t) /\ h = MovedTo(r, c.offset, t)
      BY <2>5, <2>6, Zenon DEF Cut
    <2>. QED
      BY <2>2, <2>4, <2>5, <2>7
  <1>5. ~g.ok => h = g
    BY GetFieldIs
  <1> HIDE DEF h
  <1>6. CASE e.offset <= size
    <2>1. g = MovedTo(r, e.offset, got)
      BY <1>6 DEF Track
    <2>. QED
      BY <1>3, <1>4, <2>1 DEF Track, h
  <1>7. CASE e.offset > size
    <2>1. c.offset > size
      BY <1>2, <1>7
    <2>2. CASE g.ok
      <3>1. PICK s : IsSeq(s) /\ g = MovedTo(r, e.offset, s)
        BY <1>7, <2>2 DEF Track
      <3>2. /\ h.ok => \E t : IsSeq(t) /\ h = MovedTo(r, c.offset, t)
            /\ ~Silent(f.type) => ~h.ok
        BY <1>4, <2>1, <3>1
      <3>. QED
        BY <1>2, <1>3, <2>1, <3>2 DEF Track, h
    <2>3. CASE ~g.ok
      BY <1>2, <1>3, <1>5, <2>1, <2>3 DEF Track, h
    <2>. QED
      BY <2>2, <2>3
  <1>. QED
    BY <1>2, <1>6, <1>7

\* Octets are skipped; the encoder may not have reserved them.
LEMMA TrackedSkip ==
    ASSUME NEW V, NEW r \in Readers(V), NEW offset \in Nat, NEW got, IsSeq(got), NEW g,
           Track(g, r, offset, got)
    PROVE  Track(GetField(g, "skip3"), r, offset + 3, got)
  <1> DEFINE h == GetField(g, "skip3")
             size == Len(r.bytes)
  <1>1. size \in Nat
    <2>1. r.bytes \in Seq(Octet)
      BY DEF Readers
    <2>. QED
      BY <2>1
  <1>2. h = g \/ h = [g EXCEPT !.offset = @ + 3]
    BY GetFieldIs
  <1>3. Alike(h, r)
    BY <1>2, AlikeMoves DEF Track
  <1>4. ASSUME NEW s, IsSeq(s), g = MovedTo(r, offset, s)
        PROVE  h = MovedTo(r, offset + 3, s)
    <2>1. g.ok /\ g.offset = offset /\ g.got = s
      BY <1>4, ReaderMovedTo
    <2>2. h = [g EXCEPT !.offset = @ + 3]
      BY <2>1, GetFieldIs
    <2>3. h = [g EXCEPT !.offset = offset + 3]
      BY <2>1, <2>2
    <2>4. PICK S : g \in Readers(S)
      BY <1>4, ReaderMovedTo
    <2>5. [g EXCEPT !.offset = offset + 3] = MovedTo(g, offset + 3, s)
      BY <2>1, <2>4 DEF MovedTo, Readers
    <2>6. MovedTo(g, offset + 3, s) = MovedTo(r, offset + 3, s)
      BY <1>4, ReaderMovedTo
    <2>. QED
      BY <2>3, <2>5, <2>6, Zenon
  <1>5. ~g.ok => h = g
    BY GetFieldIs
  <1> HIDE DEF h
  <1>6. CASE offset <= size
    <2>1. h = MovedTo(r, offset + 3, got)
      BY <1>4, <1>6 DEF Track
    <2>. QED
      BY <1>3, <2>1 DEF Track, h
  <1>7. CASE offset > size
    <2>1. offset + 3 > size
      BY <1>1, <1>7
    <2>2. h.ok => g.ok
      BY <1>5
    <2>3. h.ok => \E s : IsSeq(s) /\ h = MovedTo(r, offset + 3, s)
      BY <1>4, <1>7, <2>2 DEF Track
    <2>. QED
      BY <1>1, <1>3, <2>1, <2>3 DEF Track, h
  <1>. QED
    BY <1>1, <1>6, <1>7

LEMMA KeyAlike ==
    ASSUME NEW x, NEW d, Alike(x, d), NEW minor
    PROVE  Alike(ScanKey(x, minor), d)
  <1>1. CASE Early(minor)
    <2>1. "blob" \in Elementary
      BY DEF Elementary
    <2>2. ScanKey(x, minor) = GetField(x, "blob")
      BY <1>1, Zenon DEF ScanKey
    <2>. QED
      BY <2>1, <2>2, FieldAlike
  <1>2. CASE ~Early(minor)
    <2> DEFINE z == GetFields([x EXCEPT !.got = <<>>], <<"ushort">>)
               c == [z EXCEPT !.got = x.got]
    <2>1. ScanKey(x, minor) = IF z.ok THEN IF z.got[1] = KeyAddr THEN GetBlob(c) ELSE Throw(c) ELSE z
      BY <1>2, Zenon DEF ScanKey, Scan, After
    <2>2. <<"ushort">> \in Seq(Elementary)
      BY DEF Elementary
    <2>3. Alike(z, d) /\ Alike(c, d)
      BY <2>2, ScanAlike
    <2> HIDE DEF z, c
    <2>4. Alike(GetBlob(c), d) /\ Alike(Throw(c), d)
      BY <2>3, TextAlike, AlikeMoves
    <2>. QED
      BY <2>1, <2>3, <2>4
  <1>. QED
    BY <1>1, <1>2

\* What the decoder returned last changes nothing of what it has thrown.
LEMMA AlikeKeeps ==
    ASSUME NEW x, NEW d, Alike(x, d), NEW s
    PROVE  /\ [x EXCEPT !.got = s].ok = x.ok
           /\ [x EXCEPT !.got = s].got = s
           /\ \A v : Return(x, v).ok = x.ok /\ Return(x, v).got = Append(x.got, v)
  <1>1. PICK o, l, k, g : x = DecoderAt(o, d.bytes, l, d.encapStack, k, g)
    BY DEF Alike
  <1>. QED
    BY <1>1 DEF DecoderAt, Return

LEMMA KeyStops ==
    ASSUME NEW x, NEW d, Alike(x, d), ~x.ok, NEW minor
    PROVE  ~ScanKey(x, minor).ok
  <1>1. CASE Early(minor)
    <2>1. ScanKey(x, minor) = GetField(x, "blob")
      BY <1>1, Zenon DEF ScanKey
    <2>. QED
      BY <2>1, GetFieldIs
  <1>2. CASE ~Early(minor)
    <2> DEFINE y == [x EXCEPT !.got = <<>>]
               z == GetFields(y, <<"ushort">>)
               c == [z EXCEPT !.got = x.got]
    <2>1. ScanKey(x, minor) = IF z.ok THEN IF z.got[1] = KeyAddr THEN GetBlob(c) ELSE Throw(c) ELSE z
      BY <1>2, Zenon DEF ScanKey, Scan, After
    <2>2. ~y.ok
      BY AlikeKeeps
    <2>3. z = GetField(y, "ushort")
      BY OneFieldRead
    <2>4. z = y
      BY <2>2, <2>3, GetFieldIs
    <2> HIDE DEF z, y
    <2>. QED
      BY <2>1, <2>2, <2>4
  <1>. QED
    BY <1>1, <1>2

PutKey(e, minor, key) ==
    IF Early(minor) THEN PutBlob(e, key) ELSE PutBlob(PutUshort(e, KeyAddr), key)

LEMMA KeyKeeps ==
    ASSUME NEW e \in Encoders, NEW minor, NEW key \in Seq(Octet)
    PROVE  PutKey(e, minor, key) \in Later(e) /\ PutKey(e, minor, key) \in Encoders
  <1>1. KeyAddr \in Int
    BY DEF KeyAddr
  <1>2. PutUshort(e, KeyAddr) \in Later(e)
    BY <1>1, UshortKeeps
  <1> DEFINE u == PutUshort(e, KeyAddr)
  <1> HIDE DEF u
  <1>3. u \in Later(e) /\ u \in Encoders
    BY <1>2, LaterIsEncoder DEF u
  <1>4. PutBlob(u, key) \in Later(u) /\ PutBlob(e, key) \in Later(e)
    BY <1>3, BlobKeeps
  <1>5. PutBlob(u, key) \in Later(e)
    BY <1>3, <1>4, LaterIsLater
  <1>6. PutKey(e, minor, key) \in Later(e)
    BY <1>4, <1>5 DEF PutKey, u
  <1>. QED
    BY <1>6, LaterIsEncoder

LEMMA KeyTracked ==
    ASSUME NEW V, NEW r \in Readers(V), NEW e \in Encoders, e.little = r.little,
           NEW key \in Seq(Octet), NEW minor,
           NEW c, c = PutKey(e, minor, key), c.offset < UlongLimit, Matches(r, e.offset, c),
           NEW got, IsSeq(got), NEW g, Track(g, r, e.offset, got)
    PROVE  Track(ScanKey(g, minor), r, c.offset, Append(got, key))
  <1> DEFINE h == ScanKey(g, minor)
             size == Len(r.bytes)
  <1>1. c \in Later(e) /\ c \in Encoders
    BY KeyKeeps
  <1>2. e.offset \in Nat /\ c.offset \in Nat /\ e.offset <= c.offset /\ size \in Nat
    <2>1. r.bytes \in Seq(Octet)
      BY DEF Readers
    <2>. QED
      BY <1>1, <2>1 DEF Later, Beyond, Encoders
  <1>3. Alike(h, r)
    BY KeyAlike DEF Track
  <1>4. ASSUME NEW s, IsSeq(s), g = MovedTo(r, e.offset, s)
        PROVE  /\ c.offset <= size => h = MovedTo(r, c.offset, Append(s, key))
               /\ c.offset > size /\ h.ok => \E t : IsSeq(t) /\ h = MovedTo(r, c.offset, t)
    <2>1. PICK S : g \in Readers(S)
      BY <1>2, <1>4, ReaderMovedTo
    <2>2. g.offset = e.offset /\ g.little = e.little /\ g.bytes = r.bytes
      BY <1>2, <1>4, ReaderMovedTo
    <2>3. Matches(g, e.offset, c)
      BY <2>2 DEF Matches
    <2>4. c = IF Early(minor) THEN PutBlob(e, key) ELSE PutBlob(PutUshort(e, KeyAddr), key)
      BY DEF PutKey
    <2>5. /\ c.offset <= Len(g.bytes) => h = Advanced(g, c.offset, key)
          /\ c.offset > Len(g.bytes) => Cut(g, h, c.offset)
      BY <2>1, <2>2, <2>3, <2>4, KeyTaken
    <2>6. \A v : Advanced(g, c.offset, v) = MovedTo(r, c.offset, Append(s, v))
      BY <1>2, <1>4, MovedAdvances
    <2>7. \A v : IsSeq(Append(s, v))
      BY <1>4, SequencesStay
    <2> HIDE DEF h
    <2>8. Cut(g, h, c.offset) /\ h.ok => \E t : IsSeq(t) /\ h = MovedTo(r, c.offset, t)
      BY <2>6, <2>7, Zenon DEF Cut
    <2>. QED
      BY <2>2, <2>5, <2>6, <2>8
  <1>5. ~g.ok => ~h.ok
    BY KeyStops DEF Track
  <1> HIDE DEF h
  <1>6. CASE e.offset <= size
    <2>1. g = MovedTo(r, e.offset, got)
      BY <1>6 DEF Track
    <2>. QED
      BY <1>3, <1>4, <2>1 DEF Track, h
  <1>7. CASE e.offset > size
    <2>1. c.offset > size
      BY <1>2, <1>7
    <2>2. h.ok => \E t : IsSeq(t) /\ h = MovedTo(r, c.offset, t)
      BY <1>4, <1>5, <1>7, <2>1 DEF Track
    <2>. QED
      BY <1>2, <1>3, <2>1, <2>2 DEF Track, h
  <1>. QED
    BY <1>2, <1>6, <1>7
-----------------------------------------------------------------------------
(***************************************************************************)
(* What names a request: its id, whether a reply is expected, the object   *)
(* and the operation.                                                      *)
(***************************************************************************)
LEMMA LaterOn ==
    ASSUME NEW e \in Encoders, NEW c \in Later(e)
    PROVE  /\ c \in Encoders /\ c.little = e.little
           /\ e.offset \in Nat /\ c.offset \in Nat /\ e.offset <= c.offset
  <1>1. c \in Encoders
    BY LaterIsEncoder
  <1>. QED
    BY <1>1 DEF Later, Beyond, Encoders

Skipped(e) == Roomy([e EXCEPT !.offset = @ + 3])

LEMMA SkippedKeeps ==
    ASSUME NEW e \in Encoders
    PROVE  LET s == [e EXCEPT !.offset = @ + 3]
           IN  /\ Skipped(e) \in Later(e) /\ Skipped(e) \in Encoders
               /\ Skipped(e).offset = e.offset + 3
               /\ \A octets \in Seq(Octet) : PutBlob(s, octets) = PutBlob(Skipped(e), octets)
               /\ \A n \in Int : PutUshort(s, n) = PutUshort(Skipped(e), n)
  <1> DEFINE s == [e EXCEPT !.offset = @ + 3]
             l == Skipped(e)
  <1>1. /\ e.offset \in Nat /\ e.bytes \in Seq(Octet) /\ e.offset <= Len(e.bytes)
        /\ Len(e.bytes) \in Nat
    BY DEF Encoders
  <1>2. /\ s \in Writers /\ s.offset = e.offset + 3 /\ s.bytes = e.bytes /\ s.little = e.little
        /\ s.sizeStack = e.sizeStack
    BY DEF Writers, Encoders
  <1>3. l = Roomy(s)
    BY DEF Skipped
  <1> HIDE DEF s, l
  <1>4. /\ l \in Encoders /\ l.offset = s.offset /\ l.little = s.little
        /\ l.sizeStack = s.sizeStack /\ Len(l.bytes) >= Len(s.bytes)
        /\ \A i \in 1..Len(s.bytes) : l.bytes[i] = s.bytes[i]
        /\ \A align \in AlignWidth : \A n \in Nat :
               ReserveVarying(s, align, n) = ReserveVarying(l, align, n)
    BY <1>2, <1>3, RoomIsMade
  <1>5. l \in Later(e)
    <2>1. \A i \in 1..e.offset : i \in 1..Len(e.bytes)
      BY <1>1
    <2>2. l.offset >= e.offset
      BY <1>1, <1>2, <1>4
    <2>. QED
      BY <1>2, <1>4, <2>1, <2>2 DEF Later, Beyond
  <1>6. ASSUME NEW octets \in Seq(Octet)
        PROVE  PutBlob(s, octets) = PutBlob(l, octets)
    <2>1. 4 \in AlignWidth /\ 4 + Len(octets) \in Nat
      BY DEF AlignWidth
    <2>2. ReserveVarying(s, 4, 4 + Len(octets)) = ReserveVarying(l, 4, 4 + Len(octets))
      BY <1>4, <2>1
    <2>. QED
      BY <2>2, Zenon DEF PutBlob
  <1>7. ASSUME NEW n \in Int
        PROVE  PutUshort(s, n) = PutUshort(l, n)
    <2> DEFINE p == Pattern(n, 2)
    <2>1. Len(p) = 2
      BY PatternIsWord
    <2> HIDE DEF p
    <2>2. 2 \in AlignWidth /\ 2 \in Nat
      BY DEF AlignWidth
    <2>3. ReserveVarying(s, 2, 2) = ReserveVarying(l, 2, 2)
      BY <1>4, <2>2
    <2>4. PutNumber(s, p) = PutNumber(l, p)
      BY <1>4, <2>1, <2>3, Zenon DEF PutNumber, Reserve
    <2>. QED
      BY <2>4 DEF PutUshort, p
  <1>8. l.offset = e.offset + 3
    BY <1>2, <1>4
  <1>9. /\ \A octets \in Seq(Octet) : PutBlob(s, octets) = PutBlob(l, octets)
        /\ \A n \in Int : PutUshort(s, n) = PutUshort(l, n)
    BY <1>6, <1>7
  <1>. QED
    BY <1>4, <1>5, <1>8, <1>9 DEF s, l

PutNames(e, id, flags, minor, key, method) ==
    PutString(PutKey(Skipped(PutOctet(PutUlong(e, id), flags)), minor, key), method)

EarlyFields(id, flags, key, method) ==
    <<Field("ulong", id), Field("octet", flags), Field("skip", 3), Field("blob", key),
      Field("string", method), Field("ulong", 0)>>

LateFields(id, flags, key, method) ==
    <<Field("ulong", id), Field("octet", flags), Field("skip", 3), Field("ushort", KeyAddr),
      Field("blob", key), Field("string", method)>>

LEMMA NamesAreFields ==
    ASSUME NEW e, NEW id, PutUlong(e, id) \in Encoders, NEW flags \in Octet, NEW minor,
           NEW key \in Seq(Octet), NEW method
    PROVE  LET c == PutNames(e, id, flags, minor, key, method)
           IN  /\ Early(minor) => PutFields(e, EarlyFields(id, flags, key, method)) = PutUlong(c, 0)
               /\ ~Early(minor) => PutFields(e, LateFields(id, flags, key, method)) = c
  <1> DEFINE u == PutUlong(e, id)
             o == PutOctet(u, flags)
             s == [o EXCEPT !.offset = @ + 3]
             l == Skipped(o)
  <1>1. /\ \A x, v : /\ PutField(x, Field("ulong", v)) = PutUlong(x, v)
                     /\ PutField(x, Field("octet", v)) = PutOctet(x, v)
                     /\ PutField(x, Field("ushort", v)) = PutUshort(x, v)
                     /\ PutField(x, Field("blob", v)) = PutBlob(x, v)
                     /\ PutField(x, Field("string", v)) = PutString(x, v)
        /\ \A x : PutField(x, Field("skip", 3)) = [x EXCEPT !.offset = @ + 3]
    BY PutFieldIs DEF Field
  <1>2. u \in Encoders
    OBVIOUS
  <1> HIDE DEF u
  <1>3. o \in Encoders
    BY <1>2, OctetKeeps, LaterIsEncoder
  <1> HIDE DEF o
  <1>4. KeyAddr \in Int
    BY DEF KeyAddr
  <1>5. PutBlob(s, key) = PutBlob(l, key) /\ PutUshort(s, KeyAddr) = PutUshort(l, KeyAddr)
    BY <1>3, <1>4, SkippedKeeps
  <1>6. PutNames(e, id, flags, minor, key, method) = PutString(PutKey(l, minor, key), method)
    BY DEF PutNames, u, o
  <1>7. /\ PutField(e, Field("ulong", id)) = u
        /\ PutField(u, Field("octet", flags)) = o
        /\ PutField(o, Field("skip", 3)) = s
    BY <1>1 DEF u, o
  <1> HIDE DEF s, l
  <1>8. ASSUME Early(minor)
        PROVE  PutFields(e, <<Field("ulong", id), Field("octet", flags), Field("skip", 3),
                              Field("blob", key), Field("string", method), Field("ulong", 0)>>)
                   = PutUlong(PutNames(e, id, flags, minor, key, method), 0)
    <2>1. PutKey(l, minor, key) = PutBlob(s, key)
      BY <1>5, <1>8 DEF PutKey
    <2>2. PutFields(e, <<Field("ulong", id), Field("octet", flags), Field("skip", 3),
                         Field("blob", key), Field("string", method), Field("ulong", 0)>>)
              = PutUlong(PutString(PutBlob(s, key), method), 0)
      BY <1>1, <1>7, SixFieldsPut
    <2>. QED
      BY <1>6, <2>1, <2>2
  <1>9. ASSUME ~Early(minor)
        PROVE  PutFields(e, <<Field("ulong", id), Field("octet", flags), Field("skip", 3),
                              Field("ushort", KeyAddr), Field("blob", key), Field("string", method)>>)
                   = PutNames(e, id, flags, minor, key, method)
    <2>1. PutKey(l, minor, key) = PutBlob(PutUshort(s, KeyAddr), key)
      BY <1>5, <1>9 DEF PutKey
    <2>2. PutFields(e, <<Field("ulong", id), Field("octet", flags), Field("skip", 3),
                         Field("ushort", KeyAddr), Field("blob", key), Field("string", method)>>)
              = PutString(PutBlob(PutUshort(s, KeyAddr), key), method)
      BY <1>1, <1>7, SixFieldsPut
    <2>. QED
      BY <1>6, <2>1, <2>2
  <1>. QED
    BY <1>8, <1>9 DEF EarlyFields, LateFields

LEMMA NamesKeep ==
    ASSUME NEW e \in Encoders, NEW id \in Int, NEW flags \in Octet, NEW minor,
           NEW key \in Seq(Octet), NEW method \in Seq(Octet)
    PROVE  LET u == PutUlong(e, id)
               o == PutOctet(u, flags)
               s == Skipped(o)
               k == PutKey(s, minor, key)
               c == PutString(k, method)
           IN  /\ c = PutNames(e, id, flags, minor, key, method)
               /\ u \in Later(e) /\ o \in Later(u) /\ s \in Later(o) /\ k \in Later(s) /\ c \in Later(k)
               /\ u \in Encoders /\ o \in Encoders /\ s \in Encoders /\ k \in Encoders /\ c \in Encoders
               /\ c \in Later(u) /\ c \in Later(o) /\ c \in Later(s) /\ c \in Later(e)
  <1> DEFINE u == PutUlong(e, id)
             o == PutOctet(u, flags)
             s == Skipped(o)
             k == PutKey(s, minor, key)
             c == PutString(k, method)
  <1>1. c = PutNames(e, id, flags, minor, key, method)
    BY DEF PutNames
  <1>2. u \in Later(e) /\ u \in Encoders
    BY UlongKeeps
  <1> HIDE DEF u
  <1>3. o \in Later(u) /\ o \in Encoders
    BY <1>2, OctetKeeps, LaterIsEncoder
  <1> HIDE DEF o
  <1>4. s \in Later(o) /\ s \in Encoders
    BY <1>3, SkippedKeeps
  <1> HIDE DEF s
  <1>5. k \in Later(s) /\ k \in Encoders
    BY <1>4, KeyKeeps
  <1> HIDE DEF k
  <1>6. c \in Later(k) /\ c \in Encoders
    BY <1>5, StringKeeps, LaterIsEncoder
  <1> HIDE DEF c
  <1>7. c \in Later(s)
    BY <1>4, <1>5, <1>6, LaterIsLater
  <1>8. c \in Later(o)
    BY <1>3, <1>4, <1>7, LaterIsLater
  <1>9. c \in Later(u)
    BY <1>2, <1>3, <1>8, LaterIsLater
  <1>10. c \in Later(e)
    BY <1>2, <1>9, LaterIsLater
  <1>. QED
    BY <1>1, <1>2, <1>3, <1>4, <1>5, <1>6, <1>7, <1>8, <1>9, <1>10 DEF u, o, s, k, c

LEMMA NamesAreLater ==
    ASSUME NEW e \in Encoders, NEW id \in Int, NEW flags \in Octet, NEW minor,
           NEW key \in Seq(Octet), NEW method \in Seq(Octet)
    PROVE  PutNames(e, id, flags, minor, key, method) \in Later(e)
  <1> DEFINE u == PutUlong(e, id)
             o == PutOctet(u, flags)
             s == Skipped(o)
             k == PutKey(s, minor, key)
             c == PutString(k, method)
  <1>1. c \in Later(e)
    BY NamesKeep
  <1>2. c = PutNames(e, id, flags, minor, key, method)
    BY Zenon DEF PutNames
  <1>. QED
    BY <1>1, <1>2, Zenon

LEMMA MatchesBetween ==
    ASSUME NEW V, NEW r \in Readers(V), NEW e \in Encoders, NEW m \in Later(e), NEW n \in Later(m),
           NEW c \in Later(n), Matches(r, e.offset, c)
    PROVE  Matches(r, m.offset, n)
  <1>1. m \in Encoders /\ m.offset \in Nat /\ e.offset \in Nat /\ m.offset >= e.offset
    BY LaterOn
  <1>2. n \in Encoders
    BY <1>1, LaterIsEncoder
  <1>. QED
    BY <1>1, <1>2, MatchesEarlier

LEMMA NamesTracked ==
    ASSUME NEW V, NEW r \in Readers(V), NEW e \in Encoders, e.little = r.little,
           NEW id \in Nat, id < UlongLimit, NEW flags \in Octet, NEW minor,
           NEW key \in Seq(Octet), NEW method \in Seq(Octet),
           NEW c, c = PutNames(e, id, flags, minor, key, method), c.offset < UlongLimit,
           Matches(r, e.offset, c),
           NEW got, IsSeq(got), NEW g, Track(g, r, e.offset, got)
    PROVE  Track(GetField(ScanKey(GetFields(g, <<"ulong", "octet", "skip3">>), minor), "string"),
                 r, c.offset, Append(Append(Append(Append(got, id), flags), key), method))
  <1> DEFINE u == PutUlong(e, id)
             o == PutOctet(u, flags)
             s == Skipped(o)
             k == PutKey(s, minor, key)
             g1 == GetField(g, "ulong")
             g2 == GetField(g1, "octet")
             g3 == GetField(g2, "skip3")
             g4 == ScanKey(g3, minor)
             g5 == GetField(g4, "string")
             got1 == Append(got, id)
             got2 == Append(got1, flags)
             got4 == Append(got2, key)
             got5 == Append(got4, method)
  <1>1. id \in Int
    OBVIOUS
  <1>2. /\ c = PutString(k, method)
        /\ u \in Later(e) /\ o \in Later(u) /\ s \in Later(o) /\ k \in Later(s) /\ c \in Later(k)
        /\ u \in Encoders /\ o \in Encoders /\ s \in Encoders /\ k \in Encoders /\ c \in Encoders
        /\ c \in Later(u) /\ c \in Later(o) /\ c \in Later(s) /\ c \in Later(e)
    BY <1>1, NamesKeep
  <1>3. GetField(ScanKey(GetFields(g, <<"ulong", "octet", "skip3">>), minor), "string") = g5
    BY ThreeFieldsRead
  <1>4. s.offset = o.offset + 3
    BY <1>2, SkippedKeeps
  <1>5. /\ u = PutField(e, Field("ulong", id)) /\ FieldFits(Field("ulong", id))
        /\ o = PutField(u, Field("octet", flags)) /\ FieldFits(Field("octet", flags))
        /\ c = PutField(k, Field("string", method)) /\ FieldFits(Field("string", method))
    <2>1. \A x, v : /\ PutField(x, Field("ulong", v)) = PutUlong(x, v)
                    /\ PutField(x, Field("octet", v)) = PutOctet(x, v)
                    /\ PutField(x, Field("string", v)) = PutString(x, v)
      BY PutFieldIs DEF Field
    <2>2. FieldFits(Field("ulong", id)) /\ FieldFits(Field("octet", flags))
          /\ FieldFits(Field("string", method))
      BY DEF FieldFits, Field
    <2>. QED
      BY <1>2, <2>1, <2>2
  <1>6. k = PutKey(s, minor, key)
    OBVIOUS
  <1>7. /\ Field("ulong", id).type = "ulong" /\ Field("ulong", id).v = id
        /\ Field("octet", flags).type = "octet" /\ Field("octet", flags).v = flags
        /\ Field("string", method).type = "string" /\ Field("string", method).v = method
    BY DEF Field
  <1> HIDE DEF u, o, s, k
  <1>8. /\ u.little = r.little /\ o.little = r.little /\ s.little = r.little /\ k.little = r.little
        /\ e.offset \in Nat /\ u.offset \in Nat /\ o.offset \in Nat /\ s.offset \in Nat
        /\ k.offset \in Nat /\ c.offset \in Nat
        /\ u.offset <= c.offset /\ o.offset <= c.offset /\ s.offset <= c.offset
        /\ k.offset <= c.offset
    <2>1. /\ u.little = e.little /\ o.little = u.little /\ s.little = o.little
          /\ k.little = s.little
      BY <1>2, LaterOn
    <2>2. /\ e.offset \in Nat /\ u.offset \in Nat /\ o.offset \in Nat /\ s.offset \in Nat
          /\ k.offset \in Nat /\ c.offset \in Nat
          /\ u.offset <= c.offset /\ o.offset <= c.offset /\ s.offset <= c.offset
          /\ k.offset <= c.offset
      BY <1>2, LaterOn
    <2>. QED
      BY <2>1, <2>2
  <1>9. /\ u.offset < UlongLimit /\ o.offset < UlongLimit /\ k.offset < UlongLimit
    BY <1>8, SMTT(30) DEF UlongLimit
  <1>10. /\ Matches(r, e.offset, u) /\ Matches(r, u.offset, o) /\ Matches(r, s.offset, k)
         /\ Matches(r, k.offset, c)
    <2>1. e \in Later(e) /\ c \in Later(c)
      BY <1>2, NowIsLater
    <2>2. u \in Later(e) /\ k \in Later(e)
      <3>1. o \in Later(e)
        BY <1>2, LaterIsLater
      <3>2. s \in Later(e)
        BY <1>2, <3>1, LaterIsLater
      <3>. QED
        BY <1>2, <3>2, LaterIsLater
    <2>3. o \in Later(e) /\ s \in Later(e)
      <3>1. o \in Later(e)
        BY <1>2, LaterIsLater
      <3>. QED
        BY <1>2, <3>1, LaterIsLater
    <2>4. Matches(r, e.offset, u)
      BY <1>2, <2>1, MatchesBetween
    <2>5. Matches(r, u.offset, o)
      BY <1>2, MatchesBetween
    <2>6. Matches(r, s.offset, k)
      BY <1>2, <2>3, MatchesBetween
    <2>7. Matches(r, k.offset, c)
      BY <1>2, <2>1, <2>2, MatchesBetween
    <2>. QED
      BY <2>4, <2>5, <2>6, <2>7
  <1>11. IsSeq(got1) /\ IsSeq(got2) /\ IsSeq(got4)
    <2>1. IsSeq(got1)
      BY SequencesStay
    <2> HIDE DEF got1
    <2>2. IsSeq(got2)
      BY <2>1, SequencesStay
    <2> HIDE DEF got2
    <2>. QED
      BY <2>1, <2>2, SequencesStay
  <1>12. Track(g1, r, u.offset, got1)
    <2> DEFINE f == Field("ulong", id)
    <2>1. FieldFits(f) /\ u = PutField(e, f) /\ f.type = "ulong" /\ f.v = id
      BY <1>5, <1>7
    <2> HIDE DEF f, g1, got1
    <2>2. Track(GetField(g, f.type), r, u.offset, Append(got, f.v))
      BY <1>9, <1>10, <2>1, Tracked
    <2>. QED
      BY <2>1, <2>2 DEF g1, got1
  <1> HIDE DEF g1, got1
  <1>13. Track(g2, r, o.offset, got2)
    <2> DEFINE f == Field("octet", flags)
    <2>1. FieldFits(f) /\ o = PutField(u, f) /\ f.type = "octet" /\ f.v = flags
      BY <1>5, <1>7
    <2> HIDE DEF f, g2, got2
    <2>2. Track(GetField(g1, f.type), r, o.offset, Append(got1, f.v))
      BY <1>2, <1>8, <1>9, <1>10, <1>11, <1>12, <2>1, Tracked
    <2>. QED
      BY <2>1, <2>2 DEF g2, got2
  <1> HIDE DEF g2, got2
  <1>14. Track(g3, r, s.offset, got2)
    BY <1>4, <1>8, <1>11, <1>13, TrackedSkip
  <1> HIDE DEF g3
  <1>15. Track(g4, r, k.offset, got4)
    BY <1>2, <1>6, <1>8, <1>9, <1>10, <1>11, <1>14, KeyTracked
  <1> HIDE DEF g4, got4
  <1>16. Track(g5, r, c.offset, got5)
    <2> DEFINE f == Field("string", method)
    <2>1. FieldFits(f) /\ c = PutField(k, f) /\ f.type = "string" /\ f.v = method
      BY <1>5, <1>7
    <2> HIDE DEF f, g5, got5
    <2>2. Track(GetField(g4, f.type), r, c.offset, Append(got4, f.v))
      BY <1>2, <1>8, <1>10, <1>11, <1>15, <2>1, Tracked
    <2>. QED
      BY <2>1, <2>2 DEF g5, got5
  <1>. QED
    BY <1>3, <1>16 DEF got1, got2, got4, got5
-----------------------------------------------------------------------------
(***************************************************************************)
(* The headers of requests: what is scanned of a header, however much of   *)
(* the message has arrived, is what was put, or the scan throws.           *)
(***************************************************************************)
Naming(h, id, flags, key, method, minor) ==
    /\ h.id = id
    /\ h.expected = ResponseExpected(flags, minor)
    /\ h.key = key
    /\ h.method = method

LEMMA Longer ==
    ASSUME NEW S, NEW s \in Seq(S), NEW v \in S, NEW w, w = Append(s, v)
    PROVE  /\ w \in Seq(S) /\ Len(w) = Len(s) + 1 /\ w[Len(s) + 1] = v
           /\ \A i \in 1..Len(s) : w[i] = s[i]
  OBVIOUS

LEMMA SameSequence ==
    ASSUME NEW S, NEW s \in Seq(S), NEW t \in Seq(S), Len(s) = Len(t),
           \A i \in 1..Len(s) : s[i] = t[i]
    PROVE  s = t
  OBVIOUS

LEMMA AppendedFour ==
    ASSUME NEW a, NEW b, NEW c, NEW d
    PROVE  Append(Append(Append(Append(<<>>, a), b), c), d) = <<a, b, c, d>>
  <1> DEFINE S == {a, b, c, d}
  <1>1. a \in S /\ b \in S /\ c \in S /\ d \in S
    OBVIOUS
  <1> HIDE DEF S
  <1>2. Append(<<>>, a) = <<a>>
    OBVIOUS
  <1>3. Append(<<a>>, b) = <<a, b>>
    <2> DEFINE s == <<a>>
               t == <<a, b>>
               w == Append(s, b)
    <2>1. s \in Seq(S) /\ Len(s) = 1 /\ s[1] = a
      BY <1>1
    <2>2. t \in Seq(S) /\ Len(t) = 2 /\ t[1] = a /\ t[2] = b
      BY <1>1
    <2> HIDE DEF s, t
    <2>3. /\ w \in Seq(S) /\ Len(w) = Len(s) + 1 /\ w[Len(s) + 1] = b
          /\ \A i \in 1..Len(s) : w[i] = s[i]
      <3>1. w = Append(s, b)
        OBVIOUS
      <3> HIDE DEF w
      <3>. QED
        BY <1>1, <2>1, <3>1, Longer
    <2> HIDE DEF w
    <2>4. Len(w) = 2 /\ w[1] = a /\ w[2] = b
      BY <2>1, <2>3
    <2>5. w = t
      BY <2>2, <2>3, <2>4, SameSequence
    <2>. QED
      BY <2>5 DEF s, t, w
  <1>4. Append(<<a, b>>, c) = <<a, b, c>>
    <2> DEFINE s == <<a, b>>
               t == <<a, b, c>>
               w == Append(s, c)
    <2>1. s \in Seq(S) /\ Len(s) = 2 /\ s[1] = a /\ s[2] = b
      BY <1>1
    <2>2. t \in Seq(S) /\ Len(t) = 3 /\ t[1] = a /\ t[2] = b /\ t[3] = c
      BY <1>1
    <2> HIDE DEF s, t
    <2>3. /\ w \in Seq(S) /\ Len(w) = Len(s) + 1 /\ w[Len(s) + 1] = c
          /\ \A i \in 1..Len(s) : w[i] = s[i]
      <3>1. w = Append(s, c)
        OBVIOUS
      <3> HIDE DEF w
      <3>. QED
        BY <1>1, <2>1, <3>1, Longer
    <2> HIDE DEF w
    <2>4. Len(w) = 3 /\ w[1] = a /\ w[2] = b /\ w[3] = c
      BY <2>1, <2>3
    <2>5. w = t
      BY <2>2, <2>3, <2>4, SameSequence
    <2>. QED
      BY <2>5 DEF s, t, w
  <1>5. Append(<<a, b, c>>, d) = <<a, b, c, d>>
    <2> DEFINE s == <<a, b, c>>
               t == <<a, b, c, d>>
               w == Append(s, d)
    <2>1. s \in Seq(S) /\ Len(s) = 3 /\ s[1] = a /\ s[2] = b /\ s[3] = c
      BY <1>1
    <2>2. t \in Seq(S) /\ Len(t) = 4 /\ t[1] = a /\ t[2] = b /\ t[3] = c /\ t[4] = d
      BY <1>1
    <2> HIDE DEF s, t
    <2>3. /\ w \in Seq(S) /\ Len(w) = Len(s) + 1 /\ w[Len(s) + 1] = d
          /\ \A i \in 1..Len(s) : w[i] = s[i]
      <3>1. w = Append(s, d)
        OBVIOUS
      <3> HIDE DEF w
      <3>. QED
        BY <1>1, <2>1, <3>1, Longer
    <2> HIDE DEF w
    <2>4. Len(w) = 4 /\ w[1] = a /\ w[2] = b /\ w[3] = c /\ w[4] = d
      BY <2>1, <2>3
    <2>5. w = t
      BY <2>2, <2>3, <2>4, SameSequence
    <2>. QED
      BY <2>5 DEF s, t, w
  <1>. QED
    BY <1>2, <1>3, <1>4, <1>5, Zenon

LEMMA AppendedFive ==
    ASSUME NEW x, NEW a, NEW b, NEW c, NEW d, NEW e
    PROVE  LET s == Append(Append(Append(Append(Append(Append(<<>>, x), a), b), c), d), e)
           IN  Head(s) = x /\ Tail(s) = <<a, b, c, d, e>>
  <1> DEFINE S == {x, a, b, c, d, e}
  <1>1. x \in S /\ a \in S /\ b \in S /\ c \in S /\ d \in S /\ e \in S
    OBVIOUS
  <1> HIDE DEF S
  <1>2. Append(Append(Append(Append(<<>>, x), a), b), c) = <<x, a, b, c>>
    BY AppendedFour
  <1>3. Append(<<x, a, b, c>>, d) = <<x, a, b, c, d>>
    <2> DEFINE s == <<x, a, b, c>>
               t == <<x, a, b, c, d>>
               w == Append(s, d)
    <2>1. s \in Seq(S) /\ Len(s) = 4 /\ s[1] = x /\ s[2] = a /\ s[3] = b /\ s[4] = c
      BY <1>1
    <2>2. t \in Seq(S) /\ Len(t) = 5 /\ t[1] = x /\ t[2] = a /\ t[3] = b /\ t[4] = c /\ t[5] = d
      BY <1>1
    <2> HIDE DEF s, t
    <2>3. /\ w \in Seq(S) /\ Len(w) = Len(s) + 1 /\ w[Len(s) + 1] = d
          /\ \A i \in 1..Len(s) : w[i] = s[i]
      <3>1. w = Append(s, d)
        OBVIOUS
      <3> HIDE DEF w
      <3>. QED
        BY <1>1, <2>1, <3>1, Longer
    <2> HIDE DEF w
    <2>4. Len(w) = 5 /\ w[1] = x /\ w[2] = a /\ w[3] = b /\ w[4] = c /\ w[5] = d
      BY <2>1, <2>3
    <2>5. w = t
      BY <2>2, <2>3, <2>4, SameSequence
    <2>. QED
      BY <2>5 DEF s, t, w
  <1>4. Append(<<x, a, b, c, d>>, e) = <<x, a, b, c, d, e>>
    <2> DEFINE s == <<x, a, b, c, d>>
               t == <<x, a, b, c, d, e>>
               w == Append(s, e)
    <2>1. s \in Seq(S) /\ Len(s) = 5 /\ s[1] = x /\ s[2] = a /\ s[3] = b /\ s[4] = c /\ s[5] = d
      BY <1>1
    <2>2. t \in Seq(S) /\ Len(t) = 6 /\ t[1] = x /\ t[2] = a /\ t[3] = b /\ t[4] = c /\ t[5] = d /\ t[6] = e
      BY <1>1
    <2> HIDE DEF s, t
    <2>3. /\ w \in Seq(S) /\ Len(w) = Len(s) + 1 /\ w[Len(s) + 1] = e
          /\ \A i \in 1..Len(s) : w[i] = s[i]
      <3>1. w = Append(s, e)
        OBVIOUS
      <3> HIDE DEF w
      <3>. QED
        BY <1>1, <2>1, <3>1, Longer
    <2> HIDE DEF w
    <2>4. Len(w) = 6 /\ w[1] = x /\ w[2] = a /\ w[3] = b /\ w[4] = c /\ w[5] = d /\ w[6] = e
      BY <2>1, <2>3
    <2>5. w = t
      BY <2>2, <2>3, <2>4, SameSequence, SMTT(30)
    <2>. QED
      BY <2>5 DEF s, t, w
  <1>5. Head(<<x, a, b, c, d, e>>) = x
    BY <1>1
  <1>6. Tail(<<x, a, b, c, d, e>>) = <<a, b, c, d, e>>
    BY <1>1
  <1>. QED
    BY <1>2, <1>3, <1>4, <1>5, <1>6, Zenon

LEMMA HeaderNames ==
    ASSUME NEW v, NEW id, NEW flags, NEW key, NEW method, v[1] = id, v[2] = flags, v[3] = key,
           v[4] = method, NEW contexts, NEW minor
    PROVE  Naming(TheRequestHeader(v, contexts, minor), id, flags, key, method, minor)
  BY DEF Naming, TheRequestHeader

LEMMA Afresh ==
    ASSUME NEW V, NEW r \in Readers(V)
    PROVE  LET y == [r EXCEPT !.got = <<>>]
           IN  /\ y \in Readers(V) /\ y.offset = r.offset /\ y.bytes = r.bytes /\ y.little = r.little
               /\ y.ok /\ y.got = <<>> /\ y.encapStack = r.encapStack
               /\ \A p, s : MovedTo(y, p, s) = MovedTo(r, p, s)
               /\ \A p, v : Advanced(y, p, v) = MovedTo(r, p, Append(<<>>, v))
  <1> DEFINE y == [r EXCEPT !.got = <<>>]
  <1>1. <<>> \in Seq(V)
    OBVIOUS
  <1>2. y \in Readers(V)
    BY <1>1 DEF Readers
  <1>3. /\ y.offset = r.offset /\ y.bytes = r.bytes /\ y.little = r.little
        /\ y.ok /\ y.got = <<>> /\ y.encapStack = r.encapStack
    BY DEF Readers
  <1>4. ASSUME NEW p, NEW s
        PROVE  MovedTo(y, p, s) = MovedTo(r, p, s)
    BY DEF MovedTo, Readers
  <1>5. ASSUME NEW p, NEW v
        PROVE  Advanced(y, p, v) = MovedTo(r, p, Append(<<>>, v))
    <2>1. Advanced(y, p, v) = MovedTo(y, p, Append(y.got, v))
      BY Zenon DEF Advanced, MovedTo
    <2>. QED
      BY <1>3, <1>4, <2>1
  <1>. QED
    BY <1>2, <1>3, <1>4, <1>5

\* What is returned with what had been returned before.
LEMMA ReturnMoved ==
    ASSUME NEW r, NEW p, NEW s, NEW got, NEW h
    PROVE  Return([MovedTo(r, p, s) EXCEPT !.got = got], h) = MovedTo(r, p, Append(got, h))
  BY DEF Return, MovedTo

LEMMA EarlyHeaderTaken ==
    ASSUME NEW V, NEW r \in Readers(V), NEW e \in Encoders, r.offset = e.offset,
           r.little = e.little, NEW m \in Nat, NEW f, IsList(f, e, m), NEW l, l = f[m],
           NEW id \in Nat, id < UlongLimit, NEW flags \in Octet, NEW minor, Early(minor),
           NEW key \in Seq(Octet), NEW method \in Seq(Octet),
           NEW c, c = PutUlong(PutNames(l, id, flags, minor, key, method), 0),
           c.offset < UlongLimit, Matches(r, e.offset, c), ScanRequestHeader(r, minor).ok
    PROVE  \E h : /\ Naming(h, id, flags, key, method, minor)
                  /\ ScanRequestHeader(r, minor) = MovedTo(r, c.offset, Append(r.got, h))
  <1> DEFINE y == [r EXCEPT !.got = <<>>]
             g0 == GetServiceContext(y)
             g3 == GetFields(g0, <<"ulong", "octet", "skip3">>)
             g5 == GetField(ScanKey(g3, minor), "string")
             g6 == GetField(g5, "ulong")
             n == PutNames(l, id, flags, minor, key, method)
             header == TheRequestHeader(Tail(g6.got), Head(g6.got), minor)
  <1>1. ScanRequestHeader(r, minor)
            = IF g6.ok THEN Return([g6 EXCEPT !.got = r.got], header) ELSE g6
    BY Zenon DEF ScanRequestHeader, After
  <1>2. /\ y \in Readers(V) /\ y.offset = r.offset /\ y.bytes = r.bytes /\ y.little = r.little
        /\ \A p, s : MovedTo(y, p, s) = MovedTo(r, p, s)
        /\ \A p, v : Advanced(y, p, v) = MovedTo(r, p, Append(<<>>, v))
    BY Afresh
  <1>3. /\ l \in Encoders /\ l \in Later(e) /\ m \in 0..m
    <2>1. m \in 0..m
      OBVIOUS
    <2>. QED
      BY <2>1, ListPut
  <1>4. id \in Int /\ 0 \in Nat /\ 0 \in Int
    OBVIOUS
  <1>5. n \in Later(l) /\ n \in Encoders
    BY <1>3, <1>4, NamesAreLater, LaterIsEncoder
  <1>6. c = PutUlong(n, 0)
    OBVIOUS
  <1> HIDE DEF n
  <1>7. c \in Later(n) /\ c \in Encoders
    <2>1. c = PutUlong(n, 0)
      BY <1>6
    <2>2. PutUlong(n, 0) \in Later(n) /\ PutUlong(n, 0) \in Encoders
      BY <1>4, <1>5, UlongKeeps
    <2>. QED
      BY <2>1, <2>2
  <1>8. c \in Later(l) /\ n \in Later(e) /\ c \in Later(e)
    <2>1. c \in Later(l)
      BY <1>3, <1>5, <1>7, LaterIsLater
    <2>2. n \in Later(e)
      BY <1>3, <1>5, LaterIsLater
    <2>. QED
      BY <1>3, <2>1, <2>2, LaterIsLater
  <1>9. /\ l.little = r.little /\ n.little = r.little
        /\ e.offset \in Nat /\ l.offset \in Nat /\ n.offset \in Nat /\ c.offset \in Nat
        /\ l.offset <= c.offset /\ n.offset <= c.offset
    <2>1. l.little = e.little /\ n.little = l.little /\ e.offset \in Nat /\ l.offset \in Nat
      BY <1>3, <1>5, LaterOn
    <2>2. n.offset \in Nat /\ c.offset \in Nat /\ n.offset <= c.offset
      BY <1>5, <1>7, LaterOn
    <2>3. l.offset <= c.offset
      BY <1>3, <1>8, LaterOn
    <2>. QED
      BY <2>1, <2>2, <2>3
  <1>10. l.offset < UlongLimit /\ n.offset < UlongLimit /\ 0 < UlongLimit
    BY <1>9, SMTT(30) DEF UlongLimit
  <1>11. g6.ok
    BY <1>1, Zenon
  <1>12. g0.ok
    <2>1. ~g0.ok => g3 = g0
      <3> HIDE DEF g0
      <3>1. g3 = GetField(GetField(GetField(g0, "ulong"), "octet"), "skip3")
        BY ThreeFieldsRead
      <3>2. ~g0.ok => GetField(g0, "ulong") = g0 /\ GetField(g0, "octet") = g0 /\ GetField(g0, "skip3") = g0
        BY GetFieldIs
      <3>. QED
        BY <3>1, <3>2
    <2> HIDE DEF g3
    <2>2. ~g3.ok => ScanKey(g3, minor) = g3
      <3>1. ScanKey(g3, minor) = GetField(g3, "blob")
        BY Zenon DEF ScanKey
      <3>. QED
        BY <3>1, GetFieldIs
    <2>3. ~ScanKey(g3, minor).ok => g5 = ScanKey(g3, minor)
      BY GetFieldIs
    <2> HIDE DEF g5, g0
    <2>4. ~g5.ok => g6 = g5
      BY GetFieldIs
    <2> HIDE DEF g6
    <2>. QED
      BY <1>11, <2>1, <2>2, <2>3, <2>4
  <1>13. Matches(y, e.offset, l) /\ Matches(y, l.offset, n) /\ Matches(y, n.offset, c)
    <2>1. e \in Later(e) /\ c \in Later(c)
      BY <1>7, NowIsLater
    <2>2. Matches(r, e.offset, l)
      BY <1>3, <1>8, <2>1, MatchesBetween
    <2>3. Matches(r, l.offset, n)
      BY <1>3, <1>5, <1>7, MatchesBetween
    <2>4. Matches(r, n.offset, c)
      BY <1>7, <1>8, <2>1, MatchesBetween
    <2> HIDE DEF y
    <2>. QED
      BY <1>2, <2>2, <2>3, <2>4 DEF Matches
  <1>14. PICK x : g0 = Advanced(y, l.offset, x)
    <2> HIDE DEF y
    <2>1. GetServiceContext(y).ok
      BY <1>12
    <2>2. \E x : GetServiceContext(y) = Advanced(y, l.offset, x)
      BY <1>2, <1>10, <1>13, <2>1, ContextsTaken
    <2>. QED
      BY <2>2
  <1> DEFINE s0 == Append(<<>>, x)
  <1>15. g0 = MovedTo(r, l.offset, s0) /\ IsSeq(s0)
    <2>1. IsSeq(s0)
      BY SequencesStay
    <2> HIDE DEF y
    <2>. QED
      BY <1>2, <1>14, <2>1
  <1> HIDE DEF g0, s0, y
  <1>16. PICK S : g0 \in Readers(S)
    BY <1>9, <1>15, ReaderMovedTo
  <1>17. /\ g0.offset = l.offset /\ g0.bytes = r.bytes /\ g0.little = r.little /\ g0.got = s0
         /\ \A p, g : MovedTo(g0, p, g) = MovedTo(r, p, g)
    BY <1>9, <1>15, ReaderMovedTo
  <1>18. Track(g0, g0, l.offset, s0)
    BY <1>16, <1>17, TrackBegins
  <1>19. Matches(g0, l.offset, n) /\ Matches(g0, n.offset, c)
    BY <1>2, <1>13, <1>17 DEF Matches
  <1> DEFINE s4 == Append(Append(Append(Append(s0, id), flags), key), method)
  <1>20. Track(g5, g0, n.offset, s4)
    <2> HIDE DEF g5, s4
    <2>1. n = PutNames(l, id, flags, minor, key, method)
      BY DEF n
    <2>2. Track(GetField(ScanKey(GetFields(g0, <<"ulong", "octet", "skip3">>), minor), "string"),
                g0, n.offset, Append(Append(Append(Append(s0, id), flags), key), method))
      BY <1>3, <1>9, <1>10, <1>15, <1>16, <1>17, <1>18, <1>19, <2>1, NamesTracked, ZenonT(60)
    <2>. QED
      BY <2>2 DEF g5, s4
  <1>21. IsSeq(s4)
    <2>1. IsSeq(Append(s0, id))
      BY <1>15, SequencesStay
    <2>2. IsSeq(Append(Append(s0, id), flags))
      BY <2>1, SequencesStay
    <2>3. IsSeq(Append(Append(Append(s0, id), flags), key))
      BY <2>2, SequencesStay
    <2>. QED
      BY <2>3, SequencesStay
  <1> HIDE DEF g5, s4
  <1>22. g6 = MovedTo(g0, c.offset, Append(s4, 0))
    <2> DEFINE z == Field("ulong", 0)
    <2>1. z.type = "ulong" /\ z.v = 0
      BY DEF Field
    <2>2. FieldFits(z)
      BY <1>4, <1>10, <2>1 DEF FieldFits
    <2> HIDE DEF z
    <2>3. c = PutField(n, z)
      BY <1>6, <2>1, PutFieldIs
    <2>4. n.little = g0.little
      BY <1>9, <1>17
    <2>5. /\ Track(GetField(g5, z.type), g0, c.offset, Append(s4, z.v))
          /\ ~Silent(z.type) /\ c.offset > Len(g0.bytes) => ~GetField(g5, z.type).ok
      BY <1>5, <1>16, <1>19, <1>20, <1>21, <2>2, <2>3, <2>4, Tracked
    <2>6. ~Silent("ulong")
      BY DEF Silent
    <2>7. ~(c.offset > Len(g0.bytes))
      BY <1>11, <2>1, <2>5, <2>6
    <2>8. g0.bytes \in Seq(Octet)
      BY <1>16 DEF Readers
    <2>9. c.offset <= Len(g0.bytes)
      BY <1>9, <2>7, <2>8
    <2>. QED
      BY <2>1, <2>5, <2>9 DEF Track
  <1> DEFINE s5 == Append(s4, 0)
  <1>23. g6 = MovedTo(r, c.offset, s5)
    BY <1>17, <1>22
  <1>24. Head(s5) = x /\ Tail(s5) = <<id, flags, key, method, 0>>
    BY AppendedFive DEF s0, s4
  <1> HIDE DEF g6, s5
  <1>25. ScanRequestHeader(r, minor) = MovedTo(r, c.offset, Append(r.got, header))
    <2>1. ScanRequestHeader(r, minor) = Return([MovedTo(r, c.offset, s5) EXCEPT !.got = r.got], header)
      BY <1>1, <1>11, <1>23, Zenon
    <2> HIDE DEF header
    <2>. QED
      BY <2>1, ReturnMoved
  <1>26. Naming(header, id, flags, key, method, minor)
    <2> DEFINE v == <<id, flags, key, method, 0>>
    <2>1. v[1] = id /\ v[2] = flags /\ v[3] = key /\ v[4] = method
      OBVIOUS
    <2>2. g6.got = s5
      BY <1>23 DEF MovedTo, Readers
    <2> HIDE DEF v
    <2>3. Tail(g6.got) = v
      BY <1>24, <2>2 DEF v
    <2>. QED
      BY <2>1, <2>3, HeaderNames
  <1>. QED
    BY <1>25, <1>26

HeaderTaken(d, minor, offset, id, flags, key, method) ==
    \E h : /\ Naming(h, id, flags, key, method, minor)
           /\ ScanRequestHeader(d, minor) = MovedTo(d, offset, Append(d.got, h))

LEMMA LateHeaderTaken ==
    ASSUME NEW V, NEW r \in Readers(V), NEW e \in Encoders, r.offset = e.offset,
           r.little = e.little,
           NEW id \in Nat, id < UlongLimit, NEW flags \in Octet, NEW minor, ~Early(minor),
           NEW key \in Seq(Octet), NEW method \in Seq(Octet),
           NEW n, n = PutNames(e, id, flags, minor, key, method),
           NEW m \in Nat, NEW f, IsList(f, n, m), NEW c, c = f[m],
           c.offset < UlongLimit, Matches(r, e.offset, c), ScanRequestHeader(r, minor).ok
    PROVE  HeaderTaken(r, minor, AlignedTo(c.offset, 8), id, flags, key, method)
  <1> DEFINE y == [r EXCEPT !.got = <<>>]
             g3 == GetFields(y, <<"ulong", "octet", "skip3">>)
             g5 == GetField(ScanKey(g3, minor), "string")
             d == IF g5.ok THEN GetServiceContext(g5) ELSE g5
             header == TheRequestHeader(d.got, Last(d.got), minor)
             size == Len(r.bytes)
  <1>1. ScanRequestHeader(r, minor)
            = IF d.ok THEN Return([Align(d, 8) EXCEPT !.got = r.got], header) ELSE d
    BY Zenon DEF ScanRequestHeader, After
  <1>2. /\ y \in Readers(V) /\ y.offset = r.offset /\ y.bytes = r.bytes /\ y.little = r.little
        /\ y.got = <<>>
        /\ \A p, s : MovedTo(y, p, s) = MovedTo(r, p, s)
    BY Afresh
  <1>3. id \in Int
    OBVIOUS
  <1>4. n \in Later(e) /\ n \in Encoders
    BY <1>3, NamesAreLater, LaterIsEncoder
  <1>5. c \in Later(n) /\ c \in Encoders
    BY <1>4, ListPut, LaterIsEncoder
  <1>6. /\ e.offset \in Nat /\ n.offset \in Nat /\ c.offset \in Nat /\ n.offset <= c.offset
        /\ n.little = r.little /\ size \in Nat
    <2>1. n.little = e.little /\ e.offset \in Nat /\ n.offset \in Nat
      BY <1>4, LaterOn
    <2>2. c.offset \in Nat /\ n.offset <= c.offset
      BY <1>4, <1>5, LaterOn
    <2>3. r.bytes \in Seq(Octet)
      BY DEF Readers
    <2>. QED
      BY <2>1, <2>2, <2>3
  <1>7. n.offset < UlongLimit
    BY <1>6, SMTT(30) DEF UlongLimit
  <1>8. Matches(y, e.offset, n) /\ Matches(y, n.offset, c)
    <2>1. e \in Later(e) /\ c \in Later(c)
      BY <1>5, NowIsLater
    <2>2. Matches(r, e.offset, n) /\ Matches(r, n.offset, c)
      BY <1>4, <1>5, <2>1, MatchesBetween
    <2> HIDE DEF y
    <2>. QED
      BY <1>2, <2>2 DEF Matches
  <1>9. d.ok /\ g5.ok /\ d = GetServiceContext(g5)
    BY <1>1, Zenon
  <1> DEFINE s0 == <<>>
             s4 == Append(Append(Append(Append(s0, id), flags), key), method)
  <1>10. IsSeq(s0)
    BY SequencesStay
  <1>11. IsSeq(s4)
    <2> HIDE DEF s0
    <2>1. IsSeq(Append(s0, id))
      BY <1>10, SequencesStay
    <2>2. IsSeq(Append(Append(s0, id), flags))
      BY <2>1, SequencesStay
    <2>3. IsSeq(Append(Append(Append(s0, id), flags), key))
      BY <2>2, SequencesStay
    <2>. QED
      BY <2>3, SequencesStay
  <1>12. s4 = <<id, flags, key, method>>
    BY AppendedFour
  <1> HIDE DEF y, s0, d
  <1>13. Track(g5, y, n.offset, s4)
    <2> HIDE DEF g5, s4
    <2>1. Track(y, y, e.offset, s0)
      <3>1. Track(y, y, y.offset, y.got)
        BY <1>2, TrackBegins
      <3>. QED
        BY <1>2, <3>1 DEF s0
    <2>2. e.little = y.little
      BY <1>2
    <2>3. Track(GetField(ScanKey(GetFields(y, <<"ulong", "octet", "skip3">>), minor), "string"),
                y, n.offset, Append(Append(Append(Append(s0, id), flags), key), method))
      BY <1>2, <1>7, <1>8, <1>10, <2>1, <2>2, NamesTracked
    <2>. QED
      BY <2>3 DEF g5, s4
  <1> HIDE DEF g5, s4
  <1>14. ASSUME NEW s, IsSeq(s), g5 = MovedTo(y, n.offset, s)
         PROVE  /\ \E x : d = MovedTo(y, c.offset, Append(s, x))
                /\ n.offset <= size
    <2>1. PICK S : g5 \in Readers(S)
      BY <1>2, <1>6, <1>14, ReaderMovedTo
    <2>2. g5.offset = n.offset /\ g5.little = n.little /\ g5.bytes = y.bytes
      BY <1>2, <1>6, <1>14, ReaderMovedTo
    <2>3. Matches(g5, n.offset, c)
      BY <1>8, <2>2 DEF Matches
    <2>4. GetServiceContext(g5).ok
      BY <1>9
    <2>5. /\ \E x : GetServiceContext(g5) = Advanced(g5, c.offset, x)
          /\ Aligned(n.offset, 4) + 4 <= Len(g5.bytes)
      BY <1>4, <2>1, <2>2, <2>3, <2>4, ContextsTaken
    <2>6. \A x : Advanced(g5, c.offset, x) = MovedTo(y, c.offset, Append(s, x))
      BY <1>2, <1>6, <1>14, MovedAdvances
    <2>7. \E x : d = MovedTo(y, c.offset, Append(s, x))
      BY <1>9, <2>5, <2>6
    <2>8. n.offset <= size
      <3>1. Aligned(n.offset, 4) \in Nat /\ Aligned(n.offset, 4) >= n.offset
        BY <1>6, AlignedUp DEF AlignWidth
      <3>2. Aligned(n.offset, 4) + 4 <= size
        BY <1>2, <2>2, <2>5
      <3>. QED
        BY <1>6, <3>1, <3>2
    <2>. QED
      BY <2>7, <2>8
  <1>15. PICK x : d = MovedTo(y, c.offset, Append(s4, x))
    <2>1. n.offset <= size
      <3>1. CASE n.offset > size
        <4>1. PICK s : IsSeq(s) /\ g5 = MovedTo(y, n.offset, s)
          BY <1>2, <1>9, <1>13, <3>1 DEF Track
        <4>. QED
          BY <1>14, <4>1
      <3>. QED
        BY <1>6, <3>1
    <2>2. g5 = MovedTo(y, n.offset, s4)
      BY <1>2, <1>13, <2>1 DEF Track
    <2>. QED
      BY <1>11, <1>14, <2>2
  <1> DEFINE s5 == Append(s4, x)
             p == AlignedTo(c.offset, 8)
  <1>16. d = MovedTo(r, c.offset, s5)
    BY <1>2, <1>15
  <1> HIDE DEF s5
  <1>17. Align(d, 8) = MovedTo(r, p, s5)
    BY <1>16 DEF Align, MovedTo, Readers
  <1>18. d.got = s5
    BY <1>16 DEF MovedTo, Readers
  <1> HIDE DEF p
  <1>19. ScanRequestHeader(r, minor) = MovedTo(r, p, Append(r.got, header))
    <2>1. ScanRequestHeader(r, minor) = Return([MovedTo(r, p, s5) EXCEPT !.got = r.got], header)
      BY <1>1, <1>9, <1>17, Zenon
    <2> HIDE DEF header
    <2>. QED
      BY <2>1, ReturnMoved
  <1>20. Naming(header, id, flags, key, method, minor)
    <2> DEFINE v == d.got
    <2>1. v[1] = id /\ v[2] = flags /\ v[3] = key /\ v[4] = method
      <3> DEFINE t == <<id, flags, key, method>>
                 S == {id, flags, key, method, x}
      <3>1. /\ t \in Seq(S) /\ Len(t) = 4 /\ x \in S
            /\ t[1] = id /\ t[2] = flags /\ t[3] = key /\ t[4] = method
        OBVIOUS
      <3> HIDE DEF t, S
      <3>2. v = Append(t, x)
        BY <1>12, <1>18 DEF s5, t
      <3> HIDE DEF v
      <3>3. \A i \in 1..Len(t) : v[i] = t[i]
        BY <3>1, <3>2, Longer
      <3>4. 1 \in 1..Len(t) /\ 2 \in 1..Len(t) /\ 3 \in 1..Len(t) /\ 4 \in 1..Len(t)
        BY <3>1
      <3>. QED
        BY <3>1, <3>3, <3>4
    <2> HIDE DEF v
    <2>2. header = TheRequestHeader(v, Last(v), minor)
      BY DEF v
    <2> HIDE DEF header
    <2>. QED
      BY <2>1, <2>2, HeaderNames
  <1>. QED
    BY <1>19, <1>20 DEF p, HeaderTaken

LocateIs(d, minor, offset, id) ==
    \E h : h.id = id /\ ScanLocateRequest(d, minor) = MovedTo(d, offset, Append(d.got, h))

LEMMA LocateTaken ==
    ASSUME NEW V, NEW r \in Readers(V), NEW e \in Encoders, r.offset = e.offset,
           r.little = e.little, NEW id \in Nat, id < UlongLimit, NEW minor,
           NEW key \in Seq(Octet),
           NEW c, c = PutKey(PutUlong(e, id), minor, key),
           c.offset < UlongLimit, Matches(r, e.offset, c), ScanLocateRequest(r, minor).ok
    PROVE  LocateIs(r, minor, c.offset, id)
  <1> DEFINE u == PutUlong(e, id)
             y == [r EXCEPT !.got = <<>>]
             z == GetField(y, "ulong")
             d == [z EXCEPT !.got = r.got]
             k == ScanKey(d, minor)
  <1>1. ScanLocateRequest(r, minor)
            = IF z.ok THEN IF k.ok THEN Instead(k, [id |-> z.got[1], key |-> Value(k)]) ELSE k ELSE z
    <2>1. GetFields(y, <<"ulong">>) = z
      BY OneFieldRead
    <2> HIDE DEF z
    <2>. QED
      BY <2>1, Zenon DEF ScanLocateRequest, Scan, After
  <1>2. z.ok /\ k.ok
    BY <1>1, Zenon
  <1>3. /\ y \in Readers(V) /\ y.offset = r.offset /\ y.bytes = r.bytes /\ y.little = r.little
        /\ \A p, v : Advanced(y, p, v) = MovedTo(r, p, Append(<<>>, v))
    BY Afresh
  <1>4. id \in Int
    OBVIOUS
  <1>5. u \in Later(e) /\ u \in Encoders
    BY <1>4, UlongKeeps
  <1>6. c = PutKey(u, minor, key)
    OBVIOUS
  <1> HIDE DEF u
  <1>7. c \in Later(u) /\ c \in Encoders
    <2>1. PutKey(u, minor, key) \in Later(u) /\ PutKey(u, minor, key) \in Encoders
      BY <1>5, KeyKeeps
    <2>. QED
      BY <1>6, <2>1
  <1>8. /\ e.offset \in Nat /\ u.offset \in Nat /\ c.offset \in Nat /\ u.offset <= c.offset
        /\ u.little = r.little
    <2>1. u.little = e.little /\ e.offset \in Nat /\ u.offset \in Nat
      BY <1>5, LaterOn
    <2>2. c.offset \in Nat /\ u.offset <= c.offset
      BY <1>5, <1>7, LaterOn
    <2>. QED
      BY <2>1, <2>2
  <1>9. Matches(r, e.offset, u) /\ Matches(r, u.offset, c)
    <2>1. e \in Later(e) /\ c \in Later(c)
      BY <1>7, NowIsLater
    <2>. QED
      BY <1>5, <1>7, <2>1, MatchesBetween
  <1>10. z = MovedTo(r, u.offset, Append(<<>>, id))
    <2> HIDE DEF y
    <2>1. Matches(y, e.offset, u) /\ y.offset = e.offset /\ y.little = e.little
      BY <1>3, <1>9 DEF Matches
    <2>2. u = PutUlong(e, id)
      BY DEF u
    <2>3. /\ u.offset <= Len(y.bytes) => z = Advanced(y, u.offset, id)
          /\ u.offset > Len(y.bytes) => ~z.ok
      BY <1>3, <1>5, <2>1, <2>2, UlongFieldTaken
    <2>4. y.bytes \in Seq(Octet)
      BY <1>3 DEF Readers
    <2>5. u.offset <= Len(y.bytes)
      BY <1>2, <1>8, <2>3, <2>4
    <2>. QED
      BY <1>3, <2>3, <2>5
  <1> HIDE DEF z, y
  <1>11. z.got[1] = id
    <2>1. Append(<<>>, id) = <<id>>
      OBVIOUS
    <2>2. z.got = <<id>>
      BY <1>10, <2>1 DEF MovedTo, Readers
    <2>. QED
      BY <2>2
  <1>12. d = [r EXCEPT !.offset = u.offset]
    BY <1>10 DEF MovedTo, Readers
  <1> HIDE DEF d
  <1>13. /\ d \in Readers(V) /\ d.offset = u.offset /\ d.little = u.little /\ d.bytes = r.bytes
         /\ \A p, v : Advanced(d, p, v) = MovedTo(r, p, Append(r.got, v))
    <2>1. d \in Readers(V) /\ d.offset = u.offset /\ d.little = u.little /\ d.bytes = r.bytes
      BY <1>8, <1>12 DEF Readers
    <2>2. ASSUME NEW p, NEW v
          PROVE  Advanced(d, p, v) = MovedTo(r, p, Append(r.got, v))
      BY <1>12 DEF Advanced, MovedTo, Readers
    <2>. QED
      BY <2>1, <2>2
  <1>14. \E w : k = Advanced(d, c.offset, w)
    <2>1. Matches(d, u.offset, c)
      BY <1>9, <1>13 DEF Matches
    <2>2. c = IF Early(minor) THEN PutBlob(u, key) ELSE PutBlob(PutUshort(u, KeyAddr), key)
      BY <1>6 DEF PutKey
    <2> HIDE DEF k
    <2>3. /\ c.offset <= Len(d.bytes) => k = Advanced(d, c.offset, key)
          /\ c.offset > Len(d.bytes) => Cut(d, k, c.offset)
      BY <1>5, <1>13, <2>1, <2>2, KeyTaken DEF k
    <2>4. d.bytes \in Seq(Octet)
      BY <1>13 DEF Readers
    <2>5. c.offset <= Len(d.bytes) \/ c.offset > Len(d.bytes)
      BY <1>8, <2>4
    <2>. QED
      BY <1>2, <2>3, <2>5, Zenon DEF Cut
  <1>15. PICK w : k = Advanced(d, c.offset, w)
    BY <1>14
  <1> DEFINE h == [id |-> z.got[1], key |-> Value(k)]
  <1>16. ScanLocateRequest(r, minor) = Instead(k, h)
    BY <1>1, <1>2, Zenon
  <1>17. h.id = id
    BY <1>11
  <1> HIDE DEF h, k
  <1>18. Instead(k, h) = Advanced(d, c.offset, h)
    BY <1>13, <1>15, InsteadOf
  <1>. QED
    BY <1>13, <1>16, <1>17, <1>18 DEF LocateIs
-----------------------------------------------------------------------------
(***************************************************************************)
(* The header of the message.                                              *)
(***************************************************************************)
LEMMA OctetShown ==
    ASSUME NEW V, NEW r \in Readers(V), NEW o \in Octet,
           r.offset + 1 <= Len(r.bytes) => r.bytes[r.offset + 1] = o
    PROVE  /\ r.offset + 1 <= Len(r.bytes) => GetField(r, "octet") = Advanced(r, r.offset + 1, o)
           /\ r.offset + 1 > Len(r.bytes) => ~GetField(r, "octet").ok
  <1> DEFINE p == <<o>>
             end == r.offset + 1
  <1>1. p \in AnyWord /\ p \in Seq(Octet) /\ Len(p) = 1 /\ p[1] = o
    BY DEF AnyWord, AlignWidth
  <1>2. r.offset \in Nat /\ r.little \in BOOLEAN
    BY DEF Readers
  <1>3. o = Number(p)
    BY NumberOfOne
  <1>4. \A order \in BOOLEAN : InOrder(p, order) = p
    <2>1. Reverse(p) = p
      BY DEF Reverse
    <2>. QED
      BY <2>1 DEF InOrder
  <1> HIDE DEF p
  <1>5. Aligned(r.offset, 1) = r.offset
    BY <1>2 DEF Aligned
  <1>6. Holds(r, r.offset, p)
    BY <1>1, <1>2 DEF Holds
  <1>7. /\ end <= Len(r.bytes) => GetNumber(r, Len(p)) = Advanced(r, end, p)
        /\ end > Len(r.bytes) => GetNumber(r, Len(p)) = Throw(r)
    <2>1. Holds(r, Aligned(r.offset, Len(p)), InOrder(p, r.little))
      BY <1>1, <1>2, <1>4, <1>5, <1>6
    <2>2. LET z == Aligned(r.offset, Len(p)) + Len(p)
          IN  /\ z <= Len(r.bytes) => GetNumber(r, Len(p)) = Advanced(r, z, p)
              /\ z > Len(r.bytes) => GetNumber(r, Len(p)) = Throw(r)
      BY <1>1, <2>1, NumberTaken
    <2>3. Aligned(r.offset, Len(p)) + Len(p) = end
      BY <1>1, <1>5
    <2>. QED
      BY <2>2, <2>3
  <1>8. "octet" \in DOMAIN Width /\ Width["octet"] = Len(p)
    BY <1>1 DEF Width
  <1> HIDE DEF end
  <1>9. /\ end <= Len(r.bytes) => GetField(r, "octet") = Advanced(r, end, o)
        /\ end > Len(r.bytes) => ~GetField(r, "octet").ok
    BY <1>1, <1>3, <1>7, <1>8, NumberFieldTaken
  <1>. QED
    BY <1>9 DEF end

\* Some number of four octets.
LEMMA AnyUlong ==
    ASSUME NEW V, NEW r \in Readers(V), GetField(r, "ulong").ok
    PROVE  \E n : /\ GetField(r, "ulong") = Advanced(r, Aligned(r.offset, 4) + 4, n)
                  /\ Aligned(r.offset, 4) + 4 <= Len(r.bytes)
  <1> DEFINE g == GetNumber(r, 4)
             end == Aligned(r.offset, 4) + 4
  <1>1. r.ok
    BY DEF Readers
  <1>2. "ulong" \in DOMAIN Width /\ Width["ulong"] = 4
    BY DEF Width
  <1>3. GetField(r, "ulong") = IF g.ok THEN Instead(g, Number(Value(g))) ELSE g
    BY <1>1, <1>2, GetFieldIs
  <1>4. g.ok
    BY <1>3, Zenon
  <1>5. \/ g = Throw(r) /\ ~g.ok
        \/ /\ end <= Len(r.bytes)
           /\ \E p \in Seq(Octet) : g = Advanced(r, end, p)
    BY AnyNumber DEF AlignWidth
  <1>6. end <= Len(r.bytes) /\ \E p : g = Advanced(r, end, p)
    BY <1>4, <1>5
  <1>7. PICK p : g = Advanced(r, end, p)
    BY <1>6
  <1> DEFINE n == Number(Value(g))
  <1>8. GetField(r, "ulong") = Instead(g, n)
    BY <1>3, <1>4
  <1> HIDE DEF n, g, end
  <1>9. Instead(g, n) = Advanced(r, end, n)
    BY <1>7, InsteadOf
  <1>. QED
    BY <1>6, <1>8, <1>9 DEF end

SetOffset(x, p) == [x EXCEPT !.offset = p]
SetOrder(x, m) == [x EXCEPT !.little = m]
SetGot(x, h) == [x EXCEPT !.got = h]

LEMMA ShapeIs ==
    ASSUME NEW o, NEW b, NEW l, NEW s, NEW k, NEW g, NEW x, x = DecoderAt(o, b, l, s, k, g)
    PROVE  x.offset = o /\ x.bytes = b /\ x.little = l /\ x.encapStack = s /\ x.ok = k /\ x.got = g
  BY DEF DecoderAt

LEMMA ShapeAt ==
    ASSUME NEW o, NEW b, NEW l, NEW s, NEW k, NEW g, NEW p, NEW x, x = DecoderAt(o, b, l, s, k, g)
    PROVE  SetOffset(x, p) = DecoderAt(p, b, l, s, k, g)
  BY DEF DecoderAt, SetOffset

LEMMA ShapeInOrder ==
    ASSUME NEW o, NEW b, NEW l, NEW s, NEW k, NEW g, NEW m, NEW x, x = DecoderAt(o, b, l, s, k, g)
    PROVE  SetOrder(x, m) = DecoderAt(o, b, m, s, k, g)
  BY DEF DecoderAt, SetOrder

LEMMA ShapeGot ==
    ASSUME NEW o, NEW b, NEW l, NEW s, NEW k, NEW g, NEW h, NEW x, x = DecoderAt(o, b, l, s, k, g)
    PROVE  SetGot(x, h) = DecoderAt(o, b, l, s, k, h)
  BY DEF DecoderAt, SetGot

LEMMA ShapeReturns ==
    ASSUME NEW o, NEW b, NEW l, NEW s, NEW k, NEW g, NEW v, NEW x, x = DecoderAt(o, b, l, s, k, g)
    PROVE  Return(x, v) = DecoderAt(o, b, l, s, k, Append(g, v))
  BY DEF DecoderAt, Return

LEMMA ShapeAdvances ==
    ASSUME NEW o, NEW b, NEW l, NEW s, NEW k, NEW g, NEW p, NEW v, NEW x, x = DecoderAt(o, b, l, s, k, g)
    PROVE  Advanced(x, p, v) = DecoderAt(p, b, l, s, k, Append(g, v))
  <1> DEFINE y == SetOffset(x, p)
  <1>1. y = DecoderAt(p, b, l, s, k, g)
    BY ShapeAt
  <1>2. Advanced(x, p, v) = Return(y, v)
    BY Zenon DEF Advanced, Return, SetOffset
  <1> HIDE DEF y
  <1>. QED
    BY <1>1, <1>2, ShapeReturns

LEMMA ShapeThrows ==
    ASSUME NEW o, NEW b, NEW l, NEW s, NEW k, NEW g, NEW x, x = DecoderAt(o, b, l, s, k, g)
    PROVE  ~Throw(x).ok
  BY DEF DecoderAt, Throw

LEMMA ShapeReads ==
    ASSUME NEW V, NEW o \in Nat, NEW b \in Seq(Octet), NEW l \in BOOLEAN, NEW k, k = TRUE,
           NEW g \in Seq(V), NEW s, s = <<>>
    PROVE  DecoderAt(o, b, l, s, k, g) \in Readers(V)
  <1>1. s \in Seq(Closing)
    OBVIOUS
  <1>. QED
    BY <1>1 DEF DecoderAt, Readers

LEMMA AppendedTwo ==
    ASSUME NEW a, NEW b
    PROVE  Append(<<a>>, b) = <<a, b>>
  <1> DEFINE S == {a, b}
             s == <<a>>
             t == <<a, b>>
             w == Append(s, b)
  <1>1. b \in S /\ s \in Seq(S) /\ Len(s) = 1 /\ s[1] = a
    OBVIOUS
  <1>2. t \in Seq(S) /\ Len(t) = 2 /\ t[1] = a /\ t[2] = b
    OBVIOUS
  <1> HIDE DEF S, s, t
  <1>3. /\ w \in Seq(S) /\ Len(w) = Len(s) + 1 /\ w[Len(s) + 1] = b
        /\ \A i \in 1..Len(s) : w[i] = s[i]
    <2>1. w = Append(s, b)
      OBVIOUS
    <2> HIDE DEF w
    <2>. QED
      BY <1>1, <2>1, Longer
  <1> HIDE DEF w
  <1>4. Len(w) = 2 /\ w[1] = a /\ w[2] = b
    BY <1>1, <1>3
  <1>5. w = t
    BY <1>2, <1>3, <1>4, SameSequence
  <1>. QED
    BY <1>5 DEF s, t, w

\* The octets begin with a header, as far as they go.
BeginsWith(bytes, minor, order, type) ==
    /\ 6 <= Len(bytes) => bytes[6] = minor
    /\ 7 <= Len(bytes) => bytes[7] = IF order THEN 1 ELSE 0
    /\ 8 <= Len(bytes) => bytes[8] = type

LEMMA GiopHeaderTaken ==
    ASSUME NEW bytes \in Seq(Octet), NEW minor \in Octet, NEW type \in Octet,
           NEW order \in BOOLEAN, BeginsWith(bytes, minor, order, type),
           ScanGIOPHeader(Decoder(bytes)).ok
    PROVE  LET d == ScanGIOPHeader(Decoder(bytes))
               v == [minor |-> minor, type |-> type]
           IN  /\ d \in Readers({v}) /\ d.offset = 12 /\ d.bytes = bytes /\ d.little = order
               /\ d.got = <<v>> /\ Value(d) = v
               /\ 12 <= Len(bytes)
  <1> DEFINE d0 == Decoder(bytes)
             d == ScanGIOPHeader(d0)
             v == [minor |-> minor, type |-> type]
             size == Len(bytes)
             none == <<>>
             yes == TRUE
             a == DecoderAt(4, bytes, yes, none, yes, none)
             b1 == GetField(a, "octet")
             b2 == GetField(b1, "octet")
             c == [b2 EXCEPT !.got = <<>>]
             e == GetEndian(c)
             k == [e EXCEPT !.got = <<>>]
             k1 == GetField(k, "octet")
             k2 == GetField(k1, "ulong")
             f == [k2 EXCEPT !.got = e.got]
  <1>1. size \in Nat
    OBVIOUS
  <1>2. d0 = DecoderAt(0, bytes, yes, none, yes, none)
    BY DEF Decoder, DecoderAt
  <1>25. yes = TRUE /\ yes \in BOOLEAN /\ none = <<>> /\ \A V : none \in Seq(V)
    OBVIOUS
  <1> HIDE DEF yes, none
  <1>3. d = IF b2.ok THEN IF e.ok THEN IF k2.ok THEN Return(f, [minor |-> b2.got[2], type |-> k2.got[1]])
                                       ELSE k2 ELSE e ELSE b2
    <2>1. Slice(d0, 0, 4) = Magic
      <3>1. Slice(d0, 0, 4) # Magic => d = Throw(d0)
        BY Zenon DEF ScanGIOPHeader
      <3>2. ~Throw(d0).ok
        BY <1>2, ShapeThrows
      <3>. QED
        BY <3>1, <3>2
    <2> DEFINE x == [d0 EXCEPT !.offset = @ + 4]
    <2>2. x.got = <<>> /\ [x EXCEPT !.got = <<>>] = a
      <3>1. d0.offset + 4 = 4
        BY <1>2, ShapeIs
      <3>2. x = SetOffset(d0, 4)
        BY <3>1 DEF SetOffset
      <3> HIDE DEF x, d0
      <3>3. x = a
        BY <1>2, <3>2, ShapeAt
      <3>5. SetGot(x, none) = a
        BY <3>3, ShapeGot
      <3>4. [x EXCEPT !.got = none] = a
        BY <3>5 DEF SetGot
      <3> HIDE DEF a
      <3>6. a = DecoderAt(4, bytes, yes, none, yes, none)
        BY DEF a
      <3>7. a.got = none
        BY <3>6, ShapeIs
      <3>8. x.got = <<>>
        BY <1>25, <3>3, <3>7
      <3>9. [x EXCEPT !.got = <<>>] = a
        BY <1>25, <3>4
      <3>. QED
        BY <3>8, <3>9
    <2>3. GetFields(a, <<"octet", "octet">>) = b2
      BY TwoFieldsRead
    <2>4. GetFields(k, <<"octet", "ulong">>) = k2
      BY TwoFieldsRead
    <2>5. d = Scan(x, <<"octet", "octet">>, LAMBDA y, version :
                  After(GetEndian(y), LAMBDA z :
                      Scan(z, <<"octet", "ulong">>, LAMBDA w, t :
                          Return(w, [minor |-> version[2], type |-> t[1]]))))
      BY <2>1, Zenon DEF ScanGIOPHeader
    <2> HIDE DEF x, a, b2, k2, d
    <2>6. d = IF b2.ok THEN After(e, LAMBDA z :
                      Scan(z, <<"octet", "ulong">>, LAMBDA w, t :
                          Return(w, [minor |-> b2.got[2], type |-> t[1]])))
              ELSE b2
      BY <2>2, <2>3, <2>5, Zenon DEF Scan, After
    <2> HIDE DEF e
    <2>7. d = IF b2.ok THEN IF e.ok THEN Scan(e, <<"octet", "ulong">>, LAMBDA w, t :
                          Return(w, [minor |-> b2.got[2], type |-> t[1]])) ELSE e
              ELSE b2
      BY <2>6, Zenon DEF After
    <2>8. Scan(e, <<"octet", "ulong">>, LAMBDA w, t : Return(w, [minor |-> b2.got[2], type |-> t[1]]))
              = IF k2.ok THEN Return(f, [minor |-> b2.got[2], type |-> k2.got[1]]) ELSE k2
      BY <2>4, Zenon DEF Scan, After
    <2>. QED
      BY <2>7, <2>8, Zenon
  <1>4. d.ok
    OBVIOUS
  <1>5. b2.ok /\ e.ok /\ k2.ok
    <2> HIDE DEF b2, e, k2, d
    <2>. QED
      BY <1>3, <1>4, Zenon
  <1>26. a = DecoderAt(4, bytes, yes, none, yes, none)
    OBVIOUS
  <1>6. a \in Readers(Octet) /\ a.offset = 4 /\ a.bytes = bytes
    <2> HIDE DEF a
    <2>1. 4 \in Nat /\ none \in Seq(Octet)
      BY <1>25
    <2>2. a \in Readers(Octet)
      BY <1>25, <1>26, <2>1, ShapeReads
    <2>3. a.offset = 4 /\ a.bytes = bytes
      BY <1>26, ShapeIs
    <2>. QED
      BY <2>2, <2>3
  <1> HIDE DEF a, d
  <1>7. /\ 5 <= size /\ \E o \in Octet : b1 = DecoderAt(5, bytes, yes, none, yes, <<o>>)
    <2> DEFINE o == IF 5 <= size THEN bytes[5] ELSE 0
    <2>1. o \in Octet /\ (5 <= size => bytes[5] = o)
      <3>1. 0 \in Octet
        BY DEF Octet
      <3>2. 5 <= size => bytes[5] \in Octet
        BY <1>1
      <3>. QED
        BY <3>1, <3>2
    <2> HIDE DEF o
    <2>2. 4 + 1 = 5
      OBVIOUS
    <2>3. /\ 5 <= size => b1 = Advanced(a, 5, o)
          /\ 5 > size => ~b1.ok
      BY <1>6, <2>1, <2>2, OctetShown
    <2>4. ~b1.ok => b2 = b1
      <3> HIDE DEF b1
      <3>. QED
        BY GetFieldIs
    <2> HIDE DEF b1, b2
    <2>5. 5 <= size
      BY <1>1, <1>5, <2>3, <2>4
    <2>6. b1 = Advanced(a, 5, o)
      BY <2>3, <2>5
    <2>7. Append(<<>>, o) = <<o>>
      OBVIOUS
    <2>8. Advanced(a, 5, o) = DecoderAt(5, bytes, yes, none, yes, <<o>>)
      <3>1. Advanced(a, 5, o) = DecoderAt(5, bytes, yes, none, yes, Append(none, o))
        BY <1>26, ShapeAdvances
      <3>. QED
        BY <1>25, <2>7, <3>1
    <2>. QED
      BY <2>1, <2>5, <2>6, <2>8
  <1>8. PICK o \in Octet : b1 = DecoderAt(5, bytes, yes, none, yes, <<o>>)
    BY <1>7
  <1>9. b1 \in Readers(Octet) /\ b1.offset = 5 /\ b1.bytes = bytes
    <2>1. <<o>> \in Seq(Octet) /\ 5 \in Nat
      OBVIOUS
    <2>2. b1 \in Readers(Octet)
      <3> DEFINE w == <<o>>
      <3>1. b1 = DecoderAt(5, bytes, yes, none, yes, w) /\ w \in Seq(Octet)
        BY <1>8, <2>1
      <3> HIDE DEF w, b1
      <3>. QED
        BY <1>25, <2>1, <3>1, ShapeReads
    <2>. QED
      <3> DEFINE w == <<o>>
      <3>1. b1 = DecoderAt(5, bytes, yes, none, yes, w)
        BY <1>8
      <3> HIDE DEF w, b1
      <3>2. b1.offset = 5 /\ b1.bytes = bytes
        BY <3>1, ShapeIs
      <3>. QED
        BY <2>2, <3>2
  <1> HIDE DEF b1
  <1>10. 6 <= size /\ b2 = DecoderAt(6, bytes, yes, none, yes, <<o, minor>>)
    <2>1. 6 <= size => bytes[6] = minor
      BY DEF BeginsWith
    <2>2. 5 + 1 = 6
      OBVIOUS
    <2>3. /\ 6 <= size => b2 = Advanced(b1, 6, minor)
          /\ 6 > size => ~b2.ok
      BY <1>9, <2>1, <2>2, OctetShown
    <2>4. 6 <= size
      BY <1>1, <1>5, <2>3
    <2>5. Append(<<o>>, minor) = <<o, minor>>
      BY AppendedTwo
    <2>6. Advanced(b1, 6, minor) = DecoderAt(6, bytes, yes, none, yes, <<o, minor>>)
      <3> DEFINE w == <<o>>
                 u == <<o, minor>>
      <3>1. b1 = DecoderAt(5, bytes, yes, none, yes, w)
        BY <1>8
      <3>2. Append(w, minor) = u
        BY <2>5
      <3> HIDE DEF w, u
      <3>3. Advanced(b1, 6, minor) = DecoderAt(6, bytes, yes, none, yes, Append(w, minor))
        BY <3>1, ShapeAdvances
      <3>4. Advanced(b1, 6, minor) = DecoderAt(6, bytes, yes, none, yes, u)
        BY <3>2, <3>3
      <3>. QED
        BY <3>4 DEF u
    <2>. QED
      BY <2>3, <2>4, <2>6
  <1> HIDE DEF b2
  <1>11. c = DecoderAt(6, bytes, yes, none, yes, none) /\ b2.got[2] = minor
    <2> DEFINE u == <<o, minor>>
    <2>4. b2 = DecoderAt(6, bytes, yes, none, yes, u)
      BY <1>10
    <2>5. b2.got = u
      <3> HIDE DEF u
      <3>. QED
        BY <2>4, ShapeIs
    <2>1. b2.got = <<o, minor>>
      BY <2>5
    <2>3. [b2 EXCEPT !.got = none] = DecoderAt(6, bytes, yes, none, yes, none)
      <3> HIDE DEF u
      <3>1. SetGot(b2, none) = DecoderAt(6, bytes, yes, none, yes, none)
        BY <2>4, ShapeGot
      <3>. QED
        BY <3>1 DEF SetGot
    <2>2. <<o, minor>>[2] = minor
      OBVIOUS
    <2>. QED
      BY <1>25, <2>1, <2>2, <2>3
  <1>12. c \in Decoders /\ c \in Readers(Seq(Octet)) /\ c.offset = 6 /\ c.bytes = bytes
    <2>1. 6 \in Nat
      OBVIOUS
    <2> DEFINE Z == Seq(Octet)
    <2>2. none \in Seq(Z)
      BY <1>25
    <2>5. c = DecoderAt(6, bytes, yes, none, yes, none)
      BY <1>11
    <2>3. c.offset = 6 /\ c.bytes = bytes
      <3> HIDE DEF c
      <3>. QED
        BY <2>5, ShapeIs
    <2> HIDE DEF Z, c
    <2>4. c \in Readers(Z)
      BY <1>25, <1>11, <2>1, <2>2, ShapeReads
    <2>. QED
      BY <2>3, <2>4 DEF Decoders, Readers, Z
  <1> HIDE DEF c
  <1>13. 7 <= size /\ e = DecoderAt(7, bytes, order, none, yes, none)
    <2>1. GetNumber(c, 1).ok
      <3>1. e = IF GetNumber(c, 1).ok THEN [GetNumber(c, 1) EXCEPT !.got = Front(@),
                                               !.little = (Value(GetNumber(c, 1)) = <<1>>)]
                ELSE GetNumber(c, 1)
        BY Zenon DEF GetEndian, After
      <3>. QED
        BY <1>5, <3>1
    <2>2. Aligned(6, 1) + 1 = 7
      BY DEF Aligned
    <2>3. \/ ~GetNumber(c, 1).ok
          \/ Aligned(c.offset, 1) + 1 <= Len(c.bytes)
      BY <1>12, AnyNumber DEF AlignWidth
    <2>4. 7 <= size
      BY <1>12, <2>1, <2>2, <2>3
    <2>5. 6 + 1 = 7
      OBVIOUS
    <2>6. bytes[7] = IF order THEN 1 ELSE 0
      BY <2>4 DEF BeginsWith
    <2>7. GetEndian(c) = [c EXCEPT !.offset = 7, !.little = order]
      <3>1. c \in Decoders /\ c.offset + 1 = 7 /\ 7 <= Len(c.bytes)
        BY <1>12, <2>4, <2>5
      <3>2. c.bytes[7] = IF order THEN 1 ELSE 0
        BY <1>12, <2>6
      <3>. QED
        BY <3>1, <3>2, EndianIsRead
    <2>8. [c EXCEPT !.offset = 7, !.little = order] = DecoderAt(7, bytes, order, none, yes, none)
      <3>1. SetOffset(c, 7) = DecoderAt(7, bytes, yes, none, yes, none)
        BY <1>11, ShapeAt
      <3>2. SetOrder(SetOffset(c, 7), order) = DecoderAt(7, bytes, order, none, yes, none)
        BY <3>1, ShapeInOrder
      <3>. QED
        BY <3>2, Zenon DEF SetOffset, SetOrder
    <2>. QED
      BY <2>4, <2>7, <2>8
  <1> HIDE DEF e
  <1>14. k = DecoderAt(7, bytes, order, none, yes, none) /\ e.got = <<>>
    <2>1. e.got = none
      BY <1>13, ShapeIs
    <2>3. SetGot(e, none) = DecoderAt(7, bytes, order, none, yes, none)
      BY <1>13, ShapeGot
    <2>2. [e EXCEPT !.got = none] = DecoderAt(7, bytes, order, none, yes, none)
      BY <2>3 DEF SetGot
    <2>. QED
      BY <1>25, <2>1, <2>2
  <1>15. k \in Readers(Octet) /\ k.offset = 7 /\ k.bytes = bytes
    <2>1. 7 \in Nat /\ none \in Seq(Octet)
      BY <1>25
    <2>3. k = DecoderAt(7, bytes, order, none, yes, none)
      BY <1>14
    <2>2. k.offset = 7 /\ k.bytes = bytes
      <3> HIDE DEF k
      <3>. QED
        BY <2>3, ShapeIs
    <2> HIDE DEF k
    <2>. QED
      BY <1>25, <1>14, <2>1, <2>2, ShapeReads
  <1> HIDE DEF k
  <1>16. 8 <= size /\ k1 = DecoderAt(8, bytes, order, none, yes, <<type>>)
    <2>1. 8 <= size => bytes[8] = type
      BY DEF BeginsWith
    <2>2. 7 + 1 = 8
      OBVIOUS
    <2>3. /\ 8 <= size => k1 = Advanced(k, 8, type)
          /\ 8 > size => ~k1.ok
      BY <1>15, <2>1, <2>2, OctetShown
    <2>4. ~k1.ok => k2 = k1
      <3> HIDE DEF k1
      <3>. QED
        BY GetFieldIs
    <2> HIDE DEF k1, k2
    <2>5. 8 <= size
      BY <1>1, <1>5, <2>3, <2>4
    <2>6. Append(<<>>, type) = <<type>>
      OBVIOUS
    <2>7. Advanced(k, 8, type) = DecoderAt(8, bytes, order, none, yes, <<type>>)
      <3> DEFINE w == <<type>>
      <3>1. Append(none, type) = w
        BY <1>25, <2>6
      <3> HIDE DEF w
      <3>2. Advanced(k, 8, type) = DecoderAt(8, bytes, order, none, yes, Append(none, type))
        BY <1>14, ShapeAdvances
      <3>3. Advanced(k, 8, type) = DecoderAt(8, bytes, order, none, yes, w)
        BY <3>1, <3>2
      <3>. QED
        BY <3>3 DEF w
    <2>. QED
      BY <2>3, <2>5, <2>7
  <1>17. k1 \in Readers(Octet) /\ k1.offset = 8 /\ k1.bytes = bytes
    <2> DEFINE w == <<type>>
    <2>1. 8 \in Nat /\ w \in Seq(Octet)
      OBVIOUS
    <2>3. k1 = DecoderAt(8, bytes, order, none, yes, w)
      BY <1>16
    <2> HIDE DEF k1, w
    <2>2. k1.offset = 8 /\ k1.bytes = bytes
      BY <2>3, ShapeIs
    <2>. QED
      BY <1>25, <2>1, <2>2, <2>3, ShapeReads
  <1> HIDE DEF k1
  <1>18. 12 <= size /\ \E n : k2 = DecoderAt(12, bytes, order, none, yes, <<type, n>>)
    <2>1. Aligned(8, 4) + 4 = 12
      BY DEF Aligned
    <2>2. \E n : /\ k2 = Advanced(k1, 12, n)
                 /\ 12 <= Len(k1.bytes)
      BY <1>5, <1>17, <2>1, AnyUlong
    <2>3. PICK n : k2 = Advanced(k1, 12, n)
      BY <2>2
    <2>4. Append(<<type>>, n) = <<type, n>>
      BY AppendedTwo
    <2>5. Advanced(k1, 12, n) = DecoderAt(12, bytes, order, none, yes, <<type, n>>)
      <3> DEFINE w == <<type>>
                 u == <<type, n>>
      <3>1. k1 = DecoderAt(8, bytes, order, none, yes, w)
        BY <1>16
      <3>2. Append(w, n) = u
        BY <2>4
      <3> HIDE DEF w, u
      <3>3. Advanced(k1, 12, n) = DecoderAt(12, bytes, order, none, yes, Append(w, n))
        BY <3>1, ShapeAdvances
      <3>4. Advanced(k1, 12, n) = DecoderAt(12, bytes, order, none, yes, u)
        BY <3>2, <3>3
      <3>. QED
        BY <3>4 DEF u
    <2>. QED
      BY <1>17, <2>2, <2>3, <2>5
  <1>19. PICK n : k2 = DecoderAt(12, bytes, order, none, yes, <<type, n>>)
    BY <1>18
  <1> HIDE DEF k2
  <1>20. f = DecoderAt(12, bytes, order, none, yes, none) /\ k2.got[1] = type
    <2> DEFINE u == <<type, n>>
    <2>4. k2 = DecoderAt(12, bytes, order, none, yes, u)
      BY <1>19
    <2>5. k2.got = u
      <3> HIDE DEF u
      <3>. QED
        BY <2>4, ShapeIs
    <2>1. k2.got = <<type, n>>
      BY <2>5
    <2>3. [k2 EXCEPT !.got = none] = DecoderAt(12, bytes, order, none, yes, none)
      <3> HIDE DEF u
      <3>1. SetGot(k2, none) = DecoderAt(12, bytes, order, none, yes, none)
        BY <2>4, ShapeGot
      <3>. QED
        BY <3>1 DEF SetGot
    <2>2. <<type, n>>[1] = type
      OBVIOUS
    <2>. QED
      BY <1>25, <1>14, <2>1, <2>2, <2>3
  <1> HIDE DEF f
  <1>21. d = Return(f, v)
    BY <1>3, <1>5, <1>11, <1>20
  <1> HIDE DEF v
  <1>22. d = DecoderAt(12, bytes, order, none, yes, <<v>>)
    <2>1. Append(<<>>, v) = <<v>>
      OBVIOUS
    <2>2. d = DecoderAt(12, bytes, order, none, yes, Append(none, v))
      BY <1>20, <1>21, ShapeReturns
    <2>. QED
      BY <1>25, <2>1, <2>2
  <1>23. /\ d \in Readers({v}) /\ d.offset = 12 /\ d.bytes = bytes /\ d.little = order
         /\ d.got = <<v>>
    <2> DEFINE w == <<v>>
    <2>1. w \in Seq({v}) /\ 12 \in Nat
      OBVIOUS
    <2>3. d = DecoderAt(12, bytes, order, none, yes, w)
      BY <1>22
    <2> HIDE DEF w
    <2>2. /\ d.offset = 12 /\ d.bytes = bytes /\ d.little = order /\ d.got = w
      BY <2>3, ShapeIs
    <2>4. d \in Readers({v})
      BY <1>25, <2>1, <2>3, ShapeReads
    <2>. QED
      BY <2>2, <2>4 DEF w
  <1>24. Value(d) = v
    <2>1. Last(<<v>>) = v
      BY DEF Last
    <2>. QED
      BY <1>23, <2>1 DEF Value
  <1>. QED
    BY <1>18, <1>23, <1>24 DEF d, v
-----------------------------------------------------------------------------
(***************************************************************************)
(* The octets of a message.                                                *)
(***************************************************************************)
LEMMA HeaderOctets ==
    ASSUME NEW e \in Encoders, NEW minor \in Octet, NEW type \in Octet, e.offset >= 12
    PROVE  LET g == SetGIOPHeader(e, minor, type)
           IN  /\ g \in Encoders /\ g.offset = e.offset /\ g.little = e.little
               /\ Len(g.bytes) = Len(e.bytes)
               /\ g.bytes[6] = minor /\ g.bytes[7] = (IF e.little THEN 1 ELSE 0)
               /\ g.bytes[8] = type
               /\ \A i \in 13..Len(e.bytes) : g.bytes[i] = e.bytes[i]
  <1> DEFINE start == [e EXCEPT !.offset = 0]
             flag == IF e.little THEN 1 ELSE 0
             rest == <<1, minor, flag, type>>
             fixed == Magic \o rest
             q == InOrder(Pattern(e.offset - 12, 4), e.little)
             head == fixed \o q
             put == Put(start, head)
             g == [put EXCEPT !.offset = e.offset]
  <1>1. /\ e.offset \in Nat /\ e.bytes \in Seq(Octet) /\ e.little \in BOOLEAN
        /\ e.offset <= Len(e.bytes) /\ Len(e.bytes) \in Nat
        /\ e \in [offset : Nat, bytes : Seq(Octet), sizeStack : Seq(StackEntry), little : BOOLEAN]
    BY DEF Encoders
  <1>2. /\ start \in Encoders /\ start.offset = 0 /\ start.bytes = e.bytes
        /\ start.little = e.little
    BY <1>1 DEF Encoders
  <1>3. q \in Seq(Octet) /\ Len(q) = 4
    <2> DEFINE p == Pattern(e.offset - 12, 4)
    <2>1. p \in Seq(Octet) /\ Len(p) = 4
      BY <1>1, PatternIsWord DEF AnyWord
    <2> HIDE DEF p
    <2>2. InOrder(p, e.little) \in Seq(Octet) /\ Len(InOrder(p, e.little)) = Len(p)
      BY <1>1, <2>1, InOrderKeeps
    <2>. QED
      BY <2>1, <2>2 DEF p
  <1>4. /\ fixed \in Seq(Octet) /\ Len(fixed) = 8
        /\ fixed[6] = minor /\ fixed[7] = flag /\ fixed[8] = type
    <2>1. flag \in Octet
      BY DEF Octet
    <2> HIDE DEF flag
    <2>2. Magic \in Seq(Octet) /\ Len(Magic) = 4
      BY DEF Magic, Octet
    <2>3. 1 \in Octet
      BY DEF Octet
    <2>4. /\ rest \in Seq(Octet) /\ Len(rest) = 4
          /\ rest[2] = minor /\ rest[3] = flag /\ rest[4] = type
      BY <2>1, <2>3
    <2> HIDE DEF rest
    <2> DEFINE both == Magic \o rest
               four == 4
               m == four
    <2>5. Magic \in Seq(Octet) /\ rest \in Seq(Octet) /\ m = Len(Magic) /\ four = Len(rest)
      BY <2>2, <2>4
    <2>6. /\ 2 \in 1..four /\ 3 \in 1..four /\ 4 \in 1..four
          /\ m + 2 = 6 /\ m + 3 = 7 /\ m + 4 = 8 /\ m + four = 8
      OBVIOUS
    <2> HIDE DEF four, m
    <2>7. /\ both \in Seq(Octet) /\ Len(both) = m + four
          /\ \A i \in 1..four : both[m + i] = rest[i]
      BY <2>5, Joined
    <2> HIDE DEF both
    <2>8. both[6] = rest[2] /\ both[7] = rest[3] /\ both[8] = rest[4]
      BY <2>6, <2>7
    <2>. QED
      BY <2>4, <2>6, <2>7, <2>8 DEF both
  <1>5. SetGIOPHeader(e, minor, type) = g
    BY DEF SetGIOPHeader
  <1> HIDE DEF q, fixed, start, flag
  <1>6. /\ head \in Seq(Octet) /\ Len(head) = 12
        /\ head[6] = minor /\ head[7] = flag /\ head[8] = type
    <2> DEFINE eight == 8
               four == 4
    <2>1. fixed \in Seq(Octet) /\ q \in Seq(Octet) /\ eight = Len(fixed) /\ four = Len(q)
      BY <1>3, <1>4
    <2>2. 6 \in 1..eight /\ 7 \in 1..eight /\ 8 \in 1..eight /\ eight + four = 12
      OBVIOUS
    <2> HIDE DEF eight, four
    <2>3. /\ head \in Seq(Octet) /\ Len(head) = eight + four
          /\ \A i \in 1..eight : head[i] = fixed[i]
      BY <2>1, Joined
    <2> HIDE DEF head
    <2>. QED
      BY <1>4, <2>2, <2>3
  <1> HIDE DEF head
  <1>7. /\ put \in Later(start) /\ Len(put.bytes) = Len(e.bytes)
        /\ \A i \in 1..Len(e.bytes) :
              put.bytes[i] = IF i \in 0 + 1..0 + 12 THEN head[i - 0] ELSE start.bytes[i]
    <2>1. start.offset + Len(head) <= Len(start.bytes)
      BY <1>1, <1>2, <1>6
    <2>2. /\ put \in Later(start) /\ Len(put.bytes) = Len(start.bytes)
          /\ \A i \in 1..Len(start.bytes) :
                put.bytes[i] = IF i \in start.offset + 1..start.offset + Len(head)
                               THEN head[i - start.offset] ELSE start.bytes[i]
      BY <1>2, <1>6, <2>1, PutKeeps, Zenon
    <2> HIDE DEF put
    <2>. QED
      BY <1>2, <1>6, <2>2
  <1> HIDE DEF put
  <1>8. put \in Encoders /\ put.little = e.little
    BY <1>2, <1>7, LaterIsEncoder DEF Later, Beyond
  <1>9. /\ g \in Encoders /\ g.offset = e.offset /\ g.bytes = put.bytes /\ g.little = e.little
    BY <1>1, <1>7, <1>8, Zenon DEF Encoders
  <1>10. /\ \A i \in 1..12 : put.bytes[i] = head[i]
         /\ \A i \in 13..Len(e.bytes) : put.bytes[i] = e.bytes[i]
    <2>1. \A i \in 1..12 : i \in 1..Len(e.bytes) /\ i \in 0 + 1..0 + 12 /\ i - 0 = i
      BY <1>1
    <2>2. \A i \in 13..Len(e.bytes) : i \in 1..Len(e.bytes) /\ i \notin 0 + 1..0 + 12
      BY <1>1
    <2>. QED
      BY <1>2, <1>7, <2>1, <2>2
  <1>11. put.bytes[6] = minor /\ put.bytes[7] = flag /\ put.bytes[8] = type
    <2>1. 6 \in 1..12 /\ 7 \in 1..12 /\ 8 \in 1..12
      OBVIOUS
    <2>. QED
      BY <1>6, <1>10, <2>1
  <1> HIDE DEF g
  <1>. QED
    BY <1>5, <1>7, <1>9, <1>10, <1>11 DEF flag

\* The octets begin with a header, and behind it with what the encoder holds.
Opens(w, c, minor, type) ==
    /\ BeginsWith(w, minor, c.little, type)
    /\ \A i \in 13..c.offset : i <= Len(w) => w[i] = c.bytes[i]

LEMMA MessageIs ==
    ASSUME NEW e \in Encoders, NEW minor \in Octet, NEW type \in Octet, e.offset >= 12
    PROVE  LET w == Message(SetGIOPHeader(e, minor, type))
           IN  w \in Seq(Octet) /\ Len(w) = e.offset /\ Opens(w, e, minor, type)
  <1> DEFINE g == SetGIOPHeader(e, minor, type)
             w == Slice(g, 0, g.offset)
  <1>1. /\ g \in Encoders /\ g.offset = e.offset /\ g.little = e.little
        /\ Len(g.bytes) = Len(e.bytes)
        /\ g.bytes[6] = minor /\ g.bytes[7] = (IF e.little THEN 1 ELSE 0)
        /\ g.bytes[8] = type
        /\ \A i \in 13..Len(e.bytes) : g.bytes[i] = e.bytes[i]
    BY HeaderOctets
  <1> HIDE DEF g
  <1>2. /\ w \in Seq(Octet) /\ Len(w) = g.offset
        /\ \A i \in 1..g.offset : w[i] = g.bytes[i]
    BY <1>1, SliceOfEncoder
  <1> HIDE DEF w
  <1>3. e.offset \in Nat /\ e.offset <= Len(e.bytes) /\ Len(e.bytes) \in Nat
    BY DEF Encoders
  <1>4. BeginsWith(w, minor, e.little, type)
    <2>1. 6 \in 1..g.offset /\ 7 \in 1..g.offset /\ 8 \in 1..g.offset
      BY <1>1, <1>3
    <2>. QED
      BY <1>1, <1>2, <2>1 DEF BeginsWith
  <1>5. \A i \in 13..e.offset : w[i] = e.bytes[i]
    <2>1. \A i \in 13..e.offset : i \in 1..g.offset /\ i \in 13..Len(e.bytes)
      BY <1>1, <1>3
    <2>. QED
      BY <1>1, <1>2, <2>1
  <1>6. Opens(w, e, minor, type)
    BY <1>4, <1>5 DEF Opens
  <1>. QED
    BY <1>1, <1>2, <1>6 DEF Message, g, w

\* The first piece of a message begins as the message does.
LEMMA CutOpens ==
    ASSUME NEW w \in Seq(Octet), NEW c \in Encoders, NEW minor, NEW type, Opens(w, c, minor, type),
           NEW n \in 0..Len(w)
    PROVE  LET bytes == SubSeq(w, 1, n)
           IN  bytes \in Seq(Octet) /\ Len(bytes) = n /\ Opens(bytes, c, minor, type)
  <1> DEFINE bytes == SubSeq(w, 1, n)
             from == 0
  <1>1. n \in Nat /\ n <= Len(w) /\ Len(w) \in Nat /\ c.offset \in Nat
    BY DEF Encoders
  <1>2. bytes \in Seq(Octet) /\ Len(bytes) = n /\ \A i \in 1..n : bytes[i] = w[i]
    OBVIOUS
  <1> HIDE DEF bytes
  <1>3. BeginsWith(bytes, minor, c.little, type)
    BY <1>1, <1>2 DEF BeginsWith, Opens
  <1>4. \A i \in 13..c.offset : i <= Len(bytes) => bytes[i] = c.bytes[i]
    BY <1>1, <1>2 DEF Opens
  <1>. QED
    BY <1>2, <1>3, <1>4 DEF Opens, bytes

Heading(minor, type) == [minor |-> minor, type |-> type]

\* The decoder is behind the header of the message; what follows is c's.
TakenFrom(d, v, c) ==
    /\ d \in Readers({v}) /\ d.offset = 12 /\ d.little = c.little
    /\ d.got = <<v>> /\ Value(d) = v
    /\ Matches(d, 12, c)

LEMMA Opened ==
    ASSUME NEW bytes \in Seq(Octet), NEW c \in Encoders, NEW minor \in Octet, NEW type \in Octet,
           Opens(bytes, c, minor, type), ScanGIOPHeader(Decoder(bytes)).ok
    PROVE  TakenFrom(ScanGIOPHeader(Decoder(bytes)), Heading(minor, type), c)
           /\ ScanGIOPHeader(Decoder(bytes)).bytes = bytes
  <1> DEFINE d == ScanGIOPHeader(Decoder(bytes))
             v == [minor |-> minor, type |-> type]
             order == c.little
  <1>1. order \in BOOLEAN /\ c.offset \in Nat
    BY DEF Encoders
  <1>2. BeginsWith(bytes, minor, order, type)
    BY DEF Opens
  <1> HIDE DEF order
  <1>3. /\ d \in Readers({v}) /\ d.offset = 12 /\ d.bytes = bytes /\ d.little = order
        /\ d.got = <<v>> /\ Value(d) = v
    BY <1>1, <1>2, GiopHeaderTaken, ZenonT(60)
  <1> HIDE DEF d
  <1>4. \A i \in 12 + 1..c.offset : i <= Len(d.bytes) => d.bytes[i] = c.bytes[i]
    BY <1>1, <1>3 DEF Opens
  <1>5. Matches(d, 12, c)
    BY <1>4 DEF Matches
  <1>. QED
    BY <1>3, <1>5 DEF d, order, TakenFrom, Heading
-----------------------------------------------------------------------------
(***************************************************************************)
(* What is put behind the header of the message.  The encoder skips ten    *)
(* octets of its twelve; the number that comes next is aligned.            *)
(***************************************************************************)
Behind(order) == [Encoder(order) EXCEPT !.offset = 12]

LEMMA StartsBehind ==
    ASSUME NEW order \in BOOLEAN
    PROVE  LET start == SkipGIOPHeader(Encoder(order))
           IN  /\ Behind(order) \in Encoders
               /\ Behind(order).offset = 12 /\ Behind(order).little = order
               /\ \A n \in Int : /\ PutUlong(start, n) = PutUlong(Behind(order), n)
                                 /\ PutUlong(start, n) \in Encoders
  <1> DEFINE enc == Encoder(order)
             start == SkipGIOPHeader(enc)
             b == Behind(order)
  <1>1. enc \in Encoders /\ enc.little = order
    BY NewEncoder
  <1>2. 12 <= Len(enc.bytes)
    BY InitialSizeAssumption, RoomAssumption DEF Encoder, InitialSizeAssumption, RoomAssumption
  <1>3. start = [enc EXCEPT !.offset = 10] /\ b = [enc EXCEPT !.offset = 12]
    BY DEF SkipGIOPHeader, Behind
  <1> HIDE DEF enc
  <1>5. ASSUME NEW n \in Int
        PROVE  /\ [enc EXCEPT !.offset = 12] \in Encoders
               /\ [enc EXCEPT !.offset = 12].offset = 12
               /\ [enc EXCEPT !.offset = 12].little = enc.little
               /\ PutUlong([enc EXCEPT !.offset = 10], n) = PutUlong([enc EXCEPT !.offset = 12], n)
    BY <1>1, <1>2, PutBehindSize, Zenon
  <1>4. 0 \in Int
    OBVIOUS
  <1> HIDE DEF start, b
  <1>6. b \in Encoders /\ b.offset = 12 /\ b.little = order
    BY <1>1, <1>3, <1>4, <1>5
  <1>7. ASSUME NEW n \in Int
        PROVE  PutUlong(start, n) = PutUlong(b, n) /\ PutUlong(start, n) \in Encoders
    <2>1. PutUlong(start, n) = PutUlong(b, n)
      BY <1>3, <1>5
    <2>2. PutUlong(b, n) \in Encoders
      BY <1>6, UlongKeeps
    <2>. QED
      BY <2>1, <2>2
  <1>. QED
    BY <1>6, <1>7 DEF enc, start, b

Flags(r, minor) == IF ~r.expected THEN 0 ELSE IF Early(minor) THEN 1 ELSE 3

LEMMA FlagsAreRead ==
    ASSUME NEW r \in Request, NEW minor
    PROVE  Flags(r, minor) \in Octet /\ ResponseExpected(Flags(r, minor), minor) = r.expected
  <1>1. r.expected \in BOOLEAN
    BY RequestAssumption DEF RequestAssumption
  <1>. QED
    BY <1>1 DEF Flags, ResponseExpected, Octet

\* In 1.0 and 1.1 the contexts come first.
LEMMA EarlyRequestPut ==
    ASSUME NEW order \in BOOLEAN, NEW r \in Request, NEW minor, Early(minor), NEW s \in Sender
    PROVE  \E m \in Nat : \E f :
               /\ IsList(f, Behind(order), m)
               /\ PutRequest(Encoder(order), minor, r, s)
                      = PutUlong(PutNames(f[m], r.id, Flags(r, minor), minor, r.key, r.method), 0)
  <1> DEFINE start == SkipGIOPHeader(Encoder(order))
             b == Behind(order)
             list == PutServiceContext(start, s)
             flags == IF r.expected THEN 1 ELSE 0
  <1>1. r.id \in Nat /\ r.expected \in BOOLEAN /\ r.key \in Seq(Octet) /\ r.method \in Seq(Octet)
    BY RequestAssumption DEF RequestAssumption
  <1>2. /\ b \in Encoders
        /\ \A n \in Int : PutUlong(start, n) = PutUlong(b, n)
    BY StartsBehind
  <1>3. PutRequest(Encoder(order), minor, r, s)
            = PutFields(list, EarlyFields(r.id, flags, r.key, r.method))
    BY Zenon DEF PutRequest, EarlyFields
  <1>4. flags = Flags(r, minor) /\ flags \in Octet
    BY DEF Flags, Octet
  <1> HIDE DEF start, b, flags
  <1>5. list = PutServiceContext(b, s)
    <2>1. 0 \in Int /\ 1 \in Int /\ 2 \in Int
      OBVIOUS
    <2>2. /\ PutUlong(start, 0) = PutUlong(b, 0) /\ PutUlong(start, 1) = PutUlong(b, 1)
          /\ PutUlong(start, 2) = PutUlong(b, 2)
      BY <1>2, <2>1
    <2>. QED
      BY <2>2 DEF PutServiceContext
  <1> HIDE DEF list
  <1>6a. PICK m \in Nat : \E f : IsList(f, b, m) /\ PutServiceContext(b, s) = f[m]
    BY <1>2, OwnContexts
  <1>6. PICK f : IsList(f, b, m) /\ PutServiceContext(b, s) = f[m]
    BY <1>6a
  <1>7. list \in Encoders
    <2>1. m \in 0..m
      OBVIOUS
    <2>2. f[m] \in Encoders
      BY <1>2, <1>6, <2>1, ListPut
    <2>. QED
      BY <1>5, <1>6, <2>2
  <1>8. PutUlong(list, r.id) \in Encoders
    <2>1. r.id \in Int
      BY <1>1
    <2>. QED
      BY <1>7, <2>1, UlongKeeps
  <1>9. PutRequest(Encoder(order), minor, r, s)
            = PutUlong(PutNames(list, r.id, flags, minor, r.key, r.method), 0)
    BY <1>1, <1>3, <1>4, <1>8, NamesAreFields
  <1>. QED
    BY <1>4, <1>5, <1>6, <1>9 DEF b

\* In 1.2 they come last, and the body is aligned.
LEMMA LateRequestPut ==
    ASSUME NEW order \in BOOLEAN, NEW r \in Request, NEW minor, ~Early(minor), NEW s \in Sender
    PROVE  \E m \in Nat : \E f :
               /\ IsList(f, PutNames(Behind(order), r.id, Flags(r, minor), minor, r.key, r.method), m)
               /\ PutRequest(Encoder(order), minor, r, s) = Reserve(f[m], 8)
  <1> DEFINE start == SkipGIOPHeader(Encoder(order))
             b == Behind(order)
             flags == IF r.expected THEN 3 ELSE 0
             fields == PutFields(start, LateFields(r.id, flags, r.key, r.method))
             names == PutNames(b, r.id, flags, minor, r.key, r.method)
  <1>1. r.id \in Nat /\ r.expected \in BOOLEAN /\ r.key \in Seq(Octet) /\ r.method \in Seq(Octet)
    BY RequestAssumption DEF RequestAssumption
  <1>2. /\ b \in Encoders
        /\ \A n \in Int : PutUlong(start, n) = PutUlong(b, n) /\ PutUlong(start, n) \in Encoders
    BY StartsBehind
  <1>3. PutRequest(Encoder(order), minor, r, s) = Reserve(PutServiceContext(fields, s), 8)
    BY Zenon DEF PutRequest, LateFields
  <1>4. flags = Flags(r, minor) /\ flags \in Octet
    BY DEF Flags, Octet
  <1>5. r.id \in Int
    BY <1>1
  <1> HIDE DEF start, b, flags
  <1>6. fields = PutNames(start, r.id, flags, minor, r.key, r.method)
    BY <1>1, <1>2, <1>4, <1>5, NamesAreFields
  <1>7. fields = names
    <2>1. PutUlong(start, r.id) = PutUlong(b, r.id)
      BY <1>2, <1>5
    <2>. QED
      BY <1>6, <2>1, Zenon DEF PutNames
  <1>8. names \in Encoders
    BY <1>1, <1>2, <1>4, <1>5, NamesAreLater, LaterIsEncoder
  <1> HIDE DEF fields, names
  <1>9a. PICK m \in Nat : \E f : IsList(f, names, m) /\ PutServiceContext(names, s) = f[m]
    BY <1>8, OwnContexts
  <1>9. PICK f : IsList(f, names, m) /\ PutServiceContext(names, s) = f[m]
    BY <1>9a
  <1>. QED
    BY <1>3, <1>4, <1>7, <1>9 DEF b, names
LEMMA ParametersKeep ==
    ASSUME NEW e \in Encoders, NEW fields \in Seq(Parameter)
    PROVE  PutFields(e, fields) \in Later(e) /\ PutFields(e, fields) \in Encoders
  <1>1. \A i \in 1..Len(fields) : fields[i] \in Parameter
    OBVIOUS
  <1>2. \A i \in 1..Len(fields) : FieldOK(fields[i])
    BY <1>1, ParameterFits
  <1>3. PutFields(e, fields) \in Later(e)
    BY <1>2, FieldsKeep
  <1>. QED
    BY <1>3, LaterIsEncoder

\* The header of the request, what precedes it, and what follows it.
LEMMA EarlyRequestIs ==
    ASSUME NEW order \in BOOLEAN, NEW r \in Request, NEW minor, Early(minor), NEW s \in Sender,
           NEW fields \in Seq(Parameter)
    PROVE  \E m \in Nat : \E f, c :
               /\ IsList(f, Behind(order), m)
               /\ c = PutUlong(PutNames(f[m], r.id, Flags(r, minor), minor, r.key, r.method), 0)
               /\ c \in Later(Behind(order)) /\ c \in Encoders
               /\ PutFields(PutRequest(Encoder(order), minor, r, s), fields) \in Later(c)
  <1> DEFINE b == Behind(order)
             flags == Flags(r, minor)
  <1>1. r.id \in Int /\ r.key \in Seq(Octet) /\ r.method \in Seq(Octet) /\ flags \in Octet
    BY FlagsAreRead, RequestAssumption DEF RequestAssumption
  <1>2. b \in Encoders
    BY StartsBehind
  <1>3a. PICK m \in Nat : \E f :
            /\ IsList(f, b, m)
            /\ PutRequest(Encoder(order), minor, r, s)
                   = PutUlong(PutNames(f[m], r.id, flags, minor, r.key, r.method), 0)
    BY EarlyRequestPut
  <1>3. PICK f :
            /\ IsList(f, b, m)
            /\ PutRequest(Encoder(order), minor, r, s)
                   = PutUlong(PutNames(f[m], r.id, flags, minor, r.key, r.method), 0)
    BY <1>3a
  <1> HIDE DEF b, flags
  <1> DEFINE l == f[m]
             n == PutNames(l, r.id, flags, minor, r.key, r.method)
             c == PutUlong(n, 0)
  <1>4. l \in Later(b) /\ l \in Encoders
    BY <1>2, <1>3, ListPut, LaterIsEncoder
  <1> HIDE DEF l
  <1>5. n \in Later(l) /\ n \in Encoders
    BY <1>1, <1>4, NamesAreLater, LaterIsEncoder
  <1> HIDE DEF n
  <1>6. c \in Later(n) /\ c \in Encoders
    <2>1. 0 \in Int
      OBVIOUS
    <2>. QED
      BY <1>5, <2>1, UlongKeeps
  <1> HIDE DEF c
  <1>7. c \in Later(b)
    <2>1. n \in Later(b)
      BY <1>2, <1>4, <1>5, LaterIsLater
    <2>. QED
      BY <1>2, <1>6, <2>1, LaterIsLater
  <1>8. PutRequest(Encoder(order), minor, r, s) = c
    BY <1>3 DEF c, n, l
  <1>9. PutFields(PutRequest(Encoder(order), minor, r, s), fields) \in Later(c)
    BY <1>6, <1>8, ParametersKeep
  <1>10. c = PutUlong(PutNames(f[m], r.id, flags, minor, r.key, r.method), 0)
    BY DEF c, n, l
  <1>. QED
    BY <1>3, <1>6, <1>7, <1>9, <1>10 DEF b, flags

LEMMA LateRequestIs ==
    ASSUME NEW order \in BOOLEAN, NEW r \in Request, NEW minor, ~Early(minor), NEW s \in Sender,
           NEW fields \in Seq(Parameter)
    PROVE  \E m \in Nat : \E f, c :
               /\ IsList(f, PutNames(Behind(order), r.id, Flags(r, minor), minor, r.key, r.method), m)
               /\ c = f[m]
               /\ c \in Later(Behind(order)) /\ c \in Encoders
               /\ PutFields(PutRequest(Encoder(order), minor, r, s), fields) \in Later(c)
  <1> DEFINE b == Behind(order)
             flags == Flags(r, minor)
             n == PutNames(b, r.id, flags, minor, r.key, r.method)
  <1>1. r.id \in Int /\ r.key \in Seq(Octet) /\ r.method \in Seq(Octet) /\ flags \in Octet
    BY FlagsAreRead, RequestAssumption DEF RequestAssumption
  <1>2. b \in Encoders
    BY StartsBehind
  <1>3a. PICK m \in Nat : \E f :
            /\ IsList(f, n, m)
            /\ PutRequest(Encoder(order), minor, r, s) = Reserve(f[m], 8)
    BY LateRequestPut
  <1>3. PICK f :
            /\ IsList(f, n, m)
            /\ PutRequest(Encoder(order), minor, r, s) = Reserve(f[m], 8)
    BY <1>3a
  <1> HIDE DEF b, flags
  <1>4. n \in Later(b) /\ n \in Encoders
    BY <1>1, <1>2, NamesAreLater, LaterIsEncoder
  <1> HIDE DEF n
  <1> DEFINE c == f[m]
             d == Reserve(c, 8)
  <1>5. c \in Later(n) /\ c \in Encoders
    BY <1>3, <1>4, ListPut, LaterIsEncoder
  <1>6. c \in Later(b)
    BY <1>2, <1>4, <1>5, LaterIsLater
  <1> HIDE DEF c
  <1>7. d \in Later(c) /\ d \in Encoders
    <2>1. 8 \in AlignWidth /\ 8 \in Nat
      BY DEF AlignWidth
    <2>2. ReserveVarying(c, 8, 8) \in Reserved(c, 8)
      BY <1>5, <2>1, VaryingReserves
    <2>3. d \in Later(c)
      BY <2>2 DEF Reserve, Reserved
    <2>. QED
      BY <1>5, <2>3, LaterIsEncoder
  <1>8. PutRequest(Encoder(order), minor, r, s) = d
    BY <1>3 DEF c
  <1> HIDE DEF d
  <1>9. PutFields(PutRequest(Encoder(order), minor, r, s), fields) \in Later(c)
    <2>1. PutFields(d, fields) \in Later(d)
      BY <1>7, ParametersKeep
    <2>2. PutFields(d, fields) \in Later(c)
      BY <1>5, <1>7, <2>1, LaterIsLater
    <2>. QED
      BY <1>8, <2>2
  <1>10. c = f[m]
    BY DEF c
  <1>. QED
    BY <1>3, <1>5, <1>6, <1>9, <1>10 DEF b, n, flags

TellsOf(h, r) == h.id = r.id /\ h.expected = r.expected /\ h.key = r.key /\ h.method = r.method

LEMMA NamingNames ==
    ASSUME NEW r \in Request, NEW minor, NEW h,
           Naming(h, r.id, Flags(r, minor), r.key, r.method, minor)
    PROVE  TellsOf(h, r)
  <1>1. ResponseExpected(Flags(r, minor), minor) = r.expected
    BY FlagsAreRead
  <1>. QED
    BY <1>1 DEF Naming, TellsOf

LEMMA RequestHeaderTaken ==
    ASSUME NEW order \in BOOLEAN, NEW r \in Request, r.id < UlongLimit, NEW minor, NEW s \in Sender,
           NEW p, p = PutFields(PutRequest(Encoder(order), minor, r, s), Arguments),
           p.offset < UlongLimit,
           NEW V, NEW d \in Readers(V), d.offset = 12, d.little = order, Matches(d, 12, p),
           ScanRequestHeader(d, minor).ok
    PROVE  \E h, x : TellsOf(h, r) /\ ScanRequestHeader(d, minor) = MovedTo(d, x, Append(d.got, h))
  <1> DEFINE b == Behind(order)
             flags == Flags(r, minor)
  <1>1. r.id \in Nat /\ r.key \in Seq(Octet) /\ r.method \in Seq(Octet) /\ flags \in Octet
    BY FlagsAreRead, RequestAssumption DEF RequestAssumption
  <1>2. b \in Encoders /\ d.offset = b.offset /\ d.little = b.little /\ b.offset = 12
    BY StartsBehind
  <1>3. Arguments \in Seq(Parameter)
    BY BodyAssumption DEF BodyAssumption
  <1> HIDE DEF b, flags
  <1>4. ASSUME NEW c \in Encoders, c \in Later(b), p \in Later(c)
        PROVE  Matches(d, b.offset, c) /\ c.offset < UlongLimit
    <2>1. 12 \in Nat /\ 12 >= 12
      OBVIOUS
    <2>2. Matches(d, 12, c)
      BY <1>4, <2>1, MatchesEarlier
    <2>3. c.offset \in Nat /\ p.offset \in Nat /\ c.offset <= p.offset
      BY <1>4, LaterOn
    <2>4. c.offset < UlongLimit
      BY <2>3, SMTT(30) DEF UlongLimit
    <2>. QED
      BY <1>2, <2>2, <2>4
  <1>5. CASE Early(minor)
    <2>1a. PICK m \in Nat : \E f, c :
              /\ IsList(f, b, m)
              /\ c = PutUlong(PutNames(f[m], r.id, flags, minor, r.key, r.method), 0)
              /\ c \in Later(b) /\ c \in Encoders
              /\ p \in Later(c)
      BY <1>3, <1>5, EarlyRequestIs DEF b, flags
    <2>1. PICK f, c :
              /\ IsList(f, b, m)
              /\ c = PutUlong(PutNames(f[m], r.id, flags, minor, r.key, r.method), 0)
              /\ c \in Later(b) /\ c \in Encoders
              /\ p \in Later(c)
      BY <2>1a
    <2>2. Matches(d, b.offset, c) /\ c.offset < UlongLimit
      BY <1>4, <2>1
    <2>3. \E h : /\ Naming(h, r.id, flags, r.key, r.method, minor)
                 /\ ScanRequestHeader(d, minor) = MovedTo(d, c.offset, Append(d.got, h))
      BY <1>1, <1>2, <1>5, <2>1, <2>2, EarlyHeaderTaken
    <2>. QED
      BY <2>3, NamingNames DEF flags
  <1>6. CASE ~Early(minor)
    <2> DEFINE n == PutNames(b, r.id, flags, minor, r.key, r.method)
    <2>1a. PICK m \in Nat : \E f, c :
              /\ IsList(f, n, m)
              /\ c = f[m]
              /\ c \in Later(b) /\ c \in Encoders
              /\ p \in Later(c)
      BY <1>3, <1>6, LateRequestIs DEF b, flags
    <2>1. PICK f, c :
              /\ IsList(f, n, m)
              /\ c = f[m]
              /\ c \in Later(b) /\ c \in Encoders
              /\ p \in Later(c)
      BY <2>1a
    <2>2. Matches(d, b.offset, c) /\ c.offset < UlongLimit
      BY <1>4, <2>1
    <2>4. n = PutNames(b, r.id, flags, minor, r.key, r.method)
      OBVIOUS
    <2> HIDE DEF n
    <2>5. HeaderTaken(d, minor, AlignedTo(c.offset, 8), r.id, flags, r.key, r.method)
      BY <1>1, <1>2, <1>6, <2>1, <2>2, <2>4, LateHeaderTaken
    <2>3. \E h : /\ Naming(h, r.id, flags, r.key, r.method, minor)
                 /\ ScanRequestHeader(d, minor)
                        = MovedTo(d, AlignedTo(c.offset, 8), Append(d.got, h))
      BY <2>5 DEF HeaderTaken
    <2>. QED
      BY <2>3, NamingNames DEF flags
  <1>. QED
    BY <1>5, <1>6
-----------------------------------------------------------------------------
(***************************************************************************)
(* What the receiver has scanned of a request, whole or cut.               *)
(***************************************************************************)
Right(d, r) ==
    d.ok => /\ d.got[2].id = r.id
            /\ d.got[1].type = MessageType.REQUEST => TellsOf(d.got[2], r)

LEMMA AppendedThree ==
    ASSUME NEW a, NEW b, NEW c, NEW s, s = Append(Append(<<a>>, b), c)
    PROVE  s[1] = a /\ s[2] = b /\ s[3] = c
  <1> DEFINE S == {a, b, c}
             t == <<a, b>>
  <1>1. t \in Seq(S) /\ Len(t) = 2 /\ t[1] = a /\ t[2] = b /\ c \in S
    OBVIOUS
  <1>2. s = Append(t, c)
    BY AppendedTwo
  <1> HIDE DEF S, t
  <1>3. /\ Len(s) = Len(t) + 1 /\ s[Len(t) + 1] = c
        /\ \A i \in 1..Len(t) : s[i] = t[i]
    BY <1>1, <1>2, Longer
  <1>. QED
    BY <1>1, <1>3

LEMMA GotThree ==
    ASSUME NEW V, NEW d \in Readers(V), NEW v, d.got = <<v>>, NEW x, NEW h, NEW w,
           NEW g, g = MovedTo(d, x, Append(d.got, h))
    PROVE  /\ Return(g, w).got[1] = v /\ Return(g, w).got[2] = h /\ Return(g, w).got[3] = w
  <1> DEFINE s == Append(Append(<<v>>, h), w)
             t == Append(d.got, h)
  <1>1. t = Append(<<v>>, h)
    OBVIOUS
  <1> HIDE DEF t
  <1>2. g.got = t
    BY DEF MovedTo, Readers, t
  <1>3. g = DecoderAt(x, d.bytes, d.little, d.encapStack, TRUE, t)
    BY ReaderSet DEF t
  <1>4. Return(g, w).got = Append(t, w)
    BY <1>3 DEF DecoderAt, Return
  <1>5. s[1] = v /\ s[2] = h /\ s[3] = w
    <2> HIDE DEF s
    <2>1. s = Append(Append(<<v>>, h), w)
      BY DEF s
    <2>. QED
      BY <2>1, AppendedThree
  <1>6. Return(g, w).got = s
    BY <1>1, <1>4
  <1> HIDE DEF s
  <1>. QED
    BY <1>5, <1>6

LEMMA ReturnedIsOK ==
    ASSUME NEW V, NEW d \in Readers(V), NEW x, NEW s, NEW w
    PROVE  Return(MovedTo(d, x, s), w).ok
  BY DEF Return, MovedTo, Readers

LEMMA RequestTaken ==
    ASSUME NEW order \in BOOLEAN, NEW r \in Request, r.id < UlongLimit, NEW minor \in Minor,
           NEW s \in Sender,
           NEW p, p = PutFields(PutRequest(Encoder(order), minor, r, s), Arguments),
           p \in Encoders, p.little = order, p.offset < UlongLimit,
           NEW bytes \in Seq(Octet), Opens(bytes, p, minor, MessageType.REQUEST)
    PROVE  Right(ScanRequest(bytes), r)
  <1> DEFINE d == ScanGIOPHeader(Decoder(bytes))
             type == MessageType.REQUEST
             v == Heading(minor, type)
             g == ScanRequestHeader(d, Value(d).minor)
             args == Read(GetFields([g EXCEPT !.got = <<>>], Types(Arguments)))
             scanned == ScanRequest(bytes)
  <1>1. minor \in Octet /\ type \in Octet
    BY BodyAssumption DEF BodyAssumption, Octet, MessageType
  <1>2. scanned = IF d.ok
                  THEN IF Value(d).type = type
                       THEN IF g.ok THEN Return(g, args) ELSE g
                       ELSE After(ScanLocateRequest(d, Value(d).minor), LAMBDA h : Return(h, <<>>))
                  ELSE d
    BY Zenon DEF ScanRequest, After
  <1> HIDE DEF scanned, d, type
  <1>3. SUFFICES ASSUME scanned.ok
                 PROVE  Right(scanned, r)
    BY DEF Right, scanned
  <1>4. d.ok
    BY <1>2, <1>3, Zenon
  <1>5. /\ d \in Readers({v}) /\ d.offset = 12 /\ d.little = order
        /\ d.got = <<v>> /\ Value(d) = v
        /\ Matches(d, 12, p)
    <2>1. TakenFrom(d, v, p)
      BY <1>1, <1>4, Opened DEF d, type
    <2>. QED
      BY <2>1 DEF TakenFrom
  <1>6. v.type = type /\ v.minor = minor
    BY DEF Heading
  <1> HIDE DEF g, args
  <1>7. scanned = IF g.ok THEN Return(g, args) ELSE g
    BY <1>2, <1>4, <1>5, <1>6
  <1>8. g.ok
    BY <1>3, <1>7
  <1>9. g = ScanRequestHeader(d, minor)
    BY <1>5, <1>6 DEF g
  <1> HIDE DEF v
  <1>10. PICK h, x : TellsOf(h, r) /\ g = MovedTo(d, x, Append(d.got, h))
    BY <1>5, <1>8, <1>9, RequestHeaderTaken
  <1>11. scanned.got[2] = h
    <2>1. Return(g, args).got[2] = h
      BY <1>5, <1>10, GotThree
    <2>. QED
      BY <1>7, <1>8, <2>1
  <1>. QED
    BY <1>10, <1>11 DEF Right, TellsOf

LEMMA Concatenated ==
    ASSUME NEW a, NEW b, NEW c
    PROVE  <<a>> \o <<>> \o <<c>> = <<a, c>> /\ <<a>> \o <<b>> \o <<c>> = <<a, b, c>>
  <1> DEFINE S == {a, b, c}
             s == <<a, b>>
             u == <<a, b, c>>
             w == Append(s, c)
             one == <<a>>
  <1>1. /\ s \in Seq(S) /\ Len(s) = 2 /\ s[1] = a /\ s[2] = b
        /\ u \in Seq(S) /\ Len(u) = 3 /\ u[1] = a /\ u[2] = b /\ u[3] = c
        /\ one \in Seq(S) /\ a \in S /\ b \in S /\ c \in S
    OBVIOUS
  <1>2. ASSUME NEW x, NEW y
        PROVE  <<x>> \o <<y>> = <<x, y>>
    <2> DEFINE T == {x, y}
               p == <<x>>
    <2>1. p \in Seq(T) /\ y \in T
      OBVIOUS
    <2>2. Append(p, y) = <<x, y>>
      BY AppendedTwo
    <2> HIDE DEF p, T
    <2>3. p \o <<y>> = <<x, y>>
      BY <2>1, <2>2, AppendIsConcat
    <2>. QED
      BY <2>3 DEF p
  <1> HIDE DEF S
  <1>3. one \o <<>> = one
    <2> HIDE DEF one
    <2>. QED
      BY <1>1, ConcatEmptySeq
  <1>4. s \o <<c>> = w
    <2> HIDE DEF s
    <2>. QED
      BY <1>1, AppendIsConcat
  <1>5. w = u
    <2> HIDE DEF s, u
    <2>1. w = Append(s, c)
      OBVIOUS
    <2> HIDE DEF w
    <2>2. /\ w \in Seq(S) /\ Len(w) = Len(s) + 1 /\ w[Len(s) + 1] = c
          /\ \A i \in 1..Len(s) : w[i] = s[i]
      BY <1>1, <2>1, Longer
    <2>3. w[1] = a /\ w[2] = b /\ w[3] = c /\ Len(w) = 3
      BY <1>1, <2>2
    <2>. QED
      BY <1>1, <2>2, <2>3, SameSequence
  <1>6. <<a>> \o <<>> \o <<c>> = <<a, c>>
    BY <1>2, <1>3
  <1>7. <<a>> \o <<b>> \o <<c>> = s \o <<c>>
    BY <1>2
  <1> HIDE DEF w
  <1>. QED
    BY <1>4, <1>5, <1>6, <1>7

LEMMA LocatePut ==
    ASSUME NEW order \in BOOLEAN, NEW r \in Request, NEW minor
    PROVE  LET p == PutFields(SkipGIOPHeader(Encoder(order)),
                        <<Field("ulong", r.id)>>
                        \o (IF Early(minor) THEN <<>> ELSE <<Field("ushort", KeyAddr)>>)
                        \o <<Field("blob", r.key)>>)
           IN  /\ p = PutKey(PutUlong(Behind(order), r.id), minor, r.key)
               /\ p \in Later(Behind(order)) /\ p \in Encoders
  <1> DEFINE start == SkipGIOPHeader(Encoder(order))
             b == Behind(order)
             u == PutUlong(b, r.id)
             fields == <<Field("ulong", r.id)>>
                       \o (IF Early(minor) THEN <<>> ELSE <<Field("ushort", KeyAddr)>>)
                       \o <<Field("blob", r.key)>>
             key == r.key
  <1>1. r.id \in Int /\ key \in Seq(Octet)
    BY RequestAssumption DEF RequestAssumption
  <1>2. b \in Encoders /\ PutUlong(start, r.id) = u
    BY <1>1, StartsBehind
  <1>3. u \in Later(b) /\ u \in Encoders
    BY <1>1, <1>2, UlongKeeps
  <1> HIDE DEF start, b, u, key
  <1>4. PutKey(u, minor, key) \in Later(b) /\ PutKey(u, minor, key) \in Encoders
    <2>1. PutKey(u, minor, key) \in Later(u) /\ PutKey(u, minor, key) \in Encoders
      BY <1>1, <1>3, KeyKeeps
    <2>. QED
      BY <1>2, <1>3, <2>1, LaterIsLater
  <1>5. /\ \A x, v : /\ PutField(x, Field("ulong", v)) = PutUlong(x, v)
                     /\ PutField(x, Field("ushort", v)) = PutUshort(x, v)
                     /\ PutField(x, Field("blob", v)) = PutBlob(x, v)
    BY PutFieldIs DEF Field
  <1>6. PutFields(start, fields) = PutKey(u, minor, key)
    <2>1. CASE Early(minor)
      <3>1. fields = <<Field("ulong", r.id), Field("blob", key)>>
        BY <2>1, Concatenated DEF key
      <3>2. PutFields(start, <<Field("ulong", r.id), Field("blob", key)>>) = PutBlob(u, key)
        BY <1>2, <1>5, TwoFieldsPut
      <3>. QED
        BY <2>1, <3>1, <3>2 DEF PutKey
    <2>2. CASE ~Early(minor)
      <3>1. fields = <<Field("ulong", r.id), Field("ushort", KeyAddr), Field("blob", key)>>
        BY <2>2, Concatenated DEF key
      <3>2. PutFields(start, <<Field("ulong", r.id), Field("ushort", KeyAddr), Field("blob", key)>>)
                = PutBlob(PutUshort(u, KeyAddr), key)
        BY <1>2, <1>5, ThreeFieldsPut
      <3>. QED
        BY <2>2, <3>1, <3>2 DEF PutKey
    <2>. QED
      BY <2>1, <2>2
  <1>. QED
    BY <1>4, <1>6 DEF start, b, u, key

LEMMA LocateRequestTaken ==
    ASSUME NEW order \in BOOLEAN, NEW r \in Request, r.id < UlongLimit, NEW minor \in Minor,
           NEW p, p = PutKey(PutUlong(Behind(order), r.id), minor, r.key),
           p \in Encoders, p.little = order, p.offset < UlongLimit,
           NEW bytes \in Seq(Octet), Opens(bytes, p, minor, MessageType.LOCATE_REQUEST)
    PROVE  Right(ScanRequest(bytes), r)
  <1> DEFINE d == ScanGIOPHeader(Decoder(bytes))
             type == MessageType.LOCATE_REQUEST
             v == Heading(minor, type)
             g == ScanLocateRequest(d, Value(d).minor)
             b == Behind(order)
             scanned == ScanRequest(bytes)
  <1>1. minor \in Octet /\ type \in Octet /\ type # MessageType.REQUEST
    BY BodyAssumption DEF BodyAssumption, Octet, MessageType
  <1>2. scanned = IF d.ok
                  THEN IF Value(d).type = MessageType.REQUEST
                       THEN After(ScanRequestHeader(d, Value(d).minor), LAMBDA h :
                             Return(h, Read(GetFields([h EXCEPT !.got = <<>>], Types(Arguments)))))
                       ELSE IF g.ok THEN Return(g, <<>>) ELSE g
                  ELSE d
    BY Zenon DEF ScanRequest, After
  <1> HIDE DEF scanned, d, type, b
  <1>3. SUFFICES ASSUME scanned.ok
                 PROVE  Right(scanned, r)
    BY DEF Right, scanned
  <1>4. d.ok
    BY <1>2, <1>3, Zenon
  <1>5. /\ d \in Readers({v}) /\ d.offset = 12 /\ d.little = order
        /\ d.got = <<v>> /\ Value(d) = v
        /\ Matches(d, 12, p)
    <2>1. TakenFrom(d, v, p)
      BY <1>1, <1>4, Opened DEF d, type
    <2>. QED
      BY <2>1 DEF TakenFrom
  <1>6. v.type = type /\ v.minor = minor
    BY DEF Heading
  <1> HIDE DEF g
  <1>7. scanned = IF g.ok THEN Return(g, <<>>) ELSE g
    BY <1>1, <1>2, <1>4, <1>5, <1>6, Zenon
  <1>8. g.ok
    BY <1>3, <1>7
  <1>9. g = ScanLocateRequest(d, minor)
    BY <1>5, <1>6 DEF g
  <1>12. r.id \in Nat /\ r.key \in Seq(Octet)
    BY RequestAssumption DEF RequestAssumption
  <1>13. /\ b \in Encoders /\ d.offset = b.offset /\ d.little = b.little /\ b.offset = 12
         /\ p = PutKey(PutUlong(b, r.id), minor, r.key)
    BY <1>5, StartsBehind DEF b
  <1> DEFINE first == v
  <1> HIDE DEF v, first
  <1>10. PICK h : h.id = r.id /\ g = MovedTo(d, p.offset, Append(d.got, h))
    <2>1. ScanLocateRequest(d, minor).ok
      BY <1>8, <1>9
    <2>2. LocateIs(d, minor, p.offset, r.id)
      BY <1>5, <1>12, <1>13, <2>1, LocateTaken
    <2>. QED
      BY <1>9, <2>2 DEF LocateIs
  <1>14. scanned.got[1] = v /\ scanned.got[2] = h
    <2> DEFINE none == <<>>
    <2>1. scanned = Return(g, none)
      BY <1>7, <1>8
    <2> HIDE DEF none
    <2>2. Return(g, none).got[1] = v /\ Return(g, none).got[2] = h
      BY <1>5, <1>10, GotThree
    <2>. QED
      BY <2>1, <2>2
  <1>15. v.type # MessageType.REQUEST
    BY <1>1, <1>6
  <1>. QED
    BY <1>10, <1>14, <1>15 DEF Right
-----------------------------------------------------------------------------
(***************************************************************************)
(* The body: fields that are all there are read as they were put.          *)
(***************************************************************************)
LEMMA FoldIsLater ==
    ASSUME NEW e \in Encoders, NEW S, NEW fields \in Seq(S),
           \A i \in 1..Len(fields) : FieldOK(fields[i]), NEW f, ByField!IsFold(f, e, fields, 0)
    PROVE  /\ \A i \in 0..Len(fields) : f[i] \in Encoders /\ f[i].offset \in Nat /\ f[i] \in Later(e)
           /\ \A i \in 0..Len(fields) : f[Len(fields)] \in Later(f[i])
  <1> DEFINE n == Len(fields)
  <1>1. n \in Nat
    OBVIOUS
  <1> HIDE DEF n
  <1>2. \A d \in Later(e) : \A i \in 1..Len(fields) : PutField(d, fields[i]) \in Later(e)
    BY LaterIsEncoder, FieldKeeps, LaterIsLater
  <1>3. e \in Later(e)
    BY NowIsLater
  <1>4. \A i \in 0..n : f[i] \in Later(e)
    BY <1>2, <1>3, ByField!FoldKeeps, Zenon DEF n
  <1>5. \A i \in 0..n : f[i] \in Encoders /\ f[i].offset \in Nat
    <2>1. \A i \in 0..n : f[i] \in Encoders
      BY <1>4, LaterIsEncoder
    <2>. QED
      BY <2>1 DEF Encoders
  <1>6. \A i \in 1..n : f[i] \in Later(f[i - 1])
    <2>1. ASSUME NEW i \in 1..n
          PROVE  f[i] \in Later(f[i - 1])
      <3>1. f[i] = PutField(f[i - 1], fields[i])
        BY DEF n, ByField!IsFold
      <3>2. i - 1 \in 0..n
        BY <1>1
      <3>3. f[i - 1] \in Encoders /\ FieldOK(fields[i])
        BY <1>5, <3>2 DEF n
      <3>. QED
        BY <3>1, <3>3, FieldKeeps
    <2>. QED
      BY <2>1
  <1> DEFINE T == {k \in Nat : k <= n => f[n] \in Later(f[n - k])}
  <1>7. 0 \in T
    <2>1. n \in 0..n /\ n - 0 = n
      BY <1>1
    <2>2. f[n] \in Later(f[n])
      BY <1>5, <2>1, NowIsLater
    <2>. QED
      BY <2>1, <2>2
  <1>8. ASSUME NEW k \in Nat, k \in T
        PROVE  k + 1 \in T
    <2>1. CASE k + 1 <= n
      <3>1. /\ n - k \in 1..n /\ (n - k) - 1 = n - (k + 1) /\ n - (k + 1) \in 0..n /\ n - k \in 0..n
            /\ k <= n
        BY <1>1, <2>1
      <3>2. f[n] \in Later(f[n - k])
        BY <1>8, <3>1
      <3>3. f[n - k] \in Later(f[n - (k + 1)])
        <4>1. f[n - k] \in Later(f[(n - k) - 1])
          BY <1>6, <3>1, Zenon
        <4>. QED
          BY <3>1, <4>1
      <3>4. f[n - (k + 1)] \in Encoders
        BY <1>5, <3>1
      <3>5. f[n] \in Later(f[n - (k + 1)])
        BY <3>2, <3>3, <3>4, LaterIsLater
      <3>. QED
        BY <3>5
    <2>. QED
      BY <2>1
  <1>9. Nat \subseteq T
    <2> HIDE DEF T
    <2>. QED
      BY <1>7, <1>8, ByNumber!Induct
  <1>10. ASSUME NEW i \in 0..n
         PROVE  f[n] \in Later(f[i])
    <2>1. n - i \in Nat /\ n - (n - i) = i /\ n - i <= n
      BY <1>1
    <2>2. n - i \in T
      BY <1>9, <2>1
    <2>. QED
      BY <2>1, <2>2
  <1>. QED
    BY <1>4, <1>5, <1>10 DEF n

\* The first i values of the fields.
FirstValues(fields, i) == [j \in 1..i |-> fields[j].v]

LEMMA ValuesAreFirst ==
    ASSUME NEW S, NEW fields \in Seq(S)
    PROVE  /\ FirstValues(fields, 0) = <<>>
           /\ FirstValues(fields, Len(fields)) = Values(fields)
           /\ \A i \in 0..Len(fields) : IsSeq(FirstValues(fields, i))
           /\ \A i \in 1..Len(fields) :
                 Append(FirstValues(fields, i - 1), fields[i].v) = FirstValues(fields, i)
  <1> DEFINE n == Len(fields)
             W == {fields[j].v : j \in 1..n}
             F(i) == FirstValues(fields, i)
  <1>1. n \in Nat /\ DOMAIN fields = 1..n
    OBVIOUS
  <1> HIDE DEF n
  <1>2. FirstValues(fields, 0) = <<>>
    <2>1. 1..0 = {}
      OBVIOUS
    <2>. QED
      BY <2>1 DEF FirstValues
  <1>3. F(n) = Values(fields)
    BY <1>1 DEF FirstValues, Values
  <1>4. \A j \in 1..n : fields[j].v \in W
    OBVIOUS
  <1> HIDE DEF W
  <1>5. ASSUME NEW i \in 0..n
        PROVE  F(i) \in Seq(W) /\ Len(F(i)) = i /\ \A j \in 1..i : F(i)[j] = fields[j].v
    <2>1. i \in Nat /\ \A j \in 1..i : j \in 1..n
      BY <1>1
    <2>2. F(i) \in [1..i -> W]
      BY <1>4, <2>1 DEF FirstValues
    <2>3. F(i) \in Seq(W)
      BY <2>1, <2>2
    <2>4. DOMAIN F(i) = 1..i
      BY DEF FirstValues
    <2>5. \A j \in 1..i : F(i)[j] = fields[j].v
      BY DEF FirstValues
    <2> HIDE DEF F
    <2>6. Len(F(i)) = i
      BY <2>1, <2>3, <2>4
    <2>. QED
      BY <2>3, <2>5, <2>6
  <1>6. ASSUME NEW i \in 0..n
        PROVE  IsSeq(F(i))
    BY <1>5 DEF IsSeq
  <1> HIDE DEF F
  <1>7. ASSUME NEW i \in 1..n
        PROVE  Append(F(i - 1), fields[i].v) = F(i)
    <2> DEFINE s == F(i - 1)
               v == fields[i].v
               w == Append(s, v)
               t == F(i)
    <2>1. i - 1 \in 0..n /\ i \in 0..n
      BY <1>1
    <2>2. s \in Seq(W) /\ Len(s) = i - 1 /\ \A j \in 1..i - 1 : s[j] = fields[j].v
      BY <1>5, <2>1
    <2>3. t \in Seq(W) /\ Len(t) = i /\ \A j \in 1..i : t[j] = fields[j].v
      BY <1>5, <2>1
    <2>4. v \in W
      BY <1>4
    <2>5. w = Append(s, v)
      OBVIOUS
    <2> HIDE DEF s, w, t
    <2>6. /\ w \in Seq(W) /\ Len(w) = Len(s) + 1 /\ w[Len(s) + 1] = v
          /\ \A j \in 1..Len(s) : w[j] = s[j]
      BY <2>2, <2>4, <2>5, Longer
    <2>7. Len(s) + 1 = i
      BY <2>2
    <2>8. \A j \in 1..i : w[j] = t[j]
      <3>1. \A j \in 1..i : j = i \/ j \in 1..i - 1
        OBVIOUS
      <3>. QED
        BY <2>2, <2>3, <2>6, <2>7, <3>1
    <2>9. w = t
      BY <2>3, <2>6, <2>7, <2>8, SameSequence
    <2>. QED
      BY <2>5, <2>9 DEF s, t
  <1>. QED
    BY <1>2, <1>3, <1>6, <1>7 DEF n, F

LEMMA BodyTaken ==
    ASSUME NEW V, NEW r \in Readers(V), r.got = <<>>, NEW e \in Encoders, r.offset = e.offset,
           r.little = e.little, NEW S, NEW fields \in Seq(S),
           \A i \in 1..Len(fields) : FieldFits(fields[i]),
           NEW c, c = PutFields(e, fields), c.offset < UlongLimit, c.offset <= Len(r.bytes),
           Matches(r, e.offset, c)
    PROVE  GetFields(r, Types(fields)) = MovedTo(r, c.offset, Values(fields))
  <1> DEFINE n == Len(fields)
             types == Types(fields)
             TS == {fields[i].type : i \in 1..n}
             F(i) == FirstValues(fields, i)
  <1>1. n \in Nat /\ DOMAIN fields = 1..n
    OBVIOUS
  <1>2. types \in Seq(TS) /\ Len(types) = n /\ \A i \in 1..n : types[i] = fields[i].type
    <2>1. types = [i \in 1..n |-> fields[i].type]
      BY <1>1 DEF Types
    <2>2. \A i \in 1..n : fields[i].type \in TS
      OBVIOUS
    <2> HIDE DEF types, TS, n
    <2>3. types \in [1..n -> TS]
      BY <2>1, <2>2
    <2>4. types \in Seq(TS)
      BY <1>1, <2>3
    <2>5. DOMAIN types = 1..n
      BY <2>1
    <2>6. Len(types) = n
      BY <1>1, <2>4, <2>5
    <2>. QED
      BY <2>1, <2>4, <2>6
  <1>3. \A i \in 1..n : FieldOK(fields[i])
    BY FieldFitsIsOK
  <1>4. PICK f : ByField!IsFold(f, e, fields, 0) /\ PutFields(e, fields) = f[Len(fields)]
    BY PutFieldsFold
  <1>5. PICK g : ByType!IsFold(g, r, types, 0) /\ GetFields(r, types) = g[Len(types)]
    BY <1>2, GetFieldsFold
  <1>6. /\ \A i \in 0..n : f[i] \in Encoders /\ f[i].offset \in Nat /\ f[i] \in Later(e)
        /\ \A i \in 0..n : f[n] \in Later(f[i])
    BY <1>3, <1>4, FoldIsLater
  <1>7. f[n] = c
    BY <1>4
  <1>8. /\ F(0) = <<>> /\ F(n) = Values(fields)
        /\ \A i \in 0..n : IsSeq(F(i))
        /\ \A i \in 1..n : Append(F(i - 1), fields[i].v) = F(i)
    BY ValuesAreFirst
  <1>9. \A i \in 1..n : f[i] = PutField(f[i - 1], fields[i])
    BY <1>4 DEF ByField!IsFold
  <1>10. g[0] = r /\ \A i \in 1..n : g[i] = GetField(g[i - 1], types[i])
    BY <1>2, <1>5 DEF ByType!IsFold
  <1>11. f[0] = e
    BY <1>4 DEF ByField!IsFold
  <1>12. \A i \in 1..n : FieldFits(fields[i])
    OBVIOUS
  <1> HIDE DEF n, types, TS, F
  <1> DEFINE T == {i \in Nat : i <= n => Track(g[i], r, f[i].offset, F(i))}
  <1>13. 0 \in T
    <2>1. Track(r, r, r.offset, r.got)
      BY TrackBegins
    <2>2. Track(g[0], r, f[0].offset, F(0))
      BY <1>8, <1>10, <1>11, <2>1
    <2>. QED
      BY <2>2
  <1>14. ASSUME NEW k \in Nat, k \in T
         PROVE  k + 1 \in T
    <2> DEFINE i == k + 1
    <2>1. CASE k + 1 <= n
      <3>1. i \in 1..n /\ i - 1 = k /\ k \in 0..n /\ i \in 0..n /\ k <= n
        BY <1>1, <2>1
      <3>2. Track(g[k], r, f[k].offset, F(k)) /\ IsSeq(F(k))
        BY <1>8, <1>14, <3>1
      <3>3. f[i] = PutField(f[k], fields[i]) /\ g[i] = GetField(g[k], fields[i].type)
            /\ F(i) = Append(F(k), fields[i].v)
        <4>1. f[i] = PutField(f[i - 1], fields[i])
          BY <1>9, <3>1, Zenon
        <4>2. g[i] = GetField(g[i - 1], types[i]) /\ types[i] = fields[i].type
          BY <1>2, <1>10, <3>1, Zenon
        <4>3. F(i) = Append(F(i - 1), fields[i].v)
          BY <1>8, <3>1, Zenon
        <4>. QED
          BY <3>1, <4>1, <4>2, <4>3
      <3>4. /\ f[k] \in Encoders /\ f[k] \in Later(e) /\ f[i] \in Later(e) /\ f[i] \in Encoders
            /\ c \in Later(f[i]) /\ c \in Later(f[k])
        BY <1>6, <1>7, <3>1
      <3> HIDE DEF i
      <3>5. f[i] \in Later(f[k])
        <4>1. FieldOK(fields[i])
          BY <1>12, <3>1, FieldFitsIsOK
        <4>. QED
          BY <3>3, <3>4, <4>1, FieldKeeps
      <3>6. Matches(r, f[k].offset, f[i])
        BY <3>4, <3>5, MatchesBetween
      <3>7. f[k].little = r.little /\ f[i].offset < UlongLimit
        <4>1. f[k].little = e.little
          BY <3>4, LaterOn
        <4>2. f[i].offset \in Nat /\ c.offset \in Nat /\ f[i].offset <= c.offset
          BY <3>4, LaterOn
        <4>3. f[i].offset < UlongLimit
          BY <4>2, SMTT(30) DEF UlongLimit
        <4>. QED
          BY <4>1, <4>3
      <3> DEFINE field == fields[i]
                 before == f[k]
                 after == f[i]
                 got == F(k)
                 d == g[k]
      <3>8. FieldFits(field)
        BY <1>12, <3>1
      <3>9. Track(g[i], r, f[i].offset, F(i))
        <4>1. /\ before \in Encoders /\ before.little = r.little /\ after = PutField(before, field)
              /\ after.offset < UlongLimit /\ Matches(r, before.offset, after) /\ IsSeq(got)
              /\ Track(d, r, before.offset, got)
          BY <3>2, <3>3, <3>4, <3>6, <3>7
        <4>2. g[i] = GetField(d, field.type) /\ F(i) = Append(got, field.v)
          BY <3>3
        <4> HIDE DEF field, before, after, got, d
        <4>3. Track(GetField(d, field.type), r, after.offset, Append(got, field.v))
          BY <3>8, <4>1, Tracked
        <4>. QED
          BY <4>2, <4>3 DEF after
      <3>. QED
        BY <3>9 DEF i
    <2>. QED
      BY <2>1
  <1>15. Nat \subseteq T
    <2> HIDE DEF T
    <2>. QED
      BY <1>13, <1>14, ByNumber!Induct
  <1>16. Track(g[n], r, c.offset, F(n))
    BY <1>1, <1>7, <1>15
  <1> HIDE DEF T
  <1>17. GetFields(r, types) = g[n]
    BY <1>2, <1>5
  <1>18. g[n] = MovedTo(r, c.offset, F(n))
    BY <1>16 DEF Track
  <1>. QED
    BY <1>8, <1>17, <1>18 DEF types
-----------------------------------------------------------------------------
(***************************************************************************)
(* The header of a reply.                                                  *)
(***************************************************************************)
TheReply(id, status) == [id |-> id, status |-> status]

ReplyIs(d, minor, offset, id, status) ==
    ScanReplyHeader(d, minor) = MovedTo(d, offset, Append(d.got, TheReply(id, status)))

LEMMA Repositioned ==
    ASSUME NEW V, NEW r \in Readers(V)
    PROVE  /\ \A p, s, got : [MovedTo(r, p, s) EXCEPT !.got = got] = MovedTo(r, p, got)
           /\ \A p, s : MovedTo(r, p, s).got = s /\ MovedTo(r, p, s).ok
           /\ \A got : [r EXCEPT !.got = got] = MovedTo(r, r.offset, got)
           /\ \A p, v : Advanced(r, p, v) = MovedTo(r, p, Append(r.got, v))
  <1>1. ASSUME NEW p, NEW s, NEW got
        PROVE  /\ [MovedTo(r, p, s) EXCEPT !.got = got] = MovedTo(r, p, got)
               /\ MovedTo(r, p, s).got = s /\ MovedTo(r, p, s).ok
    <2> DEFINE yes == TRUE
               m == MovedTo(r, p, s)
    <2>1. /\ m = DecoderAt(p, r.bytes, r.little, r.encapStack, yes, s)
          /\ MovedTo(r, p, got) = DecoderAt(p, r.bytes, r.little, r.encapStack, yes, got)
      BY ReaderSet
    <2>2. m.ok = yes
      <3> HIDE DEF m, yes
      <3>. QED
        BY <2>1 DEF DecoderAt
    <2>3. yes
      OBVIOUS
    <2> HIDE DEF m, yes
    <2>4. [m EXCEPT !.got = got] = MovedTo(r, p, got)
      BY <2>1 DEF DecoderAt
    <2>5. m.got = s
      BY <2>1 DEF DecoderAt
    <2>. QED
      BY <2>2, <2>3, <2>4, <2>5 DEF m
  <1>2. \A got : [r EXCEPT !.got = got] = MovedTo(r, r.offset, got)
    BY DEF Readers, MovedTo
  <1>3. \A p, v : Advanced(r, p, v) = MovedTo(r, p, Append(r.got, v))
    BY DEF Advanced, MovedTo
  <1>. QED
    BY <1>1, <1>2, <1>3

LEMMA TwoUlongsTaken ==
    ASSUME NEW V, NEW r \in Readers(V), NEW e \in Encoders, r.little = e.little,
           NEW a \in Nat, a < UlongLimit, NEW b \in Nat, b < UlongLimit,
           NEW c, c = PutUlong(PutUlong(e, a), b), c.offset < UlongLimit, Matches(r, e.offset, c),
           NEW z, z = GetFields(MovedTo(r, e.offset, <<>>), <<"ulong", "ulong">>), z.ok
    PROVE  z = MovedTo(r, c.offset, <<a, b>>)
  <1> DEFINE none == <<>>
             g == MovedTo(r, e.offset, none)
             u == PutUlong(e, a)
             y == GetField(g, "ulong")
  <1>1. z = GetField(y, "ulong")
    BY TwoFieldsRead
  <1>2. IsSeq(none)
    BY SequencesStay
  <1>3. Append(Append(none, a), b) = <<a, b>>
    BY AppendedTwo
  <1> HIDE DEF none
  <1>4. a \in Int /\ b \in Int /\ e.offset \in Nat
    BY DEF Encoders
  <1>5. u \in Later(e) /\ u \in Encoders
    BY <1>4, UlongKeeps
  <1>6. c = PutUlong(u, b)
    OBVIOUS
  <1> HIDE DEF u
  <1>7. c \in Later(u) /\ c \in Encoders
    BY <1>4, <1>5, <1>6, UlongKeeps
  <1>8. /\ u.offset \in Nat /\ c.offset \in Nat /\ u.offset <= c.offset
        /\ u.little = r.little
    <2>1. u.little = e.little /\ u.offset \in Nat
      BY <1>5, LaterOn
    <2>2. c.offset \in Nat /\ u.offset <= c.offset
      BY <1>5, <1>7, LaterOn
    <2>. QED
      BY <2>1, <2>2
  <1>9. u.offset < UlongLimit
    BY <1>8, SMTT(30) DEF UlongLimit
  <1>10. Matches(r, e.offset, u) /\ Matches(r, u.offset, c)
    <2>1. e \in Later(e) /\ c \in Later(c)
      BY <1>7, NowIsLater
    <2>. QED
      BY <1>5, <1>7, <2>1, MatchesBetween
  <1>11. Track(g, r, e.offset, none)
    <2>1. PICK S : g \in Readers(S)
      BY <1>2, <1>4, ReaderMovedTo
    <2>2. g.bytes = r.bytes /\ g.encapStack = r.encapStack
      BY <1>2, <1>4, ReaderMovedTo
    <2> HIDE DEF g
    <2>3. Alike(g, r)
      BY <2>1, <2>2, ReaderAlike
    <2>. QED
      BY <1>2, <2>3 DEF Track, g
  <1> HIDE DEF g
  <1>12. ASSUME NEW v, v \in Nat, v < UlongLimit
         PROVE  LET f == Field("ulong", v)
                IN  /\ FieldFits(f) /\ f.type = "ulong" /\ f.v = v /\ ~Silent(f.type)
                    /\ \A x : PutField(x, f) = PutUlong(x, v)
    <2> DEFINE f == Field("ulong", v)
    <2>1. f.type = "ulong" /\ f.v = v
      BY DEF Field
    <2> HIDE DEF f
    <2>2. FieldFits(f)
      BY <1>12, <2>1 DEF FieldFits
    <2>3. ~Silent(f.type)
      BY <2>1 DEF Silent
    <2>4. \A x : PutField(x, f) = PutUlong(x, v)
      BY <2>1, PutFieldIs
    <2>. QED
      BY <2>1, <2>2, <2>3, <2>4 DEF f
  <1>13. Track(y, r, u.offset, Append(none, a))
    <2> DEFINE f == Field("ulong", a)
    <2>1. FieldFits(f) /\ f.type = "ulong" /\ f.v = a /\ u = PutField(e, f)
      BY <1>12 DEF u
    <2> HIDE DEF f
    <2>2. e.little = r.little
      OBVIOUS
    <2>3. Track(GetField(g, f.type), r, u.offset, Append(none, f.v))
      BY <1>2, <1>9, <1>10, <1>11, <2>1, <2>2, Tracked
    <2>. QED
      BY <2>1, <2>3
  <1>14. IsSeq(Append(none, a))
    BY <1>2, SequencesStay
  <1> HIDE DEF y
  <1>15. /\ Track(z, r, c.offset, Append(Append(none, a), b))
         /\ c.offset > Len(r.bytes) => ~z.ok
    <2> DEFINE f == Field("ulong", b)
               got == Append(none, a)
    <2>1. FieldFits(f) /\ f.type = "ulong" /\ f.v = b /\ ~Silent(f.type) /\ c = PutField(u, f)
      BY <1>6, <1>12
    <2> HIDE DEF f, got
    <2>2. u.little = r.little
      BY <1>8
    <2>3. /\ Track(GetField(y, f.type), r, c.offset, Append(got, f.v))
          /\ ~Silent(f.type) /\ c.offset > Len(r.bytes) => ~GetField(y, f.type).ok
      <3>1. IsSeq(got) /\ Track(y, r, u.offset, got)
        BY <1>13, <1>14 DEF got
      <3>. QED
        BY <1>5, <1>10, <2>1, <2>2, <3>1, Tracked
    <2>. QED
      BY <1>1, <2>1, <2>3 DEF got
  <1>16. c.offset <= Len(r.bytes)
    <2>1. r.bytes \in Seq(Octet)
      BY DEF Readers
    <2>. QED
      BY <1>8, <1>15, <2>1
  <1>. QED
    BY <1>3, <1>15, <1>16 DEF Track

LEMMA ReturnedReply ==
    ASSUME NEW V, NEW r \in Readers(V), NEW p, NEW id, NEW status, NEW v, v = <<id, status>>
    PROVE  Return(MovedTo(r, p, r.got), [id |-> v[1], status |-> v[2]])
               = MovedTo(r, p, Append(r.got, TheReply(id, status)))
  <1> DEFINE h == [id |-> v[1], status |-> v[2]]
  <1>1. h = TheReply(id, status)
    BY DEF TheReply
  <1> HIDE DEF h
  <1>2. [MovedTo(r, p, r.got) EXCEPT !.got = r.got] = MovedTo(r, p, r.got)
    BY Repositioned
  <1>3. Return([MovedTo(r, p, r.got) EXCEPT !.got = r.got], h) = MovedTo(r, p, Append(r.got, h))
    BY ReturnMoved
  <1>. QED
    BY <1>1, <1>2, <1>3 DEF h

\* The service contexts come last.
LEMMA LateReplyTaken ==
    ASSUME NEW V, NEW r \in Readers(V), NEW e \in Encoders, r.offset = e.offset,
           r.little = e.little, NEW minor, ~Early(minor),
           NEW id \in Nat, id < UlongLimit, NEW status \in Nat, status < UlongLimit,
           NEW n, n = PutUlong(PutUlong(e, id), status),
           NEW m \in Nat, NEW f, IsList(f, n, m), NEW c, c = f[m],
           c.offset < UlongLimit, Matches(r, e.offset, c), ScanReplyHeader(r, minor).ok
    PROVE  ReplyIs(r, minor, c.offset, id, status)
  <1> DEFINE z == GetFields([r EXCEPT !.got = <<>>], <<"ulong", "ulong">>)
             d == [z EXCEPT !.got = r.got]
             g == GetServiceContext(d)
             scanned == ScanReplyHeader(r, minor)
  <1>1. scanned = IF z.ok
                  THEN IF g.ok
                       THEN Return([g EXCEPT !.got = r.got], [id |-> z.got[1], status |-> z.got[2]])
                       ELSE g
                  ELSE z
    BY Zenon DEF ScanReplyHeader, Scan, After
  <1> HIDE DEF scanned
  <1>2. z.ok /\ g.ok
    BY <1>1, Zenon DEF scanned
  <1>3. id \in Int /\ status \in Int
    OBVIOUS
  <1>4. n \in Later(e) /\ n \in Encoders
    <2>1. PutUlong(e, id) \in Later(e) /\ PutUlong(e, id) \in Encoders
      BY <1>3, UlongKeeps
    <2>2. n \in Later(PutUlong(e, id))
      BY <1>3, <2>1, UlongKeeps
    <2>. QED
      BY <2>1, <2>2, LaterIsLater, LaterIsEncoder
  <1>5. c \in Later(n) /\ c \in Encoders
    BY <1>4, ListPut, LaterIsEncoder
  <1>6. /\ n.offset \in Nat /\ c.offset \in Nat /\ n.offset <= c.offset
        /\ n.little = r.little
    <2>1. n.little = e.little /\ n.offset \in Nat
      BY <1>4, LaterOn
    <2>2. c.offset \in Nat /\ n.offset <= c.offset
      BY <1>4, <1>5, LaterOn
    <2>. QED
      BY <2>1, <2>2
  <1>7. n.offset < UlongLimit
    BY <1>6, SMTT(30) DEF UlongLimit
  <1>8. Matches(r, e.offset, n) /\ Matches(r, n.offset, c)
    <2>1. e \in Later(e) /\ c \in Later(c)
      BY <1>5, NowIsLater
    <2>. QED
      BY <1>4, <1>5, <2>1, MatchesBetween
  <1>9. z = MovedTo(r, n.offset, <<id, status>>)
    <2> DEFINE none == <<>>
    <2>1. [r EXCEPT !.got = none] = MovedTo(r, e.offset, none)
      <3> HIDE DEF none
      <3>1. [r EXCEPT !.got = none] = MovedTo(r, r.offset, none)
        BY Repositioned
      <3>. QED
        BY <3>1
    <2>2. z = GetFields(MovedTo(r, e.offset, <<>>), <<"ulong", "ulong">>)
      BY <2>1
    <2> HIDE DEF z
    <2>. QED
      BY <1>2, <1>7, <1>8, <2>2, TwoUlongsTaken
  <1> HIDE DEF z
  <1> DEFINE v == <<id, status>>
  <1>10. z.got = v /\ d = MovedTo(r, n.offset, r.got)
    <2> HIDE DEF v
    <2>1. z = MovedTo(r, n.offset, v)
      BY <1>9 DEF v
    <2>. QED
      BY <2>1, Repositioned
  <1> HIDE DEF d
  <1>11. d = [r EXCEPT !.offset = n.offset]
    BY <1>10 DEF MovedTo, Readers
  <1>12. /\ d \in Readers(V) /\ d.offset = n.offset /\ d.little = n.little /\ d.bytes = r.bytes
         /\ d.got = r.got
    BY <1>6, <1>11 DEF Readers
  <1>13. PICK x : g = Advanced(d, c.offset, x)
    <2>1. Matches(d, n.offset, c)
      BY <1>8, <1>12 DEF Matches
    <2>2. \E x : GetServiceContext(d) = Advanced(d, c.offset, x)
      BY <1>2, <1>4, <1>12, <2>1, ContextsTaken
    <2>. QED
      BY <2>2
  <1> HIDE DEF g
  <1>14. [g EXCEPT !.got = r.got] = MovedTo(r, c.offset, r.got)
    <2>1. g = MovedTo(d, c.offset, Append(d.got, x))
      BY <1>12, <1>13, Repositioned
    <2>2. [g EXCEPT !.got = r.got] = MovedTo(d, c.offset, r.got)
      BY <1>12, <2>1, Repositioned
    <2>3. MovedTo(d, c.offset, r.got) = MovedTo(r, c.offset, r.got)
      BY <1>11 DEF MovedTo
    <2>. QED
      BY <2>2, <2>3
  <1>15. scanned = Return(MovedTo(r, c.offset, r.got), [id |-> v[1], status |-> v[2]])
    <2> HIDE DEF v
    <2>. QED
      BY <1>1, <1>2, <1>10, <1>14, Zenon
  <1>16. scanned = MovedTo(r, c.offset, Append(r.got, TheReply(id, status)))
    <2>1. v = <<id, status>>
      OBVIOUS
    <2> HIDE DEF v
    <2>. QED
      BY <1>15, <2>1, ReturnedReply
  <1>. QED
    BY <1>16 DEF ReplyIs, scanned

\* The service contexts come first.
LEMMA EarlyReplyTaken ==
    ASSUME NEW V, NEW r \in Readers(V), NEW e \in Encoders, r.offset = e.offset,
           r.little = e.little, NEW minor, Early(minor),
           NEW id \in Nat, id < UlongLimit, NEW status \in Nat, status < UlongLimit,
           NEW m \in Nat, NEW f, IsList(f, e, m), NEW n, n = f[m],
           NEW c, c = PutUlong(PutUlong(n, id), status),
           c.offset < UlongLimit, Matches(r, e.offset, c), ScanReplyHeader(r, minor).ok
    PROVE  ReplyIs(r, minor, c.offset, id, status)
  <1> DEFINE g == GetServiceContext(r)
             z == GetFields([g EXCEPT !.got = <<>>], <<"ulong", "ulong">>)
             d == [z EXCEPT !.got = g.got]
             scanned == ScanReplyHeader(r, minor)
  <1>1. scanned = IF g.ok
                  THEN IF z.ok
                       THEN Return([d EXCEPT !.got = r.got], [id |-> z.got[1], status |-> z.got[2]])
                       ELSE z
                  ELSE g
    BY Zenon DEF ScanReplyHeader, Scan, After
  <1> HIDE DEF scanned
  <1>2. z.ok /\ g.ok
    BY <1>1, Zenon DEF scanned
  <1>3. id \in Int /\ status \in Int
    OBVIOUS
  <1>4. n \in Later(e) /\ n \in Encoders
    BY ListPut, LaterIsEncoder
  <1>5. c \in Later(n) /\ c \in Encoders
    <2>1. PutUlong(n, id) \in Later(n) /\ PutUlong(n, id) \in Encoders
      BY <1>3, <1>4, UlongKeeps
    <2>2. c \in Later(PutUlong(n, id))
      BY <1>3, <2>1, UlongKeeps
    <2>. QED
      BY <1>4, <2>1, <2>2, LaterIsLater, LaterIsEncoder
  <1>6. /\ n.offset \in Nat /\ c.offset \in Nat /\ n.offset <= c.offset
        /\ n.little = r.little
    <2>1. n.little = e.little /\ n.offset \in Nat
      BY <1>4, LaterOn
    <2>2. c.offset \in Nat /\ n.offset <= c.offset
      BY <1>4, <1>5, LaterOn
    <2>. QED
      BY <2>1, <2>2
  <1>7. n.offset < UlongLimit
    BY <1>6, SMTT(30) DEF UlongLimit
  <1>8. Matches(r, e.offset, n) /\ Matches(r, n.offset, c)
    <2>1. e \in Later(e) /\ c \in Later(c)
      BY <1>5, NowIsLater
    <2>. QED
      BY <1>4, <1>5, <2>1, MatchesBetween
  <1>9. PICK x : g = MovedTo(r, n.offset, Append(r.got, x))
    <2>1. \E x : GetServiceContext(r) = Advanced(r, n.offset, x)
      BY <1>2, <1>7, <1>8, ContextsTaken
    <2>. QED
      BY <2>1, Repositioned
  <1> HIDE DEF g
  <1> DEFINE v == <<id, status>>
  <1>10. z = MovedTo(r, c.offset, v)
    <2> DEFINE none == <<>>
    <2>1. [g EXCEPT !.got = none] = MovedTo(r, n.offset, none)
      <3> HIDE DEF none
      <3>. QED
        BY <1>9, Repositioned
    <2>2. z = GetFields(MovedTo(r, n.offset, <<>>), <<"ulong", "ulong">>)
      BY <2>1
    <2>3. r.little = n.little
      BY <1>6
    <2> HIDE DEF z
    <2>. QED
      BY <1>2, <1>4, <1>8, <2>2, <2>3, TwoUlongsTaken
  <1> HIDE DEF z
  <1>11. z.got = v /\ [d EXCEPT !.got = r.got] = MovedTo(r, c.offset, r.got)
    <2> HIDE DEF v
    <2>1. d = MovedTo(r, c.offset, g.got)
      BY <1>10, Repositioned
    <2> HIDE DEF d
    <2>2. [d EXCEPT !.got = r.got] = MovedTo(r, c.offset, r.got)
      BY <2>1, Repositioned
    <2>. QED
      BY <1>10, <2>2, Repositioned
  <1> HIDE DEF d
  <1>12. scanned = Return(MovedTo(r, c.offset, r.got), [id |-> v[1], status |-> v[2]])
    <2> HIDE DEF v
    <2>. QED
      BY <1>1, <1>2, <1>11, Zenon
  <1>13. scanned = MovedTo(r, c.offset, Append(r.got, TheReply(id, status)))
    <2>1. v = <<id, status>>
      OBVIOUS
    <2> HIDE DEF v
    <2>. QED
      BY <1>12, <2>1, ReturnedReply
  <1>. QED
    BY <1>13 DEF ReplyIs, scanned

LEMMA LocateReplyTaken ==
    ASSUME NEW V, NEW r \in Readers(V), NEW e \in Encoders, r.offset = e.offset,
           r.little = e.little,
           NEW id \in Nat, id < UlongLimit, NEW status \in Nat, status < UlongLimit,
           NEW c, c = PutUlong(PutUlong(e, id), status),
           c.offset < UlongLimit, Matches(r, e.offset, c), ScanLocateReply(r).ok
    PROVE  ScanLocateReply(r) = MovedTo(r, c.offset, Append(r.got, TheReply(id, status)))
  <1> DEFINE z == GetFields([r EXCEPT !.got = <<>>], <<"ulong", "ulong">>)
             d == [z EXCEPT !.got = r.got]
             scanned == ScanLocateReply(r)
             v == <<id, status>>
  <1>1. scanned = IF z.ok THEN Return(d, [id |-> z.got[1], status |-> z.got[2]]) ELSE z
    BY Zenon DEF ScanLocateReply, Scan, After
  <1> HIDE DEF scanned
  <1>2. z.ok
    BY <1>1, Zenon DEF scanned
  <1>3. z = MovedTo(r, c.offset, v)
    <2> DEFINE none == <<>>
    <2>1. [r EXCEPT !.got = none] = MovedTo(r, e.offset, none)
      <3> HIDE DEF none
      <3>1. [r EXCEPT !.got = none] = MovedTo(r, r.offset, none)
        BY Repositioned
      <3>. QED
        BY <3>1
    <2>2. z = GetFields(MovedTo(r, e.offset, <<>>), <<"ulong", "ulong">>)
      BY <2>1
    <2> HIDE DEF z
    <2>. QED
      BY <1>2, <2>2, TwoUlongsTaken
  <1> HIDE DEF z
  <1>4. z.got = v /\ d = MovedTo(r, c.offset, r.got)
    <2> HIDE DEF v
    <2>. QED
      BY <1>3, Repositioned
  <1> HIDE DEF d
  <1>5. v = <<id, status>>
    OBVIOUS
  <1> HIDE DEF v
  <1>6. scanned = Return(MovedTo(r, c.offset, r.got), [id |-> v[1], status |-> v[2]])
    BY <1>1, <1>2, <1>4, Zenon
  <1>7. scanned = MovedTo(r, c.offset, Append(r.got, TheReply(id, status)))
    BY <1>5, <1>6, ReturnedReply
  <1>. QED
    BY <1>7 DEF scanned
-----------------------------------------------------------------------------
(***************************************************************************)
(* What the caller has scanned of a reply that is all there.               *)
(***************************************************************************)
Answers(d, id, status, fields) ==
    d.ok => /\ d.got[2].id = id
            /\ d.got[2].status = status
            /\ d.got[3] = Values(fields)

ReplyHeaderOf(d, v) ==
    IF v.type = MessageType.REPLY THEN ScanReplyHeader(d, v.minor) ELSE ScanLocateReply(d)

ScannedReply(bytes, fields) ==
    After(ScanGIOPHeader(Decoder(bytes)), LAMBDA d :
        After(IF Value(d).type = MessageType.REPLY THEN ScanReplyHeader(d, Value(d).minor)
              ELSE ScanLocateReply(d), LAMBDA h :
            Return(h, Read(GetFields([h EXCEPT !.got = <<>>], Types(fields))))))

LEMMA ScannedIsScan ==
    ASSUME NEW bytes
    PROVE  ScanReply(bytes) = ScannedReply(bytes, replied.fields)
  BY DEF ScanReply, ScannedReply

LEMMA ReplyTaken ==
    ASSUME NEW bytes, NEW d, d = ScanGIOPHeader(Decoder(bytes)),
           NEW v, d \in Readers({v}), d.got = <<v>>, Value(d) = v, d.bytes = bytes,
           NEW id, NEW status, NEW b \in Encoders, b.little = d.little,
           ReplyHeaderOf(d, v).ok =>
               ReplyHeaderOf(d, v) = MovedTo(d, b.offset, Append(d.got, TheReply(id, status))),
           NEW S, NEW fields \in Seq(S), \A i \in 1..Len(fields) : FieldFits(fields[i]),
           NEW c, c = PutFields(b, fields), c.offset < UlongLimit, c.offset <= Len(bytes),
           Matches(d, b.offset, c)
    PROVE  Answers(ScannedReply(bytes, fields), id, status, fields)
  <1> DEFINE g == ReplyHeaderOf(d, v)
             y == [g EXCEPT !.got = <<>>]
             body == Read(GetFields(y, Types(fields)))
             scanned == ScannedReply(bytes, fields)
  <1>1. scanned = IF d.ok THEN IF g.ok THEN Return(g, body) ELSE g ELSE d
    BY Zenon DEF ScannedReply, After, ReplyHeaderOf
  <1> HIDE DEF scanned
  <1>2. SUFFICES ASSUME scanned.ok
                 PROVE  Answers(scanned, id, status, fields)
    BY DEF Answers, scanned
  <1>3. d.ok
    BY DEF Readers
  <1>4. g.ok /\ scanned = Return(g, body)
    BY <1>1, <1>2, <1>3, Zenon
  <1> DEFINE h == TheReply(id, status)
  <1>5. g = MovedTo(d, b.offset, Append(d.got, h))
    BY <1>4
  <1> HIDE DEF g, h
  <1> DEFINE none == <<>>
             first == <<v>>
  <1>6. y = MovedTo(d, b.offset, none)
    <2> HIDE DEF none
    <2>1. [g EXCEPT !.got = none] = MovedTo(d, b.offset, none)
      BY <1>5, Repositioned
    <2>. QED
      BY <2>1 DEF none
  <1>7. IsSeq(none)
    BY SequencesStay
  <1> HIDE DEF y
  <1>8. body = Values(fields)
    <2>1. b.offset \in Nat
      BY DEF Encoders
    <2> HIDE DEF none
    <2>2. PICK T : y \in Readers(T)
      BY <1>6, <1>7, <2>1, ReaderMovedTo
    <2>3. y.got = none /\ y.offset = b.offset /\ y.little = d.little /\ y.bytes = d.bytes
      BY <1>6, <1>7, <2>1, ReaderMovedTo
    <2>4. Matches(y, b.offset, c)
      BY <2>3 DEF Matches
    <2>5. y.got = <<>>
      BY <2>3 DEF none
    <2>6. y.offset = b.offset /\ y.little = b.little /\ c.offset <= Len(y.bytes)
      BY <2>3
    <2> DEFINE z == GetFields(y, Types(fields))
    <2>7. z = MovedTo(y, c.offset, Values(fields))
      BY <2>2, <2>4, <2>5, <2>6, BodyTaken
    <2> HIDE DEF z
    <2>8. z.ok /\ z.got = Values(fields)
      BY <2>2, <2>7, Repositioned
    <2>. QED
      BY <2>8 DEF Read, z
  <1> HIDE DEF body
  <1>9. scanned.got[2] = h /\ scanned.got[3] = body
    <2>1. Return(g, body).got[2] = h /\ Return(g, body).got[3] = body
      BY <1>5, GotThree
    <2>. QED
      BY <1>4, <2>1
  <1>10. h.id = id /\ h.status = status
    BY DEF h, TheReply
  <1>. QED
    BY <1>8, <1>9, <1>10 DEF Answers

LEMMA NotScanned ==
    ASSUME NEW bytes, ~ScanGIOPHeader(Decoder(bytes)).ok, NEW id, NEW status, NEW fields
    PROVE  Answers(ScannedReply(bytes, fields), id, status, fields)
  <1> DEFINE d == ScanGIOPHeader(Decoder(bytes))
             scanned == ScannedReply(bytes, fields)
  <1>1. scanned = IF d.ok
                  THEN After(IF Value(d).type = MessageType.REPLY THEN ScanReplyHeader(d, Value(d).minor)
                             ELSE ScanLocateReply(d), LAMBDA h :
                           Return(h, Read(GetFields([h EXCEPT !.got = <<>>], Types(fields)))))
                  ELSE d
    BY Zenon DEF ScannedReply, After
  <1>2. scanned = d
    BY <1>1
  <1> HIDE DEF scanned, d
  <1>3. ~scanned.ok
    BY <1>2 DEF d
  <1>. QED
    BY <1>3 DEF Answers, scanned

LEMMA SmallStatus ==
    /\ \A status \in 0..2 : status \in Nat /\ status < UlongLimit
    /\ ReplyStatus.NO_EXCEPTION \in 0..2 /\ ReplyStatus.SYSTEM_EXCEPTION \in 0..2
  <1>1. \A status \in 0..2 : status \in Nat /\ status < UlongLimit
    BY SMTT(30) DEF UlongLimit
  <1>2. ReplyStatus.NO_EXCEPTION \in 0..2 /\ ReplyStatus.SYSTEM_EXCEPTION \in 0..2
    BY DEF ReplyStatus
  <1>. QED
    BY <1>1, <1>2

\* Parameters whose numbers fit their type.
Small(fields) ==
    \A i \in 1..Len(fields) : fields[i].type = "ulong" => fields[i].v < UlongLimit

LEMMA SmallFits ==
    ASSUME NEW fields \in Seq(Parameter), Small(fields)
    PROVE  \A i \in 1..Len(fields) : FieldFits(fields[i])
  <1> TAKE i \in 1..Len(fields)
  <1>1. fields[i] \in Parameter
    OBVIOUS
  <1>. QED
    BY <1>1, ParameterFits DEF Small

(***************************************************************************)
(* The reply of another ORB.                                               *)
(***************************************************************************)
ReplyFields(id, status) == <<Field("ulong", id), Field("ulong", status)>>

PutContexts(e, contexts) == FoldLeft(PutPeerContext, PutUlong(e, Len(contexts)), contexts)

PutPeerHeader(order, minor, contexts, id, status) ==
    LET start == SkipGIOPHeader(Encoder(order))
    IN  IF Early(minor) THEN PutFields(PutContexts(start, contexts), ReplyFields(id, status))
        ELSE PutContexts(PutFields(start, ReplyFields(id, status)), contexts)

LEMMA ReplyFieldsPut ==
    ASSUME NEW e, NEW id, NEW status
    PROVE  PutFields(e, ReplyFields(id, status)) = PutUlong(PutUlong(e, id), status)
  <1>1. \A x, v : PutField(x, Field("ulong", v)) = PutUlong(x, v)
    BY PutFieldIs DEF Field
  <1>2. PutFields(e, ReplyFields(id, status))
            = PutField(PutField(e, Field("ulong", id)), Field("ulong", status))
    BY TwoFieldsPut DEF ReplyFields
  <1>. QED
    BY <1>1, <1>2

IsPeerHeader(h, b, minor, id, status) ==
    /\ Early(minor) => \E m \in Nat : \E f : /\ IsList(f, b, m)
                                             /\ h = PutUlong(PutUlong(f[m], id), status)
    /\ ~Early(minor) => \E m \in Nat : \E f : /\ IsList(f, PutUlong(PutUlong(b, id), status), m)
                                              /\ h = f[m]
    /\ h \in Later(b) /\ h \in Encoders

LEMMA PeerHeaderIs ==
    ASSUME NEW order \in BOOLEAN, NEW minor, NEW contexts \in PeerContexts,
           NEW id \in Nat, NEW status \in Nat,
           NEW h, h = PutPeerHeader(order, minor, contexts, id, status)
    PROVE  IsPeerHeader(h, Behind(order), minor, id, status)
  <1> DEFINE start == SkipGIOPHeader(Encoder(order))
             b == Behind(order)
             n == PutUlong(PutUlong(b, id), status)
             m == Len(contexts)
  <1>1. id \in Int /\ status \in Int /\ m \in Int /\ m \in Nat
    BY PeersContexts, StartsBehind
  <1>2. b \in Encoders
    BY StartsBehind
  <1>3. PutUlong(start, id) = PutUlong(b, id) /\ PutUlong(start, m) = PutUlong(b, m)
    BY <1>1, StartsBehind
  <1>4. h = IF Early(minor) THEN PutFields(PutContexts(start, contexts), ReplyFields(id, status))
            ELSE PutContexts(PutFields(start, ReplyFields(id, status)), contexts)
    BY DEF PutPeerHeader
  <1> HIDE DEF start, b, m
  <1>5. n \in Later(b) /\ n \in Encoders
    <2>1. PutUlong(b, id) \in Later(b) /\ PutUlong(b, id) \in Encoders
      BY <1>1, <1>2, UlongKeeps
    <2>2. n \in Later(PutUlong(b, id))
      BY <1>1, <2>1, UlongKeeps
    <2>. QED
      BY <1>2, <2>1, <2>2, LaterIsLater, LaterIsEncoder
  <1> HIDE DEF n
  <1>6. CASE Early(minor)
    <2>1. PICK f : IsList(f, b, m) /\ PutContexts(b, contexts) = f[m]
      BY <1>2, PeersContexts DEF PutContexts, m
    <2>2. PutContexts(start, contexts) = f[m]
      BY <1>3, <2>1 DEF PutContexts, m
    <2>3. h = PutUlong(PutUlong(f[m], id), status)
      BY <1>4, <1>6, <2>2, ReplyFieldsPut
    <2>4. f[m] \in Later(b) /\ f[m] \in Encoders
      BY <1>1, <1>2, <2>1, ListPut, LaterIsEncoder
    <2>5. PutUlong(f[m], id) \in Later(f[m]) /\ PutUlong(f[m], id) \in Encoders
      BY <1>1, <2>4, UlongKeeps
    <2>6. h \in Later(PutUlong(f[m], id)) /\ h \in Encoders
      BY <1>1, <2>3, <2>5, UlongKeeps
    <2>7. h \in Later(f[m])
      BY <2>4, <2>5, <2>6, LaterIsLater
    <2>8. h \in Later(b)
      BY <1>2, <2>4, <2>7, LaterIsLater
    <2>. QED
      BY <1>1, <1>6, <2>1, <2>3, <2>6, <2>8 DEF IsPeerHeader, b
  <1>7. CASE ~Early(minor)
    <2>1. PICK f : IsList(f, n, m) /\ PutContexts(n, contexts) = f[m]
      BY <1>5, PeersContexts DEF PutContexts, m
    <2>2. PutFields(start, ReplyFields(id, status)) = n
      BY <1>3, ReplyFieldsPut DEF n
    <2>3. h = f[m]
      BY <1>4, <1>7, <2>1, <2>2
    <2>4. h \in Later(n) /\ h \in Encoders
      BY <1>1, <1>5, <2>1, <2>3, ListPut, LaterIsEncoder
    <2>5. h \in Later(b)
      BY <1>2, <1>5, <2>4, LaterIsLater
    <2>. QED
      BY <1>1, <1>7, <2>1, <2>3, <2>4, <2>5 DEF IsPeerHeader, b, n
  <1>. QED
    BY <1>6, <1>7

LEMMA PeerReplyTaken ==
    ASSUME NEW order \in BOOLEAN, NEW minor \in Minor, NEW contexts \in PeerContexts,
           NEW id \in Nat, id < UlongLimit, NEW status \in 0..2,
           NEW fields \in Seq(Parameter), Small(fields),
           NEW e, e = PutFields(PutPeerHeader(order, minor, contexts, id, status), fields),
           NEW w, w = Message(SetGIOPHeader(e, minor, MessageType.REPLY)), e.offset < UlongLimit
    PROVE  Answers(ScannedReply(w, fields), id, status, fields)
  <1> DEFINE type == MessageType.REPLY
             d == ScanGIOPHeader(Decoder(w))
             v == Heading(minor, type)
             b == Behind(order)
             h == PutPeerHeader(order, minor, contexts, id, status)
  <1>1. minor \in Octet /\ type \in Octet
    BY BodyAssumption DEF BodyAssumption, Octet, MessageType
  <1>2. v.type = type /\ v.minor = minor
    BY DEF Heading
  <1>3. status \in Nat /\ status < UlongLimit
    BY SmallStatus
  <1>4. b \in Encoders /\ b.offset = 12 /\ b.little = order
    BY StartsBehind
  <1>5. /\ Early(minor) => \E m \in Nat : \E f : /\ IsList(f, b, m)
                                                 /\ h = PutUlong(PutUlong(f[m], id), status)
        /\ ~Early(minor) => \E m \in Nat : \E f : /\ IsList(f, PutUlong(PutUlong(b, id), status), m)
                                                  /\ h = f[m]
        /\ h \in Later(b) /\ h \in Encoders
    <2>1. h = PutPeerHeader(order, minor, contexts, id, status)
      OBVIOUS
    <2> HIDE DEF h
    <2>2. IsPeerHeader(h, b, minor, id, status)
      BY <1>3, <2>1, PeerHeaderIs
    <2> HIDE DEF b
    <2>. QED
      BY <2>2, Zenon DEF IsPeerHeader
  <1>6. e = PutFields(h, fields)
    OBVIOUS
  <1> HIDE DEF type, d, v, b, h
  <1>7. e \in Later(h) /\ e \in Encoders
    BY <1>5, <1>6, ParametersKeep
  <1>8. /\ h.offset \in Nat /\ e.offset \in Nat /\ 12 <= h.offset /\ h.offset <= e.offset
        /\ h.little = order /\ e.little = order
    <2>1. h.little = b.little /\ b.offset <= h.offset
      BY <1>4, <1>5, LaterOn
    <2>2. e.little = h.little /\ h.offset \in Nat /\ e.offset \in Nat /\ h.offset <= e.offset
      BY <1>5, <1>7, LaterOn
    <2>. QED
      BY <1>4, <2>1, <2>2
  <1>9. e.offset >= 12
    BY <1>8
  <1>10. h.offset < UlongLimit
    BY <1>8, SMTT(30) DEF UlongLimit
  <1>11. w \in Seq(Octet) /\ Len(w) = e.offset /\ Opens(w, e, minor, type)
    BY <1>1, <1>7, <1>9, MessageIs DEF type
  <1>12. CASE ~d.ok
    BY <1>12, NotScanned DEF d
  <1>13. CASE d.ok
    <2>1. TakenFrom(d, v, e) /\ d.bytes = w
      BY <1>1, <1>7, <1>11, <1>13, Opened DEF d, v
    <2>2. /\ d \in Readers({v}) /\ d.offset = 12 /\ d.little = order
          /\ d.got = <<v>> /\ Value(d) = v /\ Matches(d, 12, e)
      BY <1>8, <2>1 DEF TakenFrom
    <2> DEFINE first == <<v>>
    <2> HIDE DEF first
    <2>3. Matches(d, 12, h) /\ Matches(d, h.offset, e)
      <3>1. Matches(d, b.offset, e)
        BY <1>4, <2>2
      <3>2. b \in Later(b) /\ e \in Later(e)
        BY <1>4, <1>7, NowIsLater
      <3>3. Matches(d, b.offset, h) /\ Matches(d, h.offset, e)
        BY <1>4, <1>5, <1>7, <2>2, <3>1, <3>2, MatchesBetween
      <3>. QED
        BY <1>4, <3>3
    <2>4. ASSUME ScanReplyHeader(d, minor).ok
          PROVE  ReplyIs(d, minor, h.offset, id, status)
      <3>1. d.offset = b.offset /\ d.little = b.little /\ Matches(d, b.offset, h)
        BY <1>4, <2>2, <2>3
      <3>2. CASE Early(minor)
        <4>1a. PICK m \in Nat : \E f : IsList(f, b, m) /\ h = PutUlong(PutUlong(f[m], id), status)
          BY <1>5, <3>2
        <4>1. PICK f : IsList(f, b, m) /\ h = PutUlong(PutUlong(f[m], id), status)
          BY <4>1a
        <4>. QED
          BY <1>3, <1>4, <1>10, <2>2, <2>4, <3>1, <3>2, <4>1, EarlyReplyTaken
      <3>3. CASE ~Early(minor)
        <4>1a. PICK m \in Nat : \E f : IsList(f, PutUlong(PutUlong(b, id), status), m) /\ h = f[m]
          BY <1>5, <3>3
        <4>1. PICK f : IsList(f, PutUlong(PutUlong(b, id), status), m) /\ h = f[m]
          BY <4>1a
        <4>. QED
          BY <1>3, <1>4, <1>10, <2>2, <2>4, <3>1, <3>3, <4>1, LateReplyTaken
      <3>. QED
        BY <3>2, <3>3
    <2>5. ReplyHeaderOf(d, v).ok =>
              ReplyHeaderOf(d, v) = MovedTo(d, h.offset, Append(d.got, TheReply(id, status)))
      <3>1. ReplyHeaderOf(d, v) = ScanReplyHeader(d, minor)
        BY <1>2 DEF ReplyHeaderOf, type
      <3>. QED
        BY <2>4, <3>1 DEF ReplyIs
    <2>6. \A i \in 1..Len(fields) : FieldFits(fields[i])
      BY SmallFits
    <2>7. h.little = d.little /\ e.offset <= Len(w) /\ d = ScanGIOPHeader(Decoder(w))
      BY <1>8, <1>11, <2>2 DEF d
    <2>. QED
      BY <1>5, <1>6, <2>1, <2>2, <2>3, <2>5, <2>6, <2>7, ReplyTaken
  <1>. QED
    BY <1>12, <1>13
(***************************************************************************)
(* A locate reply.                                                         *)
(***************************************************************************)
LEMMA LocateReplyIs ==
    ASSUME NEW order \in BOOLEAN, NEW id \in Nat, NEW status \in 0..2,
           NEW e, e = PutLocateReply(Encoder(order), id, status)
    PROVE  /\ e = PutUlong(PutUlong(Behind(order), id), status)
           /\ e \in Later(Behind(order)) /\ e \in Encoders
           /\ e.offset \in Nat /\ e.offset >= 12 /\ e.little = order
  <1> DEFINE b == Behind(order)
             start == SkipGIOPHeader(Encoder(order))
  <1>1. status \in Int /\ id \in Int
    OBVIOUS
  <1>2. b \in Encoders /\ b.offset = 12 /\ b.little = order
    BY StartsBehind
  <1>3. PutUlong(start, id) = PutUlong(b, id)
    BY <1>1, StartsBehind
  <1>4. e = PutFields(start, ReplyFields(id, status))
    BY DEF PutLocateReply, ReplyFields
  <1> HIDE DEF start, b
  <1>5. e = PutUlong(PutUlong(b, id), status)
    BY <1>3, <1>4, ReplyFieldsPut
  <1>6. e \in Later(b) /\ e \in Encoders
    <2>1. PutUlong(b, id) \in Later(b) /\ PutUlong(b, id) \in Encoders
      BY <1>1, <1>2, UlongKeeps
    <2>2. e \in Later(PutUlong(b, id))
      BY <1>1, <1>5, <2>1, UlongKeeps
    <2>. QED
      BY <1>2, <2>1, <2>2, LaterIsLater, LaterIsEncoder
  <1>7. e.offset \in Nat /\ e.offset >= 12 /\ e.little = order
    <2>1. e.little = b.little /\ e.offset \in Nat /\ b.offset <= e.offset
      BY <1>2, <1>6, LaterOn
    <2>. QED
      BY <1>2, <2>1
  <1>. QED
    BY <1>5, <1>6, <1>7 DEF b

LEMMA LocateReplyAnswers ==
    ASSUME NEW order \in BOOLEAN, NEW id \in Nat, id < UlongLimit, NEW status \in 0..2,
           NEW e, e = PutLocateReply(Encoder(order), id, status),
           NEW w, w = Message(SetGIOPHeader(e, 2, MessageType.LOCATE_REPLY)), e.offset < UlongLimit
    PROVE  Answers(ScannedReply(w, <<>>), id, status, <<>>)
  <1> DEFINE type == MessageType.LOCATE_REPLY
             minor == 2
             d == ScanGIOPHeader(Decoder(w))
             v == Heading(minor, type)
             b == Behind(order)
  <1>1. minor \in Octet /\ type \in Octet /\ type # MessageType.REPLY
    BY DEF Octet, MessageType
  <1>2. v.type = type /\ v.minor = minor
    BY DEF Heading
  <1>3. status \in Nat /\ status < UlongLimit /\ status \in Int /\ id \in Int
    BY SmallStatus
  <1>4. b \in Encoders /\ b.offset = 12 /\ b.little = order
    BY StartsBehind
  <1>5. /\ e = PutUlong(PutUlong(b, id), status)
        /\ e \in Encoders
        /\ e.offset \in Nat /\ e.offset >= 12 /\ e.little = order
    BY LocateReplyIs
  <1>6. w = Message(SetGIOPHeader(e, minor, type))
    OBVIOUS
  <1> HIDE DEF type, minor, d, v, b
  <1>7. w \in Seq(Octet) /\ Len(w) = e.offset /\ Opens(w, e, minor, type)
    BY <1>1, <1>6, <1>5, MessageIs
  <1> DEFINE none == <<>>
  <1>8. PutFields(e, none) = e
    BY NoFields
  <1>9. none \in Seq({}) /\ Len(none) = 0
    OBVIOUS
  <1> HIDE DEF none
  <1>10. Answers(ScannedReply(w, none), id, status, none)
    <2>1. CASE ~d.ok
      BY <2>1, NotScanned DEF d
    <2>2. CASE d.ok
      <3>1. TakenFrom(d, v, e) /\ d.bytes = w
        BY <1>1, <1>5, <1>7, <2>2, Opened DEF d, v
      <3>2. /\ d \in Readers({v}) /\ d.offset = b.offset /\ d.little = order
            /\ d.got = <<v>> /\ Value(d) = v /\ Matches(d, b.offset, e)
        BY <1>4, <1>5, <3>1 DEF TakenFrom
      <3>3. ReplyHeaderOf(d, v).ok =>
                ReplyHeaderOf(d, v) = MovedTo(d, e.offset, Append(d.got, TheReply(id, status)))
        <4>1. ReplyHeaderOf(d, v) = ScanLocateReply(d)
          BY <1>1, <1>2 DEF ReplyHeaderOf
        <4> DEFINE first == <<v>>
        <4> HIDE DEF first
        <4>2. ASSUME ScanLocateReply(d).ok
              PROVE  ScanLocateReply(d) = MovedTo(d, e.offset, Append(d.got, TheReply(id, status)))
          <5>1. d.little = b.little
            BY <1>4, <3>2
          <5>. QED
            BY <1>3, <1>4, <1>5, <3>2, <4>2, <5>1, LocateReplyTaken
        <4>. QED
          BY <4>1, <4>2
      <3>4. \A i \in 1..Len(none) : FieldFits(none[i])
        BY <1>9
      <3>5. e.little = d.little /\ e.offset <= Len(w) /\ d = ScanGIOPHeader(Decoder(w))
        BY <1>5, <1>7, <3>2 DEF d
      <3>6. Matches(d, e.offset, e)
        BY <1>5 DEF Matches
      <3>. QED
        BY <1>5, <1>8, <1>9, <3>1, <3>2, <3>3, <3>4, <3>5, <3>6, ReplyTaken
    <2>. QED
      BY <2>1, <2>2
  <1>. QED
    BY <1>10 DEF none

(***************************************************************************)
(* The reply of corba.js: its header is put last, before the body and      *)
(* behind the header of the message.                                       *)
(***************************************************************************)
LEMMA AlignedStays ==
    ASSUME NEW n \in {12, 16, 20}
    PROVE  Aligned(n, 4) = n
  <1>1. Aligned(n, 4) \in Nat /\ Aligned(n, 4) >= n /\ Aligned(n, 4) < n + 4 /\ Aligned(n, 4) % 4 = 0
    BY AlignedUp DEF AlignWidth
  <1>. QED
    BY <1>1

HeaderPut(x, q, g, id, status) ==
    /\ x \in Encoders /\ x.offset = 12 /\ x.little = g.little
    /\ q = PutUlong(PutUlong(PutUlong(x, id), status), 0)
    /\ q \in Encoders /\ q.offset = 24 /\ q.little = g.little
    /\ q \in Later(x)
    /\ Len(q.bytes) >= Len(g.bytes)
    /\ \A i \in 1..Len(g.bytes) : i \notin 13..24 => q.bytes[i] = g.bytes[i]

\* Three numbers are put behind the size of the message, whatever else there is.
LEMMA ReplyHeaderPut ==
    ASSUME NEW g \in Encoders, NEW id \in Int, NEW status \in Int, 24 <= Len(g.bytes),
           NEW q, q = PutReply(g, 2, id, status)
    PROVE  HeaderPut([g EXCEPT !.offset = 12], q, g, id, status)
  <1> DEFINE x == [g EXCEPT !.offset = 12]
             a == PutUlong(x, id)
             b == PutUlong(a, status)
             c == PutUlong(b, 0)
  <1>1. Len(g.bytes) \in Nat /\ 12 <= Len(g.bytes)
    BY DEF Encoders
  <1>2. /\ x \in Encoders /\ x.offset = 12 /\ x.little = g.little /\ x.bytes = g.bytes
        /\ PutUlong(SkipGIOPHeader(g), id) = a
    BY <1>1, PutBehindSize DEF SkipGIOPHeader
  <1> HIDE DEF x
  <1>3. q = c
    <2>1. \A y, v : PutField(y, Field("ulong", v)) = PutUlong(y, v)
      BY PutFieldIs DEF Field
    <2>2. q = PutFields(SkipGIOPHeader(g), <<Field("ulong", id), Field("ulong", status), Field("ulong", 0)>>)
      BY DEF PutReply, Early
    <2>3. q = PutField(PutField(PutField(SkipGIOPHeader(g), Field("ulong", id)), Field("ulong", status)),
                       Field("ulong", 0))
      BY <2>2, ThreeFieldsPut
    <2>. QED
      BY <1>2, <2>1, <2>3
  <1>4. /\ a \in Later(x) /\ a \in Encoders /\ a.offset = 16
        /\ \A i \in 1..Len(x.bytes) : i \notin 13..16 => a.bytes[i] = x.bytes[i]
    <2>1. Aligned(12, 4) = 12
      BY AlignedStays
    <2>2. /\ a \in Later(x) /\ a \in Encoders /\ a.offset = Aligned(x.offset, 4) + 4
          /\ \A i \in 1..Len(x.bytes) :
                i \notin Aligned(x.offset, 4) + 1..Aligned(x.offset, 4) + 4 => a.bytes[i] = x.bytes[i]
      BY <1>2, UlongKeeps
    <2>. QED
      BY <1>2, <2>1, <2>2
  <1> HIDE DEF a
  <1>5. /\ b \in Later(a) /\ b \in Encoders /\ b.offset = 20
        /\ \A i \in 1..Len(a.bytes) : i \notin 17..20 => b.bytes[i] = a.bytes[i]
    <2>1. Aligned(16, 4) = 16
      BY AlignedStays
    <2>2. /\ b \in Later(a) /\ b \in Encoders /\ b.offset = Aligned(a.offset, 4) + 4
          /\ \A i \in 1..Len(a.bytes) :
                i \notin Aligned(a.offset, 4) + 1..Aligned(a.offset, 4) + 4 => b.bytes[i] = a.bytes[i]
      BY <1>4, UlongKeeps
    <2>. QED
      BY <1>4, <2>1, <2>2
  <1> HIDE DEF b
  <1>6. /\ c \in Later(b) /\ c \in Encoders /\ c.offset = 24
        /\ \A i \in 1..Len(b.bytes) : i \notin 21..24 => c.bytes[i] = b.bytes[i]
    <2>1. Aligned(20, 4) = 20
      BY AlignedStays
    <2>2. 0 \in Int
      OBVIOUS
    <2>3. /\ c \in Later(b) /\ c \in Encoders /\ c.offset = Aligned(b.offset, 4) + 4
          /\ \A i \in 1..Len(b.bytes) :
                i \notin Aligned(b.offset, 4) + 1..Aligned(b.offset, 4) + 4 => c.bytes[i] = b.bytes[i]
      BY <1>5, <2>2, UlongKeeps
    <2>. QED
      BY <1>5, <2>1, <2>3
  <1> HIDE DEF c
  <1>7. c \in Later(x)
    BY <1>2, <1>4, <1>5, <1>6, LaterIsLater
  <1>8. c.little = g.little
    BY <1>2, <1>7, LaterOn
  <1>9. Len(x.bytes) <= Len(a.bytes) /\ Len(a.bytes) <= Len(b.bytes) /\ Len(b.bytes) <= Len(c.bytes)
    <2>1. Len(a.bytes) >= Len(x.bytes)
      BY <1>4 DEF Later, Beyond
    <2>2. Len(b.bytes) >= Len(a.bytes)
      BY <1>5 DEF Later, Beyond
    <2>3. Len(c.bytes) >= Len(b.bytes)
      BY <1>6 DEF Later, Beyond
    <2>4. Len(x.bytes) \in Nat /\ Len(a.bytes) \in Nat /\ Len(b.bytes) \in Nat /\ Len(c.bytes) \in Nat
      BY <1>2, <1>4, <1>5, <1>6 DEF Encoders
    <2>. QED
      BY <2>1, <2>2, <2>3, <2>4
  <1>10. Len(a.bytes) \in Nat /\ Len(b.bytes) \in Nat /\ Len(c.bytes) \in Nat
    BY <1>4, <1>5, <1>6 DEF Encoders
  <1>11. ASSUME NEW i \in 1..Len(g.bytes), i \notin 13..24
         PROVE  c.bytes[i] = g.bytes[i]
    <2>1. i \in 1..Len(a.bytes) /\ i \in 1..Len(b.bytes) /\ i \notin 13..16 /\ i \notin 17..20
          /\ i \notin 21..24
      BY <1>1, <1>2, <1>9, <1>10, <1>11
    <2>2. a.bytes[i] = g.bytes[i]
      BY <1>2, <1>4, <1>11, <2>1
    <2>3. b.bytes[i] = a.bytes[i]
      BY <1>5, <2>1
    <2>4. c.bytes[i] = b.bytes[i]
      BY <1>6, <2>1
    <2>. QED
      BY <2>2, <2>3, <2>4
  <1>12. Len(c.bytes) >= Len(g.bytes)
    BY <1>1, <1>2, <1>9, <1>10
  <1>. QED
    BY <1>2, <1>3, <1>6, <1>7, <1>8, <1>11, <1>12 DEF a, b, c, x, HeaderPut
\* The body is put behind where the header of the reply will be.
LEMMA BodyPut ==
    ASSUME NEW enc \in Encoders, 24 <= Len(enc.bytes), NEW fields \in Seq(Parameter)
    PROVE  LET b == SkipReplyHeader(enc)
               e == PutFields(b, fields)
           IN  /\ b \in Encoders /\ b.offset = 24
               /\ e \in Later(b) /\ e \in Encoders
               /\ e.offset \in Nat /\ e.offset >= 24 /\ e.little = b.little
               /\ e.offset <= Len(e.bytes) /\ Len(e.bytes) \in Nat
  <1> DEFINE b == SkipReplyHeader(enc)
             e == PutFields(b, fields)
  <1>1. b = [enc EXCEPT !.offset = 24]
    BY DEF SkipReplyHeader
  <1>2. b \in Encoders /\ b.offset = 24
    <2> DEFINE k == [enc EXCEPT !.offset = 24]
    <2>1. k \in Encoders /\ k.offset = 24
      BY DEF Encoders
    <2> HIDE DEF k, b
    <2>. QED
      BY <1>1, <2>1 DEF k
  <1> HIDE DEF b
  <1>3. e \in Later(b) /\ e \in Encoders
    BY <1>2, ParametersKeep
  <1> HIDE DEF e
  <1>4. e.offset \in Nat /\ b.offset <= e.offset /\ e.little = b.little
    BY <1>2, <1>3, LaterOn
  <1>5. e.offset <= Len(e.bytes) /\ Len(e.bytes) \in Nat
    BY <1>3 DEF Encoders
  <1>. QED
    BY <1>2, <1>3, <1>4, <1>5 DEF b, e

IsOwnReply(w, e, x, q, p, id, status) ==
    /\ x \in Encoders /\ x.offset = 12 /\ x.little = e.little
    /\ q = PutUlong(PutUlong(PutUlong(x, id), status), 0)
    /\ q \in Encoders /\ q.offset = 24 /\ q \in Later(x)
    /\ p \in Encoders /\ p.offset = e.offset /\ p.little = e.little /\ p.bytes = q.bytes
    /\ w \in Seq(Octet) /\ Len(w) = e.offset /\ Opens(w, p, 2, MessageType.REPLY)
    /\ \A i \in 25..e.offset : q.bytes[i] = e.bytes[i]

\* The octets of a reply: the header of the message, that of the reply, the body.
LEMMA OwnReplyIs ==
    ASSUME NEW enc \in Encoders, 24 <= Len(enc.bytes), NEW status \in Int,
           NEW fields \in Seq(Parameter), seen.id \in Int,
           NEW w, w = SendReply(enc, status, fields)
    PROVE  \E x, q, p : IsOwnReply(w, PutFields(SkipReplyHeader(enc), fields), x, q, p, seen.id, status)
  <1> DEFINE id == seen.id
             type == MessageType.REPLY
             minor == 2
             b == SkipReplyHeader(enc)
             e == PutFields(b, fields)
             g == SetGIOPHeader(e, minor, type)
             q == PutReply(g, 2, id, status)
             x == [g EXCEPT !.offset = 12]
             p == [q EXCEPT !.offset = e.offset]
  <1>1. w = Slice(q, 0, e.offset)
    BY Zenon DEF SendReply
  <1>2. minor \in Octet /\ type \in Octet
    BY DEF Octet, MessageType
  <1>3. /\ b \in Encoders /\ e \in Encoders
        /\ e.offset \in Nat /\ e.offset >= 24 /\ e.little = b.little
        /\ e.offset <= Len(e.bytes) /\ Len(e.bytes) \in Nat
    BY BodyPut
  <1> HIDE DEF b, e, type, minor
  <1>4. /\ g \in Encoders /\ g.offset = e.offset /\ g.little = e.little
        /\ Len(g.bytes) = Len(e.bytes)
        /\ g.bytes[6] = minor /\ g.bytes[7] = (IF e.little THEN 1 ELSE 0)
        /\ g.bytes[8] = type
        /\ \A i \in 13..Len(e.bytes) : g.bytes[i] = e.bytes[i]
    <2>1. e.offset >= 12
      BY <1>3
    <2>. QED
      BY <1>2, <1>3, <2>1, HeaderOctets
  <1> HIDE DEF g
  <1>5. /\ x \in Encoders /\ x.offset = 12 /\ x.little = g.little
        /\ q = PutUlong(PutUlong(PutUlong(x, id), status), 0)
        /\ q \in Encoders /\ q.offset = 24 /\ q.little = g.little
        /\ q \in Later(x)
        /\ Len(q.bytes) >= Len(g.bytes)
        /\ \A i \in 1..Len(g.bytes) : i \notin 13..24 => q.bytes[i] = g.bytes[i]
    <2>1. 24 <= Len(g.bytes)
      BY <1>3, <1>4
    <2>2. q = PutReply(g, 2, id, status) /\ id \in Int
      OBVIOUS
    <2> HIDE DEF q, id
    <2>3. HeaderPut(x, q, g, id, status)
      BY <1>4, <2>1, <2>2, ReplyHeaderPut
    <2> HIDE DEF x
    <2>. QED
      BY <2>3 DEF HeaderPut
  <1> HIDE DEF q, x
  <1>6. Len(q.bytes) \in Nat /\ e.offset <= Len(q.bytes)
    <2>1. Len(q.bytes) \in Nat
      BY <1>5 DEF Encoders
    <2>. QED
      BY <1>3, <1>4, <1>5, <2>1
  <1>7. p \in Encoders /\ p.offset = e.offset /\ p.little = e.little /\ p.bytes = q.bytes
    <2>1. p \in Encoders
      BY <1>3, <1>5, <1>6 DEF Encoders
    <2>2. p.offset = e.offset /\ p.little = q.little /\ p.bytes = q.bytes
      BY <1>5 DEF Encoders
    <2>. QED
      BY <1>4, <1>5, <2>1, <2>2
  <1>8. w = Slice(p, 0, p.offset)
    BY <1>1, <1>7 DEF Slice
  <1> HIDE DEF p
  <1>9. w \in Seq(Octet) /\ Len(w) = e.offset /\ \A i \in 1..e.offset : w[i] = q.bytes[i]
    <2>1. /\ Slice(p, 0, p.offset) \in Seq(Octet) /\ Len(Slice(p, 0, p.offset)) = p.offset
          /\ \A i \in 1..p.offset : Slice(p, 0, p.offset)[i] = p.bytes[i]
      BY <1>7, SliceOfEncoder
    <2>. QED
      BY <1>7, <1>8, <2>1
  <1>10. BeginsWith(w, minor, p.little, type)
    <2>1. ASSUME NEW i \in {6, 7, 8}
          PROVE  w[i] = g.bytes[i]
      <3>1. i \in 1..e.offset /\ i \in 1..Len(g.bytes) /\ i \notin 13..24
        BY <1>3, <1>4
      <3>. QED
        BY <1>5, <1>9, <3>1
    <2>2. w[6] = minor /\ w[7] = (IF e.little THEN 1 ELSE 0) /\ w[8] = type
      BY <1>4, <2>1
    <2>. QED
      BY <1>7, <2>2 DEF BeginsWith
  <1>11. Opens(w, p, minor, type)
    <2>1. \A i \in 13..p.offset : w[i] = p.bytes[i]
      BY <1>3, <1>7, <1>9
    <2>. QED
      BY <1>10, <2>1 DEF Opens
  <1>12. \A i \in 25..e.offset : q.bytes[i] = e.bytes[i]
    <2>1. Len(g.bytes) = Len(e.bytes) /\ e.offset <= Len(e.bytes) /\ Len(e.bytes) \in Nat
      BY <1>3, <1>4
    <2>2. e.offset \in Nat
      BY <1>3 DEF Encoders
    <2>3. ASSUME NEW i \in 25..e.offset
          PROVE  q.bytes[i] = e.bytes[i]
      <3>1. i \in 1..Len(g.bytes) /\ i \notin 13..24 /\ i \in 13..Len(e.bytes)
        BY <2>1, <2>2
      <3>2. q.bytes[i] = g.bytes[i]
        BY <1>5, <3>1
      <3>3. g.bytes[i] = e.bytes[i]
        BY <1>4, <3>1
      <3>. QED
        BY <3>2, <3>3
    <2>. QED
      BY <2>3
  <1>13. x.little = e.little
    BY <1>4, <1>5
  <1>14. IsOwnReply(w, e, x, q, p, id, status)
    BY <1>5, <1>7, <1>9, <1>11, <1>12, <1>13 DEF IsOwnReply, minor, type
  <1>. QED
    BY <1>14 DEF b, e, id

LEMMA OwnReplyTaken ==
    ASSUME NEW enc \in Encoders, 24 <= Len(enc.bytes), NEW status \in 0..2,
           NEW fields \in Seq(Parameter), Small(fields), seen.id \in Nat, seen.id < UlongLimit,
           NEW w, w = SendReply(enc, status, fields), Len(w) < UlongLimit
    PROVE  Answers(ScannedReply(w, fields), seen.id, status, fields)
  <1> DEFINE id == seen.id
             type == MessageType.REPLY
             minor == 2
             d == ScanGIOPHeader(Decoder(w))
             v == Heading(minor, type)
             b == SkipReplyHeader(enc)
             e == PutFields(b, fields)
  <1>1. minor \in Octet /\ type \in Octet /\ ~Early(minor)
    BY DEF Octet, MessageType, Early
  <1>2. v.type = type /\ v.minor = minor
    BY DEF Heading
  <1>3. status \in Nat /\ status < UlongLimit /\ status \in Int /\ id \in Int
    BY SmallStatus
  <1>4. /\ b \in Encoders /\ b.offset = 24
        /\ e \in Later(b) /\ e \in Encoders
        /\ e.offset \in Nat /\ e.offset >= 24 /\ e.little = b.little
    BY BodyPut
  <1>5. PICK x, q, p : IsOwnReply(w, e, x, q, p, id, status)
    <2>1. e = PutFields(SkipReplyHeader(enc), fields)
      OBVIOUS
    <2> HIDE DEF e
    <2>. QED
      BY <1>3, <2>1, OwnReplyIs
  <1>6. p \in Encoders /\ p.offset = e.offset /\ p.little = e.little /\ p.bytes = q.bytes
    BY <1>5 DEF IsOwnReply
  <1>7. w \in Seq(Octet) /\ Len(w) = e.offset /\ Opens(w, p, minor, type)
    BY <1>5 DEF IsOwnReply
  <1>8. e = PutFields(b, fields)
    OBVIOUS
  <1>11. /\ x \in Encoders /\ x.offset = 12 /\ x.little = e.little
         /\ q = PutUlong(PutUlong(PutUlong(x, id), status), 0)
         /\ q \in Encoders /\ q.offset = 24 /\ q \in Later(x)
         /\ \A i \in 25..e.offset : q.bytes[i] = e.bytes[i]
    BY <1>5 DEF IsOwnReply
  <1> HIDE DEF id, type, minor, d, v, b, e
  <1>9. CASE ~d.ok
    BY <1>9, NotScanned DEF d, id
  <1>10. CASE d.ok
    <2>1. TakenFrom(d, v, p) /\ d.bytes = w
      BY <1>1, <1>6, <1>7, <1>10, Opened DEF d, v
    <2>2. /\ d \in Readers({v}) /\ d.offset = 12 /\ d.little = e.little
          /\ d.got = <<v>> /\ Value(d) = v /\ Matches(d, 12, p)
      BY <1>6, <2>1 DEF TakenFrom
    <2> DEFINE first == <<v>>
    <2> HIDE DEF first
    <2>3. Matches(d, 12, q)
      <3>1. \A i \in 13..q.offset : i \in 13..p.offset
        BY <1>4, <1>11, <1>6
      <3>2. \A i \in 13..p.offset : i <= Len(d.bytes) => d.bytes[i] = q.bytes[i]
        BY <1>6, <2>2 DEF Matches
      <3>. QED
        BY <3>1, <3>2 DEF Matches
    <2>4. Matches(d, 24, e)
      <3>1. \A i \in 25..e.offset : i \in 13..p.offset
        BY <1>4, <1>6
      <3>2. \A i \in 13..p.offset : i <= Len(d.bytes) => d.bytes[i] = q.bytes[i]
        BY <1>6, <2>2 DEF Matches
      <3>3. \A i \in 25..e.offset : q.bytes[i] = e.bytes[i]
        BY <1>11
      <3>4. \A i \in 25..e.offset : i <= Len(d.bytes) => d.bytes[i] = e.bytes[i]
        BY <3>1, <3>2, <3>3
      <3>. QED
        BY <3>4 DEF Matches
    <2>5. ASSUME ScanReplyHeader(d, minor).ok
          PROVE  ReplyIs(d, minor, 24, id, status)
      <3> DEFINE n == PutUlong(PutUlong(x, id), status)
                 m == 0
                 f == [i \in {0} |-> q]
      <3>1. f[0] = q /\ m \in Nat /\ m = 0
        OBVIOUS
      <3>2. q = PutUlong(n, m)
        BY <1>11
      <3> HIDE DEF f, m, n
      <3>3. IsList(f, n, m)
        BY <3>1, <3>2 DEF IsList
      <3>4. q = f[m] /\ n = PutUlong(PutUlong(x, id), status)
        BY <3>1 DEF n
      <3>5. x \in Encoders /\ d.offset = x.offset /\ d.little = x.little /\ Matches(d, x.offset, q)
        BY <1>11, <2>2, <2>3
      <3>6. q.offset < UlongLimit
        <4>1. q.offset <= e.offset /\ e.offset < UlongLimit /\ q.offset = 24
          BY <1>4, <1>11, <1>7
        <4>. QED
          BY <1>4, <4>1, SMTT(30) DEF UlongLimit
      <3>7. id \in Nat /\ id < UlongLimit
        BY DEF id
      <3>8. ReplyIs(d, minor, q.offset, id, status)
        BY <1>1, <1>3, <2>2, <2>5, <3>1, <3>3, <3>4, <3>5, <3>6, <3>7, LateReplyTaken
      <3>. QED
        BY <1>11, <3>8
    <2>6. ReplyHeaderOf(d, v).ok =>
              ReplyHeaderOf(d, v) = MovedTo(d, b.offset, Append(d.got, TheReply(id, status)))
      <3>1. ReplyHeaderOf(d, v) = ScanReplyHeader(d, minor)
        BY <1>2 DEF ReplyHeaderOf, type
      <3>. QED
        BY <1>4, <2>5, <3>1 DEF ReplyIs
    <2>7. \A i \in 1..Len(fields) : FieldFits(fields[i])
      BY SmallFits
    <2>8. b.little = d.little /\ e.offset <= Len(w) /\ d = ScanGIOPHeader(Decoder(w))
      BY <1>4, <1>7, <2>2 DEF d
    <2>9. Matches(d, b.offset, e) /\ e.offset < UlongLimit
      BY <1>4, <1>7, <2>4
    <2>. QED
      BY <1>4, <1>8, <2>1, <2>2, <2>6, <2>7, <2>8, <2>9, ReplyTaken DEF id
  <1>. QED
    BY <1>9, <1>10
-----------------------------------------------------------------------------
(***************************************************************************)
(* What every message shows, as it is sent.                                *)
(***************************************************************************)
TellsLength(w) == Number(InOrder(SubSeq(w, 9, 12), w[7] = 1)) = Len(w) - 12

LEMMA MessageTells ==
    ASSUME NEW e \in Encoders, NEW minor \in Octet, NEW type \in Octet, e.offset >= 12,
           NEW w, w = Message(SetGIOPHeader(e, minor, type)), Len(w) < UlongLimit
    PROVE  /\ w \in Seq(Octet) /\ Len(w) = e.offset /\ Opens(w, e, minor, type)
           /\ e.offset < UlongLimit /\ TellsLength(w)
  <1>1. w \in Seq(Octet) /\ Len(w) = e.offset /\ Opens(w, e, minor, type)
    BY MessageIs
  <1>2. e.offset < UlongLimit /\ 12 <= e.offset
    <2>1. e.offset \in Nat
      BY DEF Encoders
    <2>. QED
      BY <1>1, <2>1
  <1> DEFINE z == Slice(SetGIOPHeader(e, minor, type), 0, e.offset)
  <1>3. w = z
    <2>1. SetGIOPHeader(e, minor, type).offset = e.offset
      BY HeaderOctets
    <2>. QED
      BY <2>1 DEF Message
  <1>4. Number(InOrder(SubSeq(z, 9, 12), z[7] = 1)) = Len(z) - 12
    BY <1>2, MessageSize
  <1> HIDE DEF z
  <1>. QED
    BY <1>1, <1>2, <1>3, <1>4 DEF TellsLength

\* Every first piece of the octets shows the request or nothing.
Shown(w, r) == \A n \in 0..Len(w) : Right(ScanRequest(SubSeq(w, 1, n)), r)

LEMMA RequestSent ==
    ASSUME NEW order \in BOOLEAN, NEW r \in Request, r.id < UlongLimit, NEW minor \in Minor,
           NEW s \in Sender,
           NEW w, w = Message(SetGIOPHeader(PutFields(PutRequest(Encoder(order), minor, r, s), Arguments),
                                            minor, MessageType.REQUEST)),
           Len(w) < UlongLimit
    PROVE  w \in Seq(Octet) /\ TellsLength(w) /\ Shown(w, r)
  <1> DEFINE type == MessageType.REQUEST
             b == Behind(order)
             p == PutFields(PutRequest(Encoder(order), minor, r, s), Arguments)
  <1>1. minor \in Octet /\ type \in Octet /\ Arguments \in Seq(Parameter)
    BY BodyAssumption DEF BodyAssumption, Octet, MessageType
  <1>2. b \in Encoders /\ b.offset = 12 /\ b.little = order
    BY StartsBehind
  <1>3. \E c : c \in Later(b) /\ c \in Encoders /\ p \in Later(c)
    <2>1. CASE Early(minor)
      BY <1>1, <2>1, EarlyRequestIs
    <2>2. CASE ~Early(minor)
      BY <1>1, <2>2, LateRequestIs
    <2>. QED
      BY <2>1, <2>2
  <1>4. w = Message(SetGIOPHeader(p, minor, type))
        /\ p = PutFields(PutRequest(Encoder(order), minor, r, s), Arguments)
    OBVIOUS
  <1> HIDE DEF type, b, p
  <1>5. p \in Later(b) /\ p \in Encoders
    BY <1>2, <1>3, LaterIsLater, LaterIsEncoder
  <1>6. p.offset \in Nat /\ p.offset >= 12 /\ p.little = order
    <2>1. p.little = b.little /\ p.offset \in Nat /\ b.offset <= p.offset
      BY <1>2, <1>5, LaterOn
    <2>. QED
      BY <1>2, <2>1
  <1>7. /\ w \in Seq(Octet) /\ Len(w) = p.offset /\ Opens(w, p, minor, type)
        /\ p.offset < UlongLimit /\ TellsLength(w)
    BY <1>1, <1>4, <1>5, <1>6, MessageTells
  <1>8. ASSUME NEW n \in 0..Len(w)
        PROVE  Right(ScanRequest(SubSeq(w, 1, n)), r)
    <2> DEFINE bytes == SubSeq(w, 1, n)
    <2>1. bytes \in Seq(Octet) /\ Opens(bytes, p, minor, type)
      BY <1>5, <1>7, CutOpens
    <2> HIDE DEF bytes
    <2>2. Right(ScanRequest(bytes), r)
      BY <1>4, <1>5, <1>6, <1>7, <2>1, RequestTaken DEF type
    <2>. QED
      BY <2>2 DEF bytes
  <1>. QED
    BY <1>7, <1>8 DEF Shown

LEMMA LocateRequestSent ==
    ASSUME NEW order \in BOOLEAN, NEW r \in Request, r.id < UlongLimit, NEW minor \in Minor,
           NEW w, w = LET e == PutFields(SkipGIOPHeader(Encoder(order)),
                                   <<Field("ulong", r.id)>>
                                   \o (IF Early(minor) THEN <<>> ELSE <<Field("ushort", KeyAddr)>>)
                                   \o <<Field("blob", r.key)>>)
                      IN  Message(SetGIOPHeader(e, minor, MessageType.LOCATE_REQUEST)),
           Len(w) < UlongLimit
    PROVE  w \in Seq(Octet) /\ TellsLength(w) /\ Shown(w, r)
  <1> DEFINE type == MessageType.LOCATE_REQUEST
             b == Behind(order)
             p == PutFields(SkipGIOPHeader(Encoder(order)),
                      <<Field("ulong", r.id)>>
                      \o (IF Early(minor) THEN <<>> ELSE <<Field("ushort", KeyAddr)>>)
                      \o <<Field("blob", r.key)>>)
  <1>1. minor \in Octet /\ type \in Octet
    BY BodyAssumption DEF BodyAssumption, Octet, MessageType
  <1>2. b \in Encoders /\ b.offset = 12 /\ b.little = order
    BY StartsBehind
  <1>3. /\ p = PutKey(PutUlong(b, r.id), minor, r.key)
        /\ p \in Later(b) /\ p \in Encoders
    BY LocatePut
  <1>4. w = Message(SetGIOPHeader(p, minor, type))
    OBVIOUS
  <1> HIDE DEF type, b, p
  <1>6. p.offset \in Nat /\ p.offset >= 12 /\ p.little = order
    <2>1. p.little = b.little /\ p.offset \in Nat /\ b.offset <= p.offset
      BY <1>2, <1>3, LaterOn
    <2>. QED
      BY <1>2, <2>1
  <1>7. /\ w \in Seq(Octet) /\ Len(w) = p.offset /\ Opens(w, p, minor, type)
        /\ p.offset < UlongLimit /\ TellsLength(w)
    BY <1>1, <1>3, <1>4, <1>6, MessageTells
  <1>8. ASSUME NEW n \in 0..Len(w)
        PROVE  Right(ScanRequest(SubSeq(w, 1, n)), r)
    <2> DEFINE bytes == SubSeq(w, 1, n)
    <2>1. bytes \in Seq(Octet) /\ Opens(bytes, p, minor, type)
      BY <1>3, <1>7, CutOpens
    <2> HIDE DEF bytes
    <2>2. p = PutKey(PutUlong(Behind(order), r.id), minor, r.key)
      BY <1>3 DEF b
    <2>3. Right(ScanRequest(bytes), r)
      BY <1>3, <1>6, <1>7, <2>1, <2>2, LocateRequestTaken DEF type
    <2>. QED
      BY <2>3 DEF bytes
  <1>. QED
    BY <1>7, <1>8 DEF Shown

\* A reply as it is sent, whoever sends it.
Delivered(w, id, status, fields) ==
    w \in Seq(Octet) /\ TellsLength(w) /\ Answers(ScannedReply(w, fields), id, status, fields)

LEMMA OwnReplySent ==
    ASSUME NEW enc \in Encoders, 24 <= Len(enc.bytes), NEW status \in 0..2,
           NEW fields \in Seq(Parameter), Small(fields), seen.id \in Nat, seen.id < UlongLimit,
           NEW w, w = SendReply(enc, status, fields), Len(w) < UlongLimit
    PROVE  Delivered(w, seen.id, status, fields)
  <1> DEFINE id == seen.id
             type == MessageType.REPLY
             minor == 2
             e == PutFields(SkipReplyHeader(enc), fields)
             g == PutReply(SetGIOPHeader(e, minor, type), minor, id, status)
             z == Slice(g, 0, e.offset)
  <1>1. minor \in Octet /\ type \in Octet
    BY DEF Octet, MessageType
  <1>2. id \in Int /\ status \in Int
    OBVIOUS
  <1>3. e \in Encoders /\ e.offset \in Nat /\ e.offset >= 24
    BY BodyPut
  <1>4. PICK x, q, p : IsOwnReply(w, e, x, q, p, id, status)
    BY <1>2, OwnReplyIs
  <1>5. w \in Seq(Octet) /\ Len(w) = e.offset
    BY <1>4 DEF IsOwnReply
  <1>6. w = z
    BY Zenon DEF SendReply
  <1> HIDE DEF e, id, type, minor
  <1>7. 12 <= e.offset /\ e.offset < UlongLimit
    BY <1>3, <1>5
  <1>8. Number(InOrder(SubSeq(z, 9, 12), z[7] = 1)) = Len(z) - 12
    BY <1>1, <1>2, <1>3, <1>7, ReplySize
  <1> HIDE DEF z
  <1>9. TellsLength(w)
    BY <1>6, <1>8 DEF TellsLength
  <1>10. Answers(ScannedReply(w, fields), seen.id, status, fields)
    BY OwnReplyTaken
  <1>. QED
    BY <1>5, <1>9, <1>10 DEF Delivered

LEMMA PeerReplySent ==
    ASSUME NEW order \in BOOLEAN, NEW minor \in Minor, NEW contexts \in PeerContexts,
           NEW id \in Nat, id < UlongLimit, NEW status \in 0..2,
           NEW fields \in Seq(Parameter), Small(fields),
           NEW e, e = PutFields(PutPeerHeader(order, minor, contexts, id, status), fields),
           NEW w, w = Message(SetGIOPHeader(e, minor, MessageType.REPLY)), Len(w) < UlongLimit
    PROVE  Delivered(w, id, status, fields)
  <1> DEFINE type == MessageType.REPLY
             b == Behind(order)
             h == PutPeerHeader(order, minor, contexts, id, status)
  <1>1. minor \in Octet /\ type \in Octet
    BY BodyAssumption DEF BodyAssumption, Octet, MessageType
  <1>2. b \in Encoders /\ b.offset = 12 /\ b.little = order /\ status \in Nat
    BY StartsBehind
  <1>3. h \in Later(b) /\ h \in Encoders /\ e = PutFields(h, fields)
    <2>1. h = PutPeerHeader(order, minor, contexts, id, status)
      OBVIOUS
    <2> HIDE DEF h
    <2>2. IsPeerHeader(h, b, minor, id, status)
      BY <1>2, <2>1, PeerHeaderIs
    <2>. QED
      BY <2>1, <2>2 DEF IsPeerHeader
  <1> HIDE DEF type, b, h
  <1>4. e \in Later(h) /\ e \in Encoders
    BY <1>3, ParametersKeep
  <1>5. e.offset >= 12
    <2>1. h.offset \in Nat /\ b.offset <= h.offset
      BY <1>2, <1>3, LaterOn
    <2>2. e.offset \in Nat /\ h.offset <= e.offset
      BY <1>3, <1>4, LaterOn
    <2>. QED
      BY <1>2, <2>1, <2>2
  <1>6. w \in Seq(Octet) /\ e.offset < UlongLimit /\ TellsLength(w)
    BY <1>1, <1>4, <1>5, MessageTells DEF type
  <1>7. Answers(ScannedReply(w, fields), id, status, fields)
    BY <1>6, PeerReplyTaken
  <1>. QED
    BY <1>6, <1>7 DEF Delivered

LEMMA LocateReplySent ==
    ASSUME NEW order \in BOOLEAN, NEW id \in Nat, id < UlongLimit, NEW status \in 0..2,
           NEW w, w = Message(SetGIOPHeader(PutLocateReply(Encoder(order), id, status), 2,
                                            MessageType.LOCATE_REPLY)), Len(w) < UlongLimit
    PROVE  Delivered(w, id, status, <<>>)
  <1> DEFINE type == MessageType.LOCATE_REPLY
             minor == 2
             e == PutLocateReply(Encoder(order), id, status)
  <1>1. minor \in Octet /\ type \in Octet
    BY DEF Octet, MessageType
  <1>2. e \in Encoders /\ e.offset >= 12
    BY LocateReplyIs
  <1>3. w = Message(SetGIOPHeader(e, minor, type)) /\ e = PutLocateReply(Encoder(order), id, status)
    OBVIOUS
  <1> HIDE DEF e
  <1>4. w \in Seq(Octet) /\ e.offset < UlongLimit /\ TellsLength(w)
    <2> HIDE DEF type, minor
    <2>. QED
      BY <1>1, <1>2, <1>3, MessageTells
  <1>5. Answers(ScannedReply(w, <<>>), id, status, <<>>)
    BY <1>3, <1>4, LocateReplyAnswers
  <1>. QED
    BY <1>4, <1>5 DEF Delivered
-----------------------------------------------------------------------------
(***************************************************************************)
(* The system.                                                             *)
(***************************************************************************)
\* The numbers that are written as an unsigned long fit into one.
UlongsFit == (\A r \in Request : r.id < UlongLimit) /\ Small(Result)

\* What has been called is a request of the caller's.
Called == sent.request \in Request /\ sent.id = sent.request.id

\* What has been scanned of the request is what was called.
Taken == /\ seen.id = sent.id
         /\ seen.type = MessageType.REQUEST => TellsOf(seen.header, sent.request)

Arrived == /\ answer.id = sent.id
           /\ answer.status = replied.status
           /\ answer.body = Values(replied.fields)

MessagesInv ==
    /\ little \in BOOLEAN
    /\ wire \in Seq(Octet)
    /\ wire # <<>> => TellsLength(wire)
    /\ phase \in {"request", "received", "reply", "answered"} => Called
    /\ phase = "request" => Shown(wire, sent.request)
    /\ phase \in {"received", "reply"} => Taken
    /\ phase = "reply" =>
           Answers(ScannedReply(wire, replied.fields), sent.id, replied.status, replied.fields)
    /\ phase = "answered" /\ ~answer.cut => Arrived

LEMMA MessagesBegin ==
    Init => MessagesInv
  <1> SUFFICES ASSUME Init
               PROVE  MessagesInv
    OBVIOUS
  <1> DEFINE none == <<>>
  <1>1. none \in Seq(Octet)
    OBVIOUS
  <1>2. phase = "idle" /\ wire = none /\ little \in BOOLEAN
    BY DEF Init
  <1>. QED
    BY <1>1, <1>2 DEF MessagesInv

LEMMA CallKeeps ==
    ASSUME UlongsFit, MessagesInv, Len(wire') < UlongLimit,
           NEW r \in Request, NEW minor \in Minor, NEW s \in Sender, CallCore(r, minor, s)
    PROVE  MessagesInv'
  <1> DEFINE w == Message(SetGIOPHeader(PutFields(PutRequest(Encoder(little), minor, r, s), Arguments),
                                        minor, MessageType.REQUEST))
  <1>1. wire' = w /\ phase' = "request" /\ little' = little
    BY Zenon DEF CallCore
  <1>2. sent'.request = r /\ sent'.id = r.id
    BY DEF CallCore
  <1>3. r.id < UlongLimit /\ little \in BOOLEAN
    BY DEF UlongsFit, MessagesInv
  <1>4. w \in Seq(Octet) /\ TellsLength(w) /\ Shown(w, r)
    <2>1. Len(w) < UlongLimit
      BY <1>1
    <2>. QED
      BY <1>3, <2>1, RequestSent
  <1> HIDE DEF w
  <1>5. Called'
    BY <1>2 DEF Called
  <1>6. wire' \in Seq(Octet) /\ TellsLength(wire') /\ Shown(wire', sent'.request)
    BY <1>1, <1>2, <1>4
  <1>. QED
    BY <1>1, <1>3, <1>5, <1>6 DEF MessagesInv

LEMMA PeerLocatesKeeps ==
    ASSUME UlongsFit, MessagesInv, Len(wire') < UlongLimit,
           NEW r \in Request, NEW minor \in Minor, PeerLocates(r, minor)
    PROVE  MessagesInv'
  <1> DEFINE w == LET e == PutFields(SkipGIOPHeader(Encoder(little)),
                             <<Field("ulong", r.id)>>
                             \o (IF Early(minor) THEN <<>> ELSE <<Field("ushort", KeyAddr)>>)
                             \o <<Field("blob", r.key)>>)
                  IN  Message(SetGIOPHeader(e, minor, MessageType.LOCATE_REQUEST))
  <1>1. wire' = w /\ phase' = "request" /\ little' = little
    BY Zenon DEF PeerLocates
  <1>2. sent'.request = r /\ sent'.id = r.id
    BY DEF PeerLocates
  <1>3. r.id < UlongLimit /\ little \in BOOLEAN
    BY DEF UlongsFit, MessagesInv
  <1>4. w \in Seq(Octet) /\ TellsLength(w) /\ Shown(w, r)
    <2>1. Len(w) < UlongLimit
      BY <1>1
    <2>. QED
      BY <1>3, <2>1, LocateRequestSent
  <1> HIDE DEF w
  <1>5. Called'
    BY <1>2 DEF Called
  <1>6. wire' \in Seq(Octet) /\ TellsLength(wire') /\ Shown(wire', sent'.request)
    BY <1>1, <1>2, <1>4
  <1>. QED
    BY <1>1, <1>3, <1>5, <1>6 DEF MessagesInv

LEMMA ReceiveRequestKeeps ==
    ASSUME MessagesInv, NEW n \in 0..Len(wire), ReceiveRequest(n)
    PROVE  MessagesInv'
  <1> DEFINE d == ScanRequest(SubSeq(wire, 1, n))
             none == <<>>
  <1>1. wire' = none /\ little' = little /\ sent' = sent /\ phase = "request"
    BY DEF ReceiveRequest
  <1>2. IF d.ok
        THEN /\ phase' = "received"
             /\ seen' = [id |-> d.got[2].id, cut |-> n < Len(wire), header |-> d.got[2],
                         type |-> d.got[1].type, args |-> d.got[3]]
        ELSE phase' = "threw"
    BY Zenon DEF ReceiveRequest
  <1>3. Right(d, sent.request) /\ Called /\ little \in BOOLEAN
    BY <1>1, Zenon DEF MessagesInv, Shown
  <1>4. none \in Seq(Octet)
    OBVIOUS
  <1> HIDE DEF d
  <1>5. Called'
    BY <1>1, <1>3 DEF Called
  <1>6. CASE ~d.ok
    <2>1. phase' = "threw"
      BY <1>2, <1>6
    <2>. QED
      BY <1>1, <1>3, <1>4, <2>1 DEF MessagesInv
  <1>7. CASE d.ok
    <2>1. phase' = "received"
      BY <1>2, <1>7
    <2>2. seen'.id = d.got[2].id /\ seen'.type = d.got[1].type /\ seen'.header = d.got[2]
      BY <1>2, <1>7
    <2>3. /\ d.got[2].id = sent.request.id
          /\ d.got[1].type = MessageType.REQUEST => TellsOf(d.got[2], sent.request)
      BY <1>3, <1>7 DEF Right
    <2>4. Taken'
      BY <1>1, <1>3, <2>2, <2>3 DEF Taken, Called
    <2>. QED
      BY <1>1, <1>3, <1>4, <1>5, <2>1, <2>4 DEF MessagesInv
  <1>. QED
    BY <1>6, <1>7

\* A reply is sent to the request that has been scanned.
LEMMA DeliveredKeeps ==
    ASSUME MessagesInv, phase = "received", NEW status, NEW fields,
           Delivered(wire', seen.id, status, fields), phase' = "reply",
           replied'.status = status, replied'.fields = fields,
           UNCHANGED <<little, sent, seen>>
    PROVE  MessagesInv'
  <1>1. little \in BOOLEAN /\ Called /\ Taken
    BY DEF MessagesInv
  <1>2. little' = little /\ sent' = sent /\ seen' = seen
    OBVIOUS
  <1>3. Called' /\ Taken' /\ seen.id = sent'.id
    BY <1>1, <1>2 DEF Called, Taken
  <1>4. /\ wire' \in Seq(Octet) /\ TellsLength(wire')
        /\ Answers(ScannedReply(wire', replied'.fields), sent'.id, replied'.status, replied'.fields)
    BY <1>3 DEF Delivered
  <1>. QED
    BY <1>1, <1>2, <1>3, <1>4 DEF MessagesInv

LEMMA SeenFits ==
    ASSUME UlongsFit, MessagesInv, phase = "received"
    PROVE  seen.id \in Nat /\ seen.id < UlongLimit
  <1>1. sent.request \in Request /\ sent.id = sent.request.id /\ seen.id = sent.id
    BY DEF MessagesInv, Called, Taken
  <1>. QED
    BY <1>1, RequestAssumption DEF UlongsFit, RequestAssumption

LEMMA RepliesKeep ==
    ASSUME UlongsFit, MessagesInv, Len(wire') < UlongLimit,
           NEW enc \in Encoders, 24 <= Len(enc.bytes), NEW status \in 0..2,
           NEW fields \in Seq(Parameter), Small(fields), Replies(enc, status, fields)
    PROVE  MessagesInv'
  <1> DEFINE w == SendReply(enc, status, fields)
  <1>1. /\ phase = "received" /\ wire' = w /\ phase' = "reply"
        /\ replied' = [id |-> seen.id, status |-> status, fields |-> fields, contexts |-> <<>>]
        /\ UNCHANGED <<little, sent, seen>>
    BY Zenon DEF Replies
  <1>2. seen.id \in Nat /\ seen.id < UlongLimit
    BY <1>1, SeenFits
  <1> HIDE DEF w
  <1>3. Delivered(w, seen.id, status, fields)
    <2>1. Len(w) < UlongLimit /\ w = SendReply(enc, status, fields)
      BY <1>1 DEF w
    <2>. QED
      BY <1>2, <2>1, OwnReplySent
  <1>4. replied'.status = status /\ replied'.fields = fields
    BY <1>1
  <1>5. Delivered(wire', seen.id, status, fields)
    BY <1>1, <1>3
  <1>. QED
    BY <1>1, <1>4, <1>5, DeliveredKeeps
LEMMA EncoderHasRoom ==
    ASSUME NEW order \in BOOLEAN
    PROVE  Encoder(order) \in Encoders /\ 24 <= Len(Encoder(order).bytes)
  <1>1. Len(Encoder(order).bytes) >= 24
    BY InitialSizeAssumption, RoomAssumption DEF Encoder, InitialSizeAssumption, RoomAssumption
  <1>2. Len(Encoder(order).bytes) \in Nat
    BY NewEncoder DEF Encoders
  <1>. QED
    BY <1>1, <1>2, NewEncoder

LEMMA MethodResolvesKeeps ==
    ASSUME UlongsFit, MessagesInv, Len(wire') < UlongLimit, MethodResolves
    PROVE  MessagesInv'
  <1>1. PICK platform \in BOOLEAN : Replies(Encoder(platform), ReplyStatus.NO_EXCEPTION, Result)
    BY DEF MethodResolves
  <1>2. Result \in Seq(Parameter) /\ Small(Result) /\ ReplyStatus.NO_EXCEPTION \in 0..2
    BY BodyAssumption, SmallStatus DEF BodyAssumption, UlongsFit
  <1>. QED
    BY <1>1, <1>2, EncoderHasRoom, RepliesKeep

\* The fields of an exception are parameters, and its numbers are small.
LEMMA ParametersAppended ==
    ASSUME NEW s \in Seq(Parameter), Small(s), NEW o \in Seq(Octet)
    PROVE  LET t == s \o <<Field("string", o)>>
           IN  t \in Seq(Parameter) /\ Small(t)
  <1> DEFINE x == Field("string", o)
             t == s \o <<x>>
  <1>1. x \in Parameter /\ x.type # "ulong"
    BY DEF Field, Parameter
  <1> HIDE DEF x
  <1>2. t = Append(s, x)
    BY <1>1, AppendIsConcat
  <1> HIDE DEF t
  <1>3. /\ t \in Seq(Parameter) /\ Len(t) = Len(s) + 1 /\ t[Len(s) + 1] = x
        /\ \A i \in 1..Len(s) : t[i] = s[i]
    BY <1>1, <1>2, Longer
  <1>4. ASSUME NEW i \in 1..Len(t), t[i].type = "ulong"
        PROVE  t[i].v < UlongLimit
    <2>1. i \in 1..Len(s) \/ i = Len(s) + 1
      BY <1>3
    <2>2. i \in 1..Len(s)
      BY <1>1, <1>3, <1>4, <2>1
    <2>. QED
      BY <1>3, <1>4, <2>2 DEF Small
  <1>. QED
    BY <1>3, <1>4 DEF Small, t, x

LEMMA ExceptionFits ==
    ASSUME NEW o \in Seq(Octet), NEW minor \in {0, 1}
    PROVE  SystemException(o, minor) \in Seq(Parameter) /\ Small(SystemException(o, minor))
  <1> DEFINE a == Field("string", o)
             b == Field("ulong", minor)
             c == Field("ulong", 1)
             s == <<a, b, c>>
  <1>1. a \in Parameter /\ a.type # "ulong"
    BY DEF Field, Parameter
  <1>2. b \in Parameter /\ b.v \in {0, 1} /\ c \in Parameter /\ c.v \in {0, 1}
    BY DEF Field, Parameter
  <1>3. \A n \in {0, 1} : n < UlongLimit
    BY SMTT(30) DEF UlongLimit
  <1> HIDE DEF a, b, c
  <1>4. /\ s \in Seq(Parameter) /\ Len(s) = 3
        /\ s[1] = a /\ s[2] = b /\ s[3] = c
    BY <1>1, <1>2
  <1> HIDE DEF s
  <1>5. ASSUME NEW i \in 1..Len(s), s[i].type = "ulong"
        PROVE  s[i].v < UlongLimit
    <2>1. i = 1 \/ i = 2 \/ i = 3
      BY <1>4
    <2>2. s[i] = b \/ s[i] = c
      BY <1>1, <1>4, <1>5, <2>1
    <2>. QED
      BY <1>2, <1>3, <2>2
  <1>. QED
    BY <1>4, <1>5 DEF Small, SystemException, s, a, b, c

LEMMA RefuseKeeps ==
    ASSUME UlongsFit, MessagesInv, Len(wire') < UlongLimit, Refuse
    PROVE  MessagesInv'
  <1> DEFINE o == <<78>>
             fields == SystemException(o, 1)
  <1>1. PICK platform \in BOOLEAN :
            Replies(Encoder(platform), ReplyStatus.SYSTEM_EXCEPTION, fields)
    BY DEF Refuse
  <1>2. o \in Seq(Octet)
    BY DEF Octet
  <1> HIDE DEF o
  <1>3. fields \in Seq(Parameter) /\ Small(fields) /\ ReplyStatus.SYSTEM_EXCEPTION \in 0..2
    BY <1>2, ExceptionFits, SmallStatus
  <1> HIDE DEF fields
  <1>. QED
    BY <1>1, <1>3, EncoderHasRoom, RepliesKeep

LEMMA MethodRejectsKeeps ==
    ASSUME UlongsFit, MessagesInv, Len(wire') < UlongLimit, MethodRejects
    PROVE  MessagesInv'
  <1> DEFINE o == <<83>>
             p == <<71>>
             q == <<84, 84, 84>>
             plain == SystemException(o, 1)
             generic == SystemException(p, 0) \o <<Field("string", q)>>
             Used(platform, k) == PutFields(SkipReplyHeader(Encoder(platform)), SubSeq(Result, 1, k))
  <1>1. PICK platform \in BOOLEAN, k \in 0..Len(Result) :
            \/ Replies(Used(platform, k), ReplyStatus.SYSTEM_EXCEPTION, plain)
            \/ Replies(Used(platform, k), ReplyStatus.SYSTEM_EXCEPTION, generic)
    BY Zenon DEF MethodRejects
  <1>2. o \in Seq(Octet) /\ p \in Seq(Octet) /\ q \in Seq(Octet)
    BY DEF Octet
  <1> HIDE DEF o, p, q
  <1>3. plain \in Seq(Parameter) /\ Small(plain) /\ ReplyStatus.SYSTEM_EXCEPTION \in 0..2
    BY <1>2, ExceptionFits, SmallStatus
  <1>4. generic \in Seq(Parameter) /\ Small(generic)
    <2>1. SystemException(p, 0) \in Seq(Parameter) /\ Small(SystemException(p, 0))
      BY <1>2, ExceptionFits
    <2>. QED
      BY <1>2, <2>1, ParametersAppended
  <1> HIDE DEF plain, generic
  <1> DEFINE used == Used(platform, k)
  <1>5. used \in Encoders /\ 24 <= Len(used.bytes)
    <2> DEFINE enc == Encoder(platform)
               fields == SubSeq(Result, 1, k)
    <2>1. fields \in Seq(Parameter)
      BY BodyAssumption DEF BodyAssumption
    <2>2. enc \in Encoders /\ 24 <= Len(enc.bytes)
      BY EncoderHasRoom
    <2>3. used = PutFields(SkipReplyHeader(enc), fields)
      OBVIOUS
    <2> HIDE DEF enc, fields, used
    <2>4. /\ used \in Encoders /\ used.offset \in Nat /\ used.offset >= 24
          /\ used.offset <= Len(used.bytes) /\ Len(used.bytes) \in Nat
      BY <2>1, <2>2, <2>3, BodyPut
    <2>. QED
      BY <2>4
  <1>6. \/ Replies(used, ReplyStatus.SYSTEM_EXCEPTION, plain)
        \/ Replies(used, ReplyStatus.SYSTEM_EXCEPTION, generic)
    BY <1>1
  <1> HIDE DEF used
  <1>. QED
    BY <1>3, <1>4, <1>5, <1>6, RepliesKeep

LEMMA AnswerLocateKeeps ==
    ASSUME UlongsFit, MessagesInv, Len(wire') < UlongLimit, NEW known \in {0, 1}, AnswerLocate(known)
    PROVE  MessagesInv'
  <1> DEFINE w == Message(SetGIOPHeader(PutLocateReply(Encoder(little), seen.id, known), 2,
                                        MessageType.LOCATE_REPLY))
             none == <<>>
  <1>1. /\ phase = "received" /\ wire' = w /\ phase' = "reply"
        /\ replied' = [id |-> seen.id, status |-> known, fields |-> <<>>, contexts |-> <<>>]
        /\ UNCHANGED <<little, sent, seen>>
    BY Zenon DEF AnswerLocate
  <1>2. seen.id \in Nat /\ seen.id < UlongLimit /\ little \in BOOLEAN /\ known \in 0..2
    BY <1>1, SeenFits DEF MessagesInv
  <1>3. Delivered(w, seen.id, known, none)
    <2>1. Len(w) < UlongLimit
      BY <1>1
    <2>. QED
      BY <1>2, <2>1, LocateReplySent
  <1> HIDE DEF w
  <1>4. replied'.status = known /\ replied'.fields = none
    BY <1>1
  <1> HIDE DEF none
  <1>5. Delivered(wire', seen.id, known, none)
    BY <1>1, <1>3
  <1>. QED
    BY <1>1, <1>4, <1>5, DeliveredKeeps

LEMMA PeerRepliesKeeps ==
    ASSUME UlongsFit, MessagesInv, Len(wire') < UlongLimit,
           NEW minor \in Minor, NEW contexts \in PeerContexts, PeerReplies(minor, contexts)
    PROVE  MessagesInv'
  <1> DEFINE status == ReplyStatus.NO_EXCEPTION
             e == PutFields(PutPeerHeader(little, minor, contexts, seen.id, status), Result)
             w == Message(SetGIOPHeader(e, minor, MessageType.REPLY))
  <1>1. /\ phase = "received" /\ phase' = "reply"
        /\ replied' = [id |-> seen.id, status |-> status, fields |-> Result, contexts |-> contexts]
        /\ UNCHANGED <<little, sent, seen>>
    BY Zenon DEF PeerReplies
  <1>2. wire' = w
    BY Zenon DEF PeerReplies, PutPeerHeader, PutContexts, ReplyFields
  <1>3. /\ seen.id \in Nat /\ seen.id < UlongLimit /\ little \in BOOLEAN
        /\ Result \in Seq(Parameter) /\ Small(Result) /\ status \in 0..2
    BY <1>1, SeenFits, BodyAssumption, SmallStatus DEF MessagesInv, BodyAssumption, UlongsFit
  <1> HIDE DEF status
  <1>4. Delivered(w, seen.id, status, Result)
    <2>1. Len(w) < UlongLimit /\ w = Message(SetGIOPHeader(e, minor, MessageType.REPLY))
          /\ e = PutFields(PutPeerHeader(little, minor, contexts, seen.id, status), Result)
      BY <1>2
    <2> HIDE DEF w, e
    <2>. QED
      BY <1>3, <2>1, PeerReplySent
  <1> HIDE DEF w
  <1>5. replied'.status = status /\ replied'.fields = Result
    BY <1>1
  <1>6. Delivered(wire', seen.id, status, Result)
    BY <1>2, <1>4
  <1>. QED
    BY <1>1, <1>5, <1>6, DeliveredKeeps

LEMMA ReceiveReplyKeeps ==
    ASSUME MessagesInv, NEW n \in 0..Len(wire), ReceiveReply(n)
    PROVE  MessagesInv'
  <1> DEFINE d == ScanReply(SubSeq(wire, 1, n))
             w == wire
             fields == replied.fields
  <1>1. /\ phase = "reply" /\ little' = little /\ sent' = sent /\ wire' = wire /\ seen' = seen
        /\ replied' = replied
    BY DEF ReceiveReply
  <1>2. IF d.ok
        THEN /\ phase' = "answered"
             /\ answer' = [id |-> d.got[2].id, status |-> d.got[2].status,
                           cut |-> n < Len(wire), body |-> d.got[3]]
        ELSE phase' = "threw"
    BY Zenon DEF ReceiveReply
  <1>3. /\ little \in BOOLEAN /\ w \in Seq(Octet) /\ (w # <<>> => TellsLength(w)) /\ Called
        /\ Answers(ScannedReply(w, fields), sent.id, replied.status, fields)
    BY <1>1 DEF MessagesInv
  <1>4. d = ScannedReply(SubSeq(w, 1, n), fields)
    BY ScannedIsScan
  <1>5. n = Len(w) => SubSeq(w, 1, n) = w
    <2> HIDE DEF w
    <2>. QED
      BY <1>3
  <1> HIDE DEF d
  <1>6. Called' /\ little' \in BOOLEAN /\ wire' \in Seq(Octet) /\ (wire' # <<>> => TellsLength(wire'))
    BY <1>1, <1>3 DEF Called
  <1>7. CASE ~d.ok
    <2>1. phase' = "threw"
      BY <1>2, <1>7
    <2>. QED
      BY <1>6, <2>1 DEF MessagesInv
  <1>8. CASE d.ok
    <2>1. phase' = "answered"
      BY <1>2, <1>8
    <2>2. /\ answer'.id = d.got[2].id /\ answer'.status = d.got[2].status
          /\ answer'.cut = (n < Len(w)) /\ answer'.body = d.got[3]
      BY <1>2, <1>8
    <2>3. ASSUME ~answer'.cut
          PROVE  Arrived'
      <3>1. n = Len(w)
        <4>1. ~(n < Len(w))
          BY <2>2, <2>3, Zenon
        <4>2. n \in 0..Len(w) /\ Len(w) \in Nat
          BY <1>3
        <4> HIDE DEF w
        <4>. QED
          BY <4>1, <4>2
      <3>2. d = ScannedReply(w, fields)
        BY <1>4, <1>5, <3>1
      <3>3. d.got[2].id = sent.id /\ d.got[2].status = replied.status /\ d.got[3] = Values(fields)
        BY <1>3, <1>8, <3>2 DEF Answers
      <3>. QED
        BY <1>1, <2>2, <3>3 DEF Arrived
    <2>. QED
      BY <1>6, <2>1, <2>3 DEF MessagesInv
  <1>. QED
    BY <1>7, <1>8

(***************************************************************************)
(* The invariant holds as long as the messages are shorter than the 32     *)
(* bits of their size can tell.                                            *)
(***************************************************************************)
THEOREM MessagesHold ==
    ASSUME UlongsFit
    PROVE  Spec /\ [](Len(wire) < UlongLimit) => []MessagesInv
  <1> DEFINE Short == Len(wire) < UlongLimit
  <1>1. MessagesInv /\ [Next]_vars /\ Short' => MessagesInv'
    <2> SUFFICES ASSUME MessagesInv, [Next]_vars, Len(wire') < UlongLimit
                 PROVE  MessagesInv'
      OBVIOUS
    <2>1. ASSUME NEW r \in Request, NEW m \in Minor, NEW s \in Sender, CallCore(r, m, s)
          PROVE  MessagesInv'
      BY <2>1, CallKeeps
    <2>2. ASSUME NEW r \in Request, NEW m \in Minor, PeerLocates(r, m)
          PROVE  MessagesInv'
      BY <2>2, PeerLocatesKeeps
    <2>3. ASSUME NEW n \in 0..Len(wire), ReceiveRequest(n)
          PROVE  MessagesInv'
      BY <2>3, ReceiveRequestKeeps
    <2>4. CASE MethodResolves
      BY <2>4, MethodResolvesKeeps
    <2>5. CASE Refuse
      BY <2>5, RefuseKeeps
    <2>6. CASE MethodRejects
      BY <2>6, MethodRejectsKeeps
    <2>7. ASSUME NEW known \in {0, 1}, AnswerLocate(known)
          PROVE  MessagesInv'
      BY <2>7, AnswerLocateKeeps
    <2>8. ASSUME NEW m \in Minor, NEW c \in PeerContexts, PeerReplies(m, c)
          PROVE  MessagesInv'
      BY <2>8, PeerRepliesKeeps
    <2>9. ASSUME NEW n \in 0..Len(wire), ReceiveReply(n)
          PROVE  MessagesInv'
      BY <2>9, ReceiveReplyKeeps
    <2>10. CASE UNCHANGED vars
      BY <2>10 DEF vars, MessagesInv, Called, Taken, Arrived
    <2>. QED
      BY <2>1, <2>2, <2>3, <2>4, <2>5, <2>6, <2>7, <2>8, <2>9, <2>10 DEF Next
  <1>. QED
    BY <1>1, MessagesBegin, PTL DEF Spec

(***************************************************************************)
(* SizeTellsLength for requests, locate requests and the replies to both,  *)
(* whatever their fields and contexts (giop.ts:484).                       *)
(***************************************************************************)
THEOREM SizeIsTheLength ==
    ASSUME UlongsFit
    PROVE  Spec /\ [](Len(wire) < UlongLimit) => []SizeTellsLength
  <1>1. MessagesInv => SizeTellsLength
    BY DEF MessagesInv, SizeTellsLength, TellsLength
  <1>. QED
    BY <1>1, MessagesHold, PTL

(***************************************************************************)
(* CutNotMisdirected: wherever a request has been cut, what is dispatched  *)
(* of it is the request (orb.ts:488), for all keys, names, senders,        *)
(* arguments and versions.                                                 *)
(***************************************************************************)
THEOREM NotMisdirected ==
    ASSUME UlongsFit
    PROVE  Spec /\ [](Len(wire) < UlongLimit) => []CutNotMisdirected
  <1>1. MessagesInv => CutNotMisdirected
    BY DEF MessagesInv, CutNotMisdirected, Taken, Called, TellsOf
  <1>. QED
    BY <1>1, MessagesHold, PTL

(***************************************************************************)
(* ReplyArrives: a reply that is all there is the one that was sent, by    *)
(* corba.js (orb.ts:602-626) or by another ORB, with any service contexts  *)
(* and any result.                                                         *)
(***************************************************************************)
THEOREM ReplyIsTheReply ==
    ASSUME UlongsFit
    PROVE  Spec /\ [](Len(wire) < UlongLimit) => []ReplyArrives
  <1>1. MessagesInv => ReplyArrives
    BY DEF MessagesInv, ReplyArrives, Arrived
  <1>. QED
    BY <1>1, MessagesHold, PTL
=============================================================================
