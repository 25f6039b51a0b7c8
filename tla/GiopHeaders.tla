----------------------------- MODULE GiopHeaders -----------------------------
(***************************************************************************)
(* The headers of GIOP messages and the service contexts in them, as       *)
(* GIOPEncoder writes and GIOPDecoder scans them.                          *)
(*                                                                         *)
(* Texts and keys are sequences of octets, request ids are small numbers.  *)
(* Versions are 1.0, 1.1 and 1.2; corba.js itself sends 1.2.               *)
(***************************************************************************)
EXTENDS Asn1

CONSTANTS
    Absent        \* a service context without credentials, no credentials

Magic == <<71, 73, 79, 80>>      \* "GIOP"

MessageType == [REQUEST |-> 0, REPLY |-> 1, LOCATE_REQUEST |-> 3, LOCATE_REPLY |-> 4]
ReplyStatus == [NO_EXCEPTION |-> 0, USER_EXCEPTION |-> 1, SYSTEM_EXCEPTION |-> 2]
ServiceId == [CodeSets |-> 1, BI_DIR_IIOP |-> 5, SecurityAttributeService |-> 15]
SASType == [EstablishContext |-> 0, CompleteEstablishContext |-> 1, ContextError |-> 2]

KeyAddr == 0                 \* AddressingDisposition
IdentityAbsent == 0          \* IdentityTokenType

\* Versions 1.0 and 1.1 order the fields of a header differently.
Early(minor) == minor <= 1

PutField(enc, f) ==
    CASE f.type = "ulong"  -> PutUlong(enc, f.v)
      [] f.type = "ushort" -> PutUshort(enc, f.v)
      [] f.type = "octet"  -> PutOctet(enc, f.v)
      [] f.type = "number" -> PutNumber(enc, f.v)
      [] f.type = "blob"   -> PutBlob(enc, f.v)
      [] f.type = "string" -> PutString(enc, f.v)
      [] f.type = "skip"   -> [enc EXCEPT !.offset = @ + f.v]

Field(type, v) == [type |-> type, v |-> v]

PutFields(enc, fields) == FoldLeft(PutField, enc, fields)

Width == [octet |-> 1, ushort |-> 2, ulong |-> 4]

\* Appends to got what reading each of the types in turn returns.
GetField(dec, type) ==
    IF ~dec.ok THEN dec
    ELSE CASE type \in DOMAIN Width ->
                  After(GetNumber(dec, Width[type]), LAMBDA d : Instead(d, Number(Value(d))))
           [] type = "ulonglong" -> GetNumber(dec, 8)
           [] type = "blob" -> GetBlob(dec)
           [] type = "string" -> GetString(dec)
           [] type = "skip3" -> [dec EXCEPT !.offset = @ + 3]

GetFields(dec, types) == FoldLeft(GetField, dec, types)

\* Reads the types, then goes on with what they were.
Scan(dec, types, Then(_, _)) ==
    After(GetFields([dec EXCEPT !.got = <<>>], types),
          LAMBDA d : Then([d EXCEPT !.got = dec.got], d.got))
-----------------------------------------------------------------------------
(***************************************************************************)
(* Service contexts.  The sender is a record of what its connection and    *)
(* its outgoing authenticator provide.                                     *)
(***************************************************************************)
GssToken(enc, c) ==
    PutFields(PutEndian(PutAsn1Tag(enc, Universal, OID, Primitive,
                                   LAMBDA s : PutAsn1Oid(s, GSSUP))),
              <<Field("blob", c.user), Field("blob", c.password),
                Field("blob", c.target)>>)

PutEstablishSecurityContext(enc, c) ==
    LET head == PutFields(PutBeginEncapsulation(enc, ServiceId.SecurityAttributeService),
                    <<Field("ulong", SASType.EstablishContext),
                      Field("number", <<0, 0, 0, 0, 0, 0, 0, 1>>),
                      Field("ulong", 0), Field("ulong", IdentityAbsent),
                      Field("octet", 1)>>)
    IN  PutEndEncapsulation(FillinSize(
            PutAsn1Tag(ReserveSize(head), Application, 0, Constructed,
                       LAMBDA s : GssToken(s, c))))

PutListenPoint(enc, sender) ==
    PutEndEncapsulation(PutFields(
        PutBeginEncapsulation(enc, ServiceId.BI_DIR_IIOP),
        <<Field("ulong", 1), Field("string", sender.host), Field("ushort", sender.port)>>))

PutCredentials(enc, sender) ==
    IF sender.credentials = Absent THEN enc
    ELSE PutEstablishSecurityContext(enc, sender.credentials)

BadPutServiceContext(enc, sender) ==      \* counts one context whatever is sent
    IF ~sender.connected THEN PutUlong(enc, 0)
    ELSE PutCredentials(PutListenPoint(PutUlong(enc, 1), sender), sender)
PutServiceContext(enc, sender) ==
    IF ~sender.connected THEN PutUlong(enc, 0)
    ELSE LET count == IF sender.credentials = Absent THEN 1 ELSE 2
         IN  PutCredentials(PutListenPoint(PutUlong(enc, count), sender), sender)

\* The inner token is decoded by a decoder of its own that begins after the
\* object identifier.
InitialToken(octets) ==
    Scan(GetEndian(Decoder(octets)), <<"blob", "blob", "blob">>,
         LAMBDA d, v : Return(d, [user |-> v[1], password |-> v[2], target |-> v[3]]))

GssCredentials(dec) ==
    LET Inner(d) == IF d.ok THEN Return(dec, Value(d)) ELSE Throw(dec)
    IN  After(Asn1Expect(dec, Application, 0, Constructed), LAMBDA mech :
            IF ~Value(mech) THEN Return(dec, Absent)
            ELSE After(Asn1ExpectOid(mech, GSSUP), LAMBDA oid :
                     IF ~Value(oid) THEN Return(dec, Absent)
                     ELSE Inner(InitialToken(Slice(oid, oid.offset, Len(oid.bytes))))))

\* EstablishContext.decode(): what is decoded of a token the client has sent
\* before, or of an identity that is not absent, has no credentials.
GetEstablishContext(dec) ==
    LET Tokens(d, n) ==
            FoldLeft(LAMBDA e, i : GetFields(e, <<"ulong", "blob">>), d, [i \in 1..n |-> i])
        Identity(d) ==
            Scan([d EXCEPT !.got = dec.got], <<"ulong">>, LAMBDA e, v :
                IF v[1] = IdentityAbsent THEN Scan(e, <<"octet">>, LAMBDA f, w : f) ELSE e)
        Token(d) == Scan(d, <<"ulong">>, LAMBDA e, v : GssCredentials(e))
    IN  Scan(dec, <<"ulonglong">>, LAMBDA d, v :
            IF Last(d.encapStack).nextOffset - d.offset < 4 THEN Return(d, Absent)
            ELSE After(After(WithUlong(d, Tokens), Identity), Token))

GetSecurityAttributes(dec) ==
    Scan(dec, <<"ulong">>, LAMBDA d, t :
        CASE t[1] = SASType.EstablishContext ->
                 After(GetEstablishContext(d), LAMBDA e :
                     Instead(e, [id |-> "EstablishContext", credentials |-> Value(e)]))
          [] t[1] = SASType.CompleteEstablishContext ->
                 Scan(d, <<"ulonglong", "octet">>, LAMBDA e, v :
                     Return(e, [id |-> "CompleteEstablishContext", stateful |-> v[2]]))
          [] t[1] = SASType.ContextError ->
                 Scan(d, <<"ulonglong", "ulong", "ulong">>, LAMBDA e, v :
                     Return(e, [id |-> "ContextError", major |-> v[2], minor |-> v[3]]))
          [] OTHER -> d)

\* One service context; of those that are not known nothing is returned.
GetContext(dec) ==
    LET Content(d, service) ==
            CASE service = ServiceId.BI_DIR_IIOP ->
                     Scan(d, <<"string", "ushort">>, LAMBDA e, v :
                         Return(e, [id |-> "BI_DIR_IIOP", host |-> v[1], port |-> v[2]]))
              [] service = ServiceId.SecurityAttributeService -> GetSecurityAttributes(d)
              [] OTHER -> d
    IN  After(After(GetBeginEncapsulation(dec), LAMBDA b :
                  Content([b EXCEPT !.got = dec.got], Number(Value(b)))),
              GetEndEncapsulation)

\* That many contexts, as one thing.  Every context takes octets, so that a
\* count beyond the size of the buffer ends with its end.
GetContexts(dec, n) ==
    LET count == IF n < Len(dec.bytes) THEN n ELSE Len(dec.bytes)
        all == FoldLeft(LAMBDA e, i : After(e, GetContext), [dec EXCEPT !.got = <<>>],
                        [i \in 1..count |-> i])
    IN  After(all, LAMBDA a : Together(dec, a))

BadGetServiceContext(dec) ==      \* takes the end of the buffer for no contexts
    IF dec.ok /\ AlignedTo(dec.offset, 4) + 4 > Len(dec.bytes) THEN Return(dec, <<>>)
    ELSE WithUlong(dec, GetContexts)
GetServiceContext(dec) == WithUlong(dec, GetContexts)
-----------------------------------------------------------------------------
(***************************************************************************)
(* Headers.                                                                *)
(***************************************************************************)
SkipGIOPHeader(enc) == [enc EXCEPT !.offset = 10]
BadSkipReplyHeader(enc) ==        \* goes on after what is there already
    IF enc.offset = 0 THEN [enc EXCEPT !.offset = 24] ELSE enc
SkipReplyHeader(enc) == [enc EXCEPT !.offset = 24]

SetGIOPHeader(enc, minor, type) ==
    LET head == Magic \o <<1, minor, IF enc.little THEN 1 ELSE 0, type>>
                      \o InOrder(Pattern(enc.offset - 12, 4), enc.little)
    IN  [Put([enc EXCEPT !.offset = 0], head) EXCEPT !.offset = enc.offset]

PutRequest(enc, minor, r, sender) ==
    LET start == SkipGIOPHeader(enc)
    IN  IF Early(minor)
        THEN PutFields(PutServiceContext(start, sender),
                 <<Field("ulong", r.id), Field("octet", IF r.expected THEN 1 ELSE 0),
                   Field("skip", 3), Field("blob", r.key), Field("string", r.method),
                   Field("ulong", 0)>>)
        ELSE Reserve(PutServiceContext(
                 PutFields(start,
                     <<Field("ulong", r.id), Field("octet", IF r.expected THEN 3 ELSE 0),
                       Field("skip", 3), Field("ushort", KeyAddr),
                       Field("blob", r.key), Field("string", r.method)>>),
                 sender), 8)

\* The service context of a reply is always empty.
PutReply(enc, minor, id, status) ==
    PutFields(SkipGIOPHeader(enc),
              IF Early(minor) THEN <<Field("ulong", 0), Field("ulong", id), Field("ulong", status)>>
              ELSE <<Field("ulong", id), Field("ulong", status), Field("ulong", 0)>>)

PutLocateReply(enc, id, status) ==
    PutFields(SkipGIOPHeader(enc), <<Field("ulong", id), Field("ulong", status)>>)

\* Returns minor version and type of the message.
ScanGIOPHeader(dec) ==
    IF Slice(dec, 0, 4) # Magic THEN Throw(dec)
    ELSE Scan([dec EXCEPT !.offset = @ + 4], <<"octet", "octet">>, LAMBDA d, version :
             After(GetEndian(d), LAMBDA e :
                 Scan(e, <<"octet", "ulong">>, LAMBDA f, v :
                     Return(f, [minor |-> version[2], type |-> v[1]]))))

\* The key in one of the two ways corba.js knows; it refuses the others.
ScanKey(dec, minor) ==
    IF Early(minor) THEN GetField(dec, "blob")
    ELSE Scan(dec, <<"ushort">>, LAMBDA d, v :
             IF v[1] = KeyAddr THEN GetBlob(d) ELSE Throw(d))

ScanLocateRequest(dec, minor) ==
    Scan(dec, <<"ulong">>, LAMBDA d, v :
        After(ScanKey(d, minor), LAMBDA k : Instead(k, [id |-> v[1], key |-> Value(k)])))

ScanLocateReply(dec) ==
    Scan(dec, <<"ulong", "ulong">>, LAMBDA d, v : Return(d, [id |-> v[1], status |-> v[2]]))

\* 1.2 has four response flags; two of them leave responseExpected undefined,
\* and no reply is sent.
ResponseExpected(flags, minor) == IF Early(minor) THEN flags # 0 ELSE flags = 3

TheRequestHeader(v, contexts, minor) ==
    [id |-> v[1], expected |-> ResponseExpected(v[2], minor), key |-> v[3],
     method |-> v[4], contexts |-> contexts]

\* The service contexts come first, or last and with the body aligned to eight.
ScanRequestHeader(dec, minor) ==
    LET start == [dec EXCEPT !.got = <<>>]
        Fields(d) == GetField(ScanKey(GetFields(d, <<"ulong", "octet", "skip3">>), minor),
                              "string")
    IN  IF Early(minor)
        THEN After(GetField(Fields(GetServiceContext(start)), "ulong"), LAMBDA d :
                 Return([d EXCEPT !.got = dec.got],
                        TheRequestHeader(Tail(d.got), Head(d.got), minor)))
        ELSE After(After(Fields(start), GetServiceContext), LAMBDA d :
                 Return([Align(d, 8) EXCEPT !.got = dec.got],
                        TheRequestHeader(d.got, Last(d.got), minor)))

ScanReplyHeader(dec, minor) ==
    LET TheReplyHeader(d, v) ==
            Return([d EXCEPT !.got = dec.got], [id |-> v[1], status |-> v[2]])
    IN  IF Early(minor)
        THEN After(GetServiceContext(dec), LAMBDA c :
                 Scan(c, <<"ulong", "ulong">>, TheReplyHeader))
        ELSE Scan(dec, <<"ulong", "ulong">>, LAMBDA d, v :
                 After(GetServiceContext(d), LAMBDA c : TheReplyHeader(c, v)))
=============================================================================
