---------------------------- MODULE GiopMessages ----------------------------
(***************************************************************************)
(* A request and its reply, or a locate request and its reply, octet by    *)
(* octet: written with GiopHeaders on one side and scanned on the other.   *)
(* A message may arrive in pieces; ORB.socketRcvd() takes the first piece  *)
(* for the message.  The peer may be another ORB, whose replies carry      *)
(* service contexts that corba.js does not write itself.                   *)
(***************************************************************************)
EXTENDS GiopHeaders

CONSTANTS
    Request,      \* requests: id, expected, key, method
    Sender,       \* what is known of the caller: connected, host, port, credentials
    Minor,        \* minor versions of requests
    Arguments,    \* what the stub encodes, fields
    Result,       \* what the skeleton encodes, fields
    PeerContexts, \* sequences of service contexts another ORB replies with
    InPieces      \* requests which, and whose replies, arrive in pieces

ASSUME PiecesAssumption == InPieces \subseteq Request

\* The buffer has room for the header that is put behind the body; it begins
\* with 65535 octets.
ASSUME RoomAssumption == InitialSize >= 24

\* What the types of IDL allow.
Parameter ==
    [type : {"ulong"}, v : Nat] \cup [type : {"ushort"}, v : UnsignedShort]
    \cup [type : {"octet"}, v : Octet] \cup [type : {"blob", "string"}, v : Seq(Octet)]

Credentials == [user : Seq(Octet), password : Seq(Octet), target : Seq(Octet)]

ASSUME RequestAssumption ==
    \A r \in Request : /\ r.id \in Nat /\ r.expected \in BOOLEAN
                       /\ r.key \in Seq(Octet) /\ r.method \in Seq(Octet)

ASSUME SenderAssumption ==
    \A s \in Sender : /\ s.connected \in BOOLEAN /\ s.host \in Seq(Octet) /\ s.port \in UnsignedShort
                      /\ s.credentials = Absent \/ s.credentials \in Credentials

ASSUME BodyAssumption ==
    /\ Minor \subseteq 0..2
    /\ Arguments \in Seq(Parameter) /\ Result \in Seq(Parameter)

ASSUME ContextAssumption ==
    \A contexts \in PeerContexts :
        contexts \in Seq([service : Nat,
                         fields : Seq(Parameter \cup [type : {"number"}, v : Word(8)])])

VARIABLES
    phase,        \* "idle", "request", "received", "reply", "answered", "threw"
    little,       \* the platform of the caller is little endian
    sent,         \* the request, with its sender and version
    wire,         \* the message on its way
    seen,         \* what the receiver of the request has scanned
    replied,      \* what was replied: id, status, fields, contexts
    answer        \* what the caller has scanned of the reply

vars == <<phase, little, sent, wire, seen, replied, answer>>

Nothing == [id |-> Absent]

Message(enc) == Slice(enc, 0, enc.offset)

Types(fields) == [i \in DOMAIN fields |-> fields[i].type]
Values(fields) == [i \in DOMAIN fields |-> fields[i].v]

\* The octets that the first event with data delivers.
FirstPiece(n) == IF sent.request \in InPieces THEN n \in 0..Len(wire) ELSE n = Len(wire)
-----------------------------------------------------------------------------
Init ==
    /\ phase = "idle"
    /\ little \in BOOLEAN
    /\ sent = Nothing
    /\ wire = <<>>
    /\ seen = Nothing
    /\ replied = Nothing
    /\ answer = Nothing

CallCore(r, minor, s) ==
    /\ phase = "idle"
    /\ phase' = "request"
    /\ sent' = [id |-> r.id, request |-> r, minor |-> minor, sender |-> s]
    /\ \E h \in {PutRequest(Encoder(little), minor, r, s)} :
           wire' = Message(SetGIOPHeader(PutFields(h, Arguments), minor, MessageType.REQUEST))
    /\ UNCHANGED <<little, seen, replied, answer>>

\* Only other ORBs ask where an object is.
PeerLocates(r, minor) ==
    /\ phase = "idle"
    /\ phase' = "request"
    /\ sent' = [id |-> r.id, request |-> r, minor |-> minor, sender |-> Absent]
    /\ wire' = LET e == PutFields(SkipGIOPHeader(Encoder(little)),
                            <<Field("ulong", r.id)>>
                            \o (IF Early(minor) THEN <<>> ELSE <<Field("ushort", KeyAddr)>>)
                            \o <<Field("blob", r.key)>>)
               IN  Message(SetGIOPHeader(e, minor, MessageType.LOCATE_REQUEST))
    /\ UNCHANGED <<little, seen, replied, answer>>

\* What has been read of fields, as far as it could be.
Read(dec) == IF dec.ok THEN dec.got ELSE <<>>

\* Returns what tells the message's type, its header, and its arguments.
ScanRequest(bytes) ==
    After(ScanGIOPHeader(Decoder(bytes)), LAMBDA d :
        IF Value(d).type = MessageType.REQUEST
        THEN After(ScanRequestHeader(d, Value(d).minor), LAMBDA h :
                 Return(h, Read(GetFields([h EXCEPT !.got = <<>>], Types(Arguments)))))
        ELSE After(ScanLocateRequest(d, Value(d).minor), LAMBDA h : Return(h, <<>>)))

\* socketRcvd() of the servant's ORB, up to the dispatch.  An exception while
\* scanning leaves the handler of the socket's event.
ReceiveRequest(n) ==
    /\ phase = "request"
    /\ FirstPiece(n)
    /\ \E d \in {ScanRequest(SubSeq(wire, 1, n))} :
           IF d.ok
           THEN /\ phase' = "received"
                /\ seen' = [id |-> d.got[2].id, cut |-> n < Len(wire), header |-> d.got[2],
                            type |-> d.got[1].type, args |-> d.got[3]]
           ELSE phase' = "threw" /\ seen' = seen
    /\ wire' = <<>>
    /\ UNCHANGED <<little, sent, replied, answer>>

BadSendReply(enc, status, fields) ==      \* the message size after the header
    LET e == PutFields(SkipReplyHeader(enc), fields)
        h == PutReply(e, 2, seen.id, status)
    IN  Slice(SetGIOPHeader(h, 2, MessageType.REPLY), 0, e.offset)
\* The body first, then the message's header, then the header of the reply.
SendReply(enc, status, fields) ==
    LET e == PutFields(SkipReplyHeader(enc), fields)
        g == SetGIOPHeader(e, 2, MessageType.REPLY)
    IN  Slice(PutReply(g, 2, seen.id, status), 0, e.offset)

Replies(encoder, status, fields) ==
    /\ phase = "received"
    /\ seen.type = MessageType.REQUEST
    /\ seen.header.expected
    /\ phase' = "reply"
    /\ wire' = SendReply(encoder, status, fields)
    /\ replied' = [id |-> seen.id, status |-> status, fields |-> fields, contexts |-> <<>>]
    /\ UNCHANGED <<little, sent, seen, answer>>

MethodResolves ==
    \E platform \in BOOLEAN : Replies(Encoder(platform), ReplyStatus.NO_EXCEPTION, Result)

SystemException(id, minor) ==
    <<Field("string", id), Field("ulong", minor), Field("ulong", 1)>>

\* OBJECT_NOT_EXIST, NO_PERMISSION and BAD_OPERATION.
Refuse ==
    \E platform \in BOOLEAN :
        Replies(Encoder(platform), ReplyStatus.SYSTEM_EXCEPTION, SystemException(<<78>>, 1))

\* The servant has failed, possibly while its result was being encoded: the
\* same encoder is used again.
MethodRejects ==
    \E platform \in BOOLEAN, k \in 0..Len(Result) :
        LET used == PutFields(SkipReplyHeader(Encoder(platform)), SubSeq(Result, 1, k))
        IN  \/ Replies(used, ReplyStatus.SYSTEM_EXCEPTION, SystemException(<<83>>, 1))
            \/ Replies(used, ReplyStatus.SYSTEM_EXCEPTION,
                       SystemException(<<71>>, 0) \o <<Field("string", <<84, 84, 84>>)>>)

AnswerLocate(known) ==
    /\ phase = "received"
    /\ seen.type = MessageType.LOCATE_REQUEST
    /\ phase' = "reply"
    /\ wire' = Message(SetGIOPHeader(PutLocateReply(Encoder(little), seen.id, known), 2,
                                     MessageType.LOCATE_REPLY))
    /\ replied' = [id |-> seen.id, status |-> known, fields |-> <<>>, contexts |-> <<>>]
    /\ UNCHANGED <<little, sent, seen, answer>>

\* The encapsulated octets of a service context another ORB adds.
PutPeerContext(enc, c) ==
    PutEndEncapsulation(PutFields(PutBeginEncapsulation(enc, c.service), c.fields))

PeerReplies(minor, contexts) ==
    /\ phase = "received"
    /\ seen.type = MessageType.REQUEST
    /\ seen.header.expected
    /\ phase' = "reply"
    /\ wire' = LET start == SkipGIOPHeader(Encoder(little))
                   ids == <<Field("ulong", seen.id), Field("ulong", ReplyStatus.NO_EXCEPTION)>>
                   List(e) == FoldLeft(PutPeerContext, PutUlong(e, Len(contexts)), contexts)
                   e == PutFields(IF Early(minor) THEN PutFields(List(start), ids)
                                  ELSE List(PutFields(start, ids)), Result)
               IN  Message(SetGIOPHeader(e, minor, MessageType.REPLY))
    /\ replied' = [id |-> seen.id, status |-> ReplyStatus.NO_EXCEPTION, fields |-> Result,
                   contexts |-> contexts]
    /\ UNCHANGED <<little, sent, seen, answer>>

ScanReply(bytes) ==
    After(ScanGIOPHeader(Decoder(bytes)), LAMBDA d :
        After(IF Value(d).type = MessageType.REPLY THEN ScanReplyHeader(d, Value(d).minor)
              ELSE ScanLocateReply(d), LAMBDA h :
            Return(h, Read(GetFields([h EXCEPT !.got = <<>>], Types(replied.fields))))))

\* socketRcvd() of the caller's ORB; of a locate reply, what the tests scan.
ReceiveReply(n) ==
    /\ phase = "reply"
    /\ FirstPiece(n)
    /\ \E d \in {ScanReply(SubSeq(wire, 1, n))} :
           IF d.ok
           THEN /\ phase' = "answered"
                /\ answer' = [id |-> d.got[2].id, status |-> d.got[2].status,
                              cut |-> n < Len(wire), body |-> d.got[3]]
           ELSE phase' = "threw" /\ answer' = answer
    /\ UNCHANGED <<little, sent, wire, seen, replied>>

Next ==
    \/ \E r \in Request, m \in Minor, s \in Sender : CallCore(r, m, s)
    \/ \E r \in Request, m \in Minor : PeerLocates(r, m)
    \/ \E n \in 0..Len(wire) : ReceiveRequest(n)
    \/ MethodResolves
    \/ Refuse
    \/ MethodRejects
    \/ \E known \in {0, 1} : AnswerLocate(known)
    \/ \E m \in Minor, c \in PeerContexts : PeerReplies(m, c)
    \/ \E n \in 0..Len(wire) : ReceiveReply(n)

Spec == Init /\ [][Next]_vars
-----------------------------------------------------------------------------
\* The credentials among the scanned service contexts.
CredentialsIn(contexts) ==
    {contexts[i].credentials :
        i \in {i \in DOMAIN contexts : contexts[i].id = "EstablishContext"}}

SentCredentials ==
    IF sent.sender.connected /\ sent.sender.credentials # Absent
    THEN {sent.sender.credentials} ELSE {}

(***************************************************************************)
(* A request that arrives whole is scanned to what was called: the object, *)
(* the operation, the credentials and the arguments, whatever the version, *)
(* the byte order and the lengths of the fields before, as long as the     *)
(* token of the credentials has less than 256 octets: the lengths of       *)
(* longer ones are written and read in different ways (giop.ts:1015        *)
(* against giop.ts:1727-1741), and such credentials are lost               *)
(* (giop.ts:506-632 against giop.ts:1073-1259).                            *)
(***************************************************************************)
RequestArrives ==
    /\ phase = "received" /\ ~seen.cut /\ seen.type = MessageType.REQUEST =>
           /\ seen.header.id = sent.id
           /\ seen.header.expected = sent.request.expected
           /\ seen.header.key = sent.request.key
           /\ seen.header.method = sent.request.method
           /\ CredentialsIn(seen.header.contexts) = SentCredentials
           /\ seen.args = Values(Arguments)
    /\ phase = "threw" => sent.request \in InPieces

(***************************************************************************)
(* If only the first piece of a request has arrived, it is dispatched to   *)
(* the object and operation of the request or not at all: the key and the  *)
(* operation, which may be cut silently, are each followed in the header   *)
(* by a number, whose scan throws (giop.ts:1123, giop.ts:1537-1554,        *)
(* orb.ts:488).  Credentials are not: in version 1.2 they end the header,  *)
(* may be lost with what is cut, and nothing is claimed of them.           *)
(***************************************************************************)
CutNotMisdirected ==
    phase = "received" /\ seen.type = MessageType.REQUEST =>
        /\ seen.header.id = sent.id
        /\ seen.header.expected = sent.request.expected
        /\ seen.header.key = sent.request.key
        /\ seen.header.method = sent.request.method

(***************************************************************************)
(* The reply is the one that was sent, also when the encoder had already   *)
(* been used for part of a result that could not be encoded                *)
(* (orb.ts:602-626), and whatever service contexts another ORB adds.       *)
(***************************************************************************)
ReplyArrives ==
    phase = "answered" /\ ~answer.cut =>
        /\ answer.id = sent.id
        /\ answer.status = replied.status
        /\ answer.body = Values(replied.fields)

(***************************************************************************)
(* The message size in the header is the size of the message, from which   *)
(* the peer finds the next message in the stream (giop.ts:484 counts from  *)
(* the encoder's offset, which setReplyHeader() moves back into the header *)
(* afterwards).                                                            *)
(***************************************************************************)
SizeTellsLength ==
    wire # <<>> =>
        Number(InOrder(SubSeq(wire, 9, 12), wire[7] = 1)) = Len(wire) - 12
=============================================================================
