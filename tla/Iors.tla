-------------------------------- MODULE Iors --------------------------------
(***************************************************************************)
(* Interoperable object references, octet by octet: what                   *)
(* GIOPEncoder.reference() writes, what GIOPDecoder.reference() reads of   *)
(* it and of the references of other ORBs, and the class IOR, which        *)
(* decodes a reference of its own without a message around it.             *)
(***************************************************************************)
EXTENDS GiopHeaders

Profile == [INTERNET_IOP |-> 0, MULTIPLE_COMPONENTS |-> 1]
ORB_TYPE == 0
OrbTypeOfCorbaJs == 1295069952      \* "M13\0"

ObjectReference(oid, host, port, key) ==
    [oid |-> oid, host |-> host, port |-> port, key |-> key]

\* What is referred to has an id, a host, a port and a key.
IsReference(r) ==
    /\ r.oid \in Seq(Octet) /\ r.host \in Seq(Octet) /\ r.key \in Seq(Octet)
    /\ r.port \in Nat /\ r.port < 65536

ForeignComponent == [id : Nat, octets : Seq(Octet)]
ForeignProfile ==
    [tag : Nat \ {Profile.INTERNET_IOP}]
    \cup [tag : {Profile.INTERNET_IOP}, minor : Octet, components : Seq(ForeignComponent)]

\* reference() of the encoder, at the version of its messages.
PutReference(enc, r) ==
    LET iiop == PutFields(PutEndian(ReserveSize(PutFields(enc,
                    <<Field("string", r.oid), Field("ulong", 1),
                      Field("ulong", Profile.INTERNET_IOP)>>))),
                    <<Field("octet", 1), Field("octet", 2), Field("string", r.host),
                      Field("ushort", r.port), Field("blob", r.key), Field("ulong", 1)>>)
        component == PutUlong(PutBeginEncapsulation(iiop, ORB_TYPE), OrbTypeOfCorbaJs)
    IN  FillinSize(PutEndEncapsulation(component))

\* object(undefined)
PutNilReference(enc) == PutUlong(PutString(enc, <<>>), 0)

\* The profiles of another ORB: [tag, minor, components] for IIOP, [tag] for others.
PutProfile(enc, p, r) ==
    LET start == PutBeginEncapsulation(enc, p.tag)
        iiop == PutFields(start,
                    <<Field("octet", 1), Field("octet", p.minor), Field("string", r.host),
                      Field("ushort", r.port), Field("blob", r.key)>>)
        Component(e, c) == PutBlob(PutUlong(e, c.id), c.octets)
    IN  PutEndEncapsulation(
            IF p.tag # Profile.INTERNET_IOP THEN PutUlong(start, 77)
            ELSE IF p.minor = 0 THEN iiop
            ELSE FoldLeft(Component, PutUlong(iiop, Len(p.components)), p.components))

PutPeerReference(enc, r, profiles) ==
    FoldLeft(LAMBDA e, p : PutProfile(e, p, r),
             PutFields(enc, <<Field("string", r.oid), Field("ulong", Len(profiles))>>),
             profiles)
-----------------------------------------------------------------------------
\* Of a component only ORB_TYPE is read, as a sequence of numbers; each of them
\* takes four octets, so that more than there are end with the buffer.
GetComponent(dec) ==
    Scan(dec, <<"ulong", "ulong">>, LAMBDA d, v :
        LET Types(e, n) == IF e.offset + 4 * n > Len(e.bytes) THEN Throw(e) ELSE e
        IN  After(IF v[1] = ORB_TYPE THEN WithUlong(d, Types) ELSE d,
                  LAMBDA e : [e EXCEPT !.offset = d.offset + v[2]]))

\* The address and key in an IIOP profile, which Rest goes on from.
GetAddress(dec, Rest(_, _)) ==
    Scan(dec, <<"octet", "octet", "string", "ushort", "blob">>, LAMBDA d, v :
        Rest(Return(d, [host |-> v[3], port |-> v[4], key |-> v[5]]), v[2]))

\* The loops over the profiles and over the components count with the same
\* variable: it is the field i of the decoder here.
BadGetProfile(dec) ==               \* leaves the encapsulation where it is read to
    After(GetBeginEncapsulation(dec), LAMBDA b :
        GetAddress([b EXCEPT !.got = dec.got], LAMBDA d, minor :
            [GetEndEncapsulation(d) EXCEPT !.offset = d.offset]))
GetProfile(dec) ==
    LET Components(d, n) ==
            IF n > Len(d.bytes) THEN Throw(d)
            ELSE [FoldLeft(LAMBDA e, k : After(e, GetComponent), d, [k \in 1..n |-> k])
                      EXCEPT !.i = n]
        Address(d) ==
            GetAddress(d, LAMBDA e, minor :
                IF minor = 0 THEN e ELSE WithUlong(e, Components))
    IN  After(After(GetBeginEncapsulation(dec), LAMBDA b :
                  LET d == [b EXCEPT !.got = dec.got]
                  IN  IF Number(Value(b)) = Profile.INTERNET_IOP THEN Address(d) ELSE d),
              GetEndEncapsulation)

Uncounted(dec) == [f \in DOMAIN dec \ {"i"} |-> dec[f]]

\* The loop over the profiles: a profile takes nine octets or throws, so that it
\* ends with the buffer at the latest.
GetProfiles(dec, count) ==
    LET Step(d, k) ==
            IF ~d.ok \/ d.i >= count THEN d
            ELSE [GetProfile(d) EXCEPT !.i = @ + 1]
    IN  Uncounted(FoldLeft(Step, dec @@ [i |-> 0], [k \in 1..Len(dec.bytes) \div 9 |-> k]))

\* reference() of the decoder: the last profile that was read counts.
GetReference(dec) ==
    Scan(dec, <<"string", "ulong">>, LAMBDA d, v :
        After(GetProfiles([d EXCEPT !.got = <<>>], v[2]), LAMBDA all :
            Return([all EXCEPT !.got = d.got], [oid |-> v[1], profiles |-> all.got])))

Named(r) ==
    IF r.profiles = <<>> THEN [oid |-> r.oid]
    ELSE ObjectReference(r.oid, Last(r.profiles).host, Last(r.profiles).port,
                         Last(r.profiles).key)

\* Whether the loop over the profiles leaves out one, or begins one that is not
\* there: the loop over the components of profile k counted on from another number.
Miscounted(profiles) ==
    \E k \in DOMAIN profiles :
        /\ profiles[k].tag = Profile.INTERNET_IOP
        /\ profiles[k].minor # 0
        /\ Len(profiles[k].components) # k - 1
        /\ k < Len(profiles) \/ Len(profiles[k].components) + 1 < Len(profiles)
=============================================================================
