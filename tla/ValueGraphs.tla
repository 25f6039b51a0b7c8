---------------------------- MODULE ValueGraphs ----------------------------
(***************************************************************************)
(* Valuetypes on the wire: GIOPEncoder.object() writes a graph of objects  *)
(* member by member, referring back to the repository ids and objects it   *)
(* has written already; GIOPDecoder.object() builds the graph again.       *)
(*                                                                         *)
(* The recursion of both is a stack, the actions are the visits of one     *)
(* field.  The generated functions encode<Type>() and init<Type>() visit   *)
(* the inherited fields before the own ones: Fields has both in order.     *)
(***************************************************************************)
EXTENDS Cdr, FiniteSets

CONSTANTS
    Class,        \* the classes of what is sent: valuetypes and what derives from them
    Parent,       \* the class whose prototype is next in the chain, or Root
    Root,         \* the end of the prototype chain
    Name,         \* the name in a class's repository id, in octets: with its modules
    Identifier,   \* the identifier alone, by which the generated decoders know it
    Constructor,  \* the name JavaScript knows the class by: constructor.name
    Fields,       \* for each class a sequence of Class \cup {"octet"}, Class a formal type
    Here, There,  \* the classes registered by the sender and by the receiver
    Null,         \* no object
    Graph,        \* graphs: node to [class, members]
    Formals       \* sequences of formal types of what is sent

\* A prototype chain ends: no class derives from itself, be it indirectly.
ASSUME ClassAssumption ==
    /\ Root \notin Class /\ Here \subseteq Class /\ There \subseteq Class
    /\ Parent \in [Class -> Class \cup {Root}]
    /\ \A S \in SUBSET Class : S # {} => \E c \in S : Parent[c] \notin S
    /\ \A g \in Graph : \A n \in DOMAIN g : g[n].class \in Class

VARIABLES
    heap,         \* the sender's objects
    formals,      \* the formal types of what is sent
    roots,        \* the actual for each of the formals
    phase,        \* "encode", "decode", "done" or "threw"
    enc, todo,    \* the encoder, and the fields still to be visited
    repositoryIds,   \* the positions of the repository ids that are written
    objectPosition,  \* the positions of the objects that are written
    bare,         \* history: the objects that another ORB has written without their id
    dec, frames,  \* the decoder, and the constructors that are running
    objects,      \* the decoder's table: position to index in built
    built         \* the objects whose constructor has returned

sender == <<heap, formals, roots, enc, todo, repositoryIds, objectPosition,
            bare>>
receiver == <<dec, frames, objects, built>>
vars == <<sender, receiver, phase>>

RepositoryId(c) == <<73, 68, 76, 58>> \o Name[c] \o <<58, 49, 46, 48>>   \* IDL:...:1.0

BareTag == <<127, 255, 255, 0>>
SingleIdTag == <<127, 255, 255, 2>>
Indirection == <<255, 255, 255, 255>>

Extend(f, x, v) == [y \in DOMAIN f \cup {x} |-> IF y = x THEN v ELSE f[y]]

\* chain[c]: the first class of c's prototype chain that is registered, or Root.
BestMatch(c) ==
    LET chain[d \in Class \cup {Root}] ==
            IF d = Root \/ d \in Here THEN d ELSE chain[Parent[d]]
    IN  chain[c]

\* An object of class c fits where a value of a type is expected.
Derives(c, type) ==
    LET chain[d \in Class \cup {Root}] == d = type \/ (d # Root /\ chain[Parent[d]])
    IN  chain[c]

\* The fields of an object as a list of things to write.
Visits(types, actuals) ==
    [i \in DOMAIN types |-> [type |-> types[i], actual |-> actuals[i]]]
-----------------------------------------------------------------------------
\* serialize() begins with the byte order; the stubs' arguments follow a header.
Init ==
    /\ heap \in Graph
    /\ formals \in Formals
    /\ roots \in [DOMAIN formals -> DOMAIN heap \cup {Null}]
    /\ \A i \in DOMAIN formals : IF formals[i] = "octet" THEN roots[i] = Null
           ELSE roots[i] # Null /\ Derives(heap[roots[i]].class, formals[i])
    /\ phase = "encode"
    /\ \E little \in BOOLEAN : enc = PutEndian(Encoder(little))
    /\ todo = Visits(formals, roots)
    /\ repositoryIds = <<>> /\ objectPosition = <<>> /\ bare = {}
    /\ dec = Decoder(<<>>) /\ frames = <<>> /\ objects = <<>> /\ built = <<>>

EncodeFails ==
    /\ phase' = "threw"
    /\ UNCHANGED <<sender, receiver>>

Encoded(e, rest) ==
    /\ enc' = e
    /\ todo' = rest
    /\ UNCHANGED <<heap, formals, roots, phase, receiver>>

EncodeOctet ==
    /\ phase = "encode" /\ todo # <<>>
    /\ Head(todo).type = "octet"
    /\ Encoded(PutOctet(enc, 7), Tail(todo))
    /\ UNCHANGED <<repositoryIds, objectPosition, bare>>

Encoding(c) == phase = "encode" /\ todo # <<>> /\ Head(todo).type \in Class /\ c = Head(todo).actual

EncodeNull ==
    /\ Encoding(Null)
    /\ Encoded(PutUlong(enc, 0), Tail(todo))
    /\ UNCHANGED <<repositoryIds, objectPosition, bare>>

\* The distance from the long that holds it.
PutIndirection(enc1, position) ==
    LET e == PutNumber(enc1, Indirection)
    IN  PutNumber(e, Signed(position - e.offset))

EncodeSameObject(n) ==
    /\ Encoding(n)
    /\ n \in DOMAIN objectPosition
    /\ Encoded(PutIndirection(enc, objectPosition[n]), Tail(todo))
    /\ UNCHANGED <<repositoryIds, objectPosition, bare>>

\* The type is written, by its name or by where its name was.
EncodeRepositoryId(start, c, rest) ==
    LET tagged == PutNumber(start, SingleIdTag)
    IN  IF c \in DOMAIN repositoryIds
        THEN /\ Encoded(PutIndirection(tagged, repositoryIds[c]), rest)
             /\ UNCHANGED repositoryIds
        ELSE /\ Encoded(PutString(tagged, RepositoryId(c)), rest)
             /\ repositoryIds' = Extend(repositoryIds, c, tagged.offset)

\* As an object of whatever registered class it derives from.
BadSerializable(n) == BestMatch(heap[n].class) # Root

\* The best match has to be the object's own class, which is tested by the names
\* of the constructors.
Serializable(n) ==
    LET c == BestMatch(heap[n].class)
    IN  c # Root /\ Constructor[c] = Constructor[heap[n].class]

\* Another ORB may leave out a repository id that the formal type tells.
EncodeObject(n) ==
    /\ Encoding(n)
    /\ n \notin DOMAIN objectPosition
    /\ LET c == BestMatch(heap[n].class)
           start == Reserve(enc, 4)
           rest == Visits(Fields[c], SubSeq(heap[n].members, 1, Len(Fields[c]))) \o Tail(todo)
       IN  IF ~Serializable(n) THEN EncodeFails
           ELSE /\ objectPosition' = Extend(objectPosition, n, start.offset)
                /\ \/ /\ EncodeRepositoryId(start, c, rest)
                      /\ UNCHANGED bare
                   \/ /\ c = Head(todo).type
                      /\ Encoded(PutNumber(start, BareTag), rest)
                      /\ bare' = bare \cup {n}
                      /\ UNCHANGED repositoryIds

\* The message is sent, and the receiver begins with the byte order.
Send ==
    /\ phase = "encode" /\ todo = <<>>
    /\ phase' = "decode"
    /\ dec' = GetEndian(Decoder(SubSeq(enc.bytes, 1, enc.offset)))
    /\ frames' = <<[class |-> Root, at |-> 0, members |-> <<>>, types |-> formals]>>
    /\ UNCHANGED <<sender, objects, built>>
-----------------------------------------------------------------------------
Top == Last(frames)
Decoding(type) == phase = "decode" /\ Top.types # <<>> /\ type = Head(Top.types)

\* The field of the innermost constructor is set to v.
WithMember(fs, v) ==
    [fs EXCEPT ![Len(fs)].members = Append(@, v), ![Len(fs)].types = Tail(@)]

Decoded(d, fs) ==
    /\ dec' = [d EXCEPT !.got = <<>>]
    /\ frames' = fs
    /\ UNCHANGED <<sender, objects, built, phase>>

DecodeFails ==
    /\ phase' = "threw"
    /\ UNCHANGED <<sender, receiver>>

DecodeOctet ==
    /\ Decoding("octet")
    /\ LET d == GetNumber(dec, 1)
       IN  IF d.ok THEN Decoded(d, WithMember(frames, Null)) ELSE DecodeFails

\* The text of a repository id, and the decoder after it.
BadGetRepositoryId(d) ==            \* counts from behind the long
    LET len == GetNumber(d, 4)
        hop == GetNumber(len, 4)
        there == GetString([hop EXCEPT !.offset = @ + SignedNumber(Value(hop))])
    IN  IF ~len.ok THEN len
        ELSE IF Value(len) # Indirection THEN StringOf(len, Number(Value(len)))
        ELSE IF ~hop.ok THEN hop
        ELSE IF ~there.ok THEN there ELSE [there EXCEPT !.offset = hop.offset]
GetRepositoryId(d) ==
    LET len == GetNumber(d, 4)
        hop == GetNumber(len, 4)
        to == len.offset + SignedNumber(Value(hop))
        there == GetString([hop EXCEPT !.offset = to - (to % 4)])
    IN  IF ~len.ok THEN len
        ELSE IF Value(len) # Indirection THEN StringOf(len, Number(Value(len)))
        ELSE IF ~hop.ok THEN hop
        ELSE IF ~there.ok THEN there ELSE [there EXCEPT !.offset = hop.offset]

LookupValueType(name) == {c \in There : Name[c] = name}

ShortName(id) == SubSeq(id, 5, Len(id) - 4)

\* A value without a repository id is taken for the formal type, which the
\* generated code names by its identifier alone.
DecodeValue(type) ==
    /\ Decoding(type) /\ type \in Class
    /\ LET tag == GetNumber(dec, 4)
           code == Value(tag)
           id == IF code = SingleIdTag THEN GetRepositoryId(tag) ELSE tag
           classes == LookupValueType(IF code = SingleIdTag THEN ShortName(Value(id))
                                      ELSE Identifier[type])
           at == tag.offset - 4
       IN  /\ tag.ok => code \notin {<<0, 0, 0, 0>>, Indirection}
           /\ IF ~tag.ok \/ code \notin {SingleIdTag, BareTag} \/ ~id.ok \/ classes = {}
              THEN DecodeFails
              ELSE \E c \in classes :
                       Decoded(id, Append(frames, [class |-> c, at |-> at, members |-> <<>>,
                                                   types |-> Fields[c]]))

DecodeNull(type) ==
    /\ Decoding(type) /\ type \in Class
    /\ LET tag == GetNumber(dec, 4)
       IN  /\ tag.ok /\ Value(tag) = <<0, 0, 0, 0>>
           /\ Decoded(tag, WithMember(frames, Null))

\* What an indirection is looked up by, and what a new object is entered under.
KeyOfIndirection(behind, distance) == behind + distance + 2
KeyOfObject(at) == at + 2

DecodeIndirection(type) ==
    /\ Decoding(type) /\ type \in Class
    /\ LET tag == GetNumber(dec, 4)
           hop == GetNumber(tag, 4)
           key == KeyOfIndirection(hop.offset, SignedNumber(Value(hop)))
       IN  /\ tag.ok /\ Value(tag) = Indirection
           /\ IF hop.ok /\ key \in DOMAIN objects
              THEN Decoded(hop, WithMember(frames, objects[key]))
              ELSE DecodeFails

\* The constructor returns and the object is entered into the table.
ConstructorReturns ==
    /\ phase = "decode" /\ Len(frames) > 1 /\ Top.types = <<>>
    /\ built' = Append(built, [class |-> Top.class, at |-> Top.at, members |-> Top.members])
    /\ objects' = Extend(objects, KeyOfObject(Top.at), Len(built) + 1)
    /\ frames' = WithMember(Front(frames), Len(built) + 1)
    /\ UNCHANGED <<sender, dec, phase>>

ObjectReturns ==
    /\ phase = "decode" /\ Len(frames) = 1 /\ Top.types = <<>>
    /\ phase' = "done"
    /\ UNCHANGED <<sender, receiver>>

Next ==
    \/ EncodeOctet
    \/ EncodeNull
    \/ \E n \in DOMAIN heap : EncodeSameObject(n) \/ EncodeObject(n)
    \/ Send
    \/ DecodeOctet
    \/ \E type \in Class : DecodeValue(type) \/ DecodeNull(type) \/ DecodeIndirection(type)
    \/ ConstructorReturns
    \/ ObjectReturns

Spec == Init /\ [][Next]_vars
-----------------------------------------------------------------------------
\* Object v of the receiver is node n of the sender: it has its position.
SameValue(v, n) ==
    IF v = Null THEN n = Null
    ELSE n \in DOMAIN objectPosition /\ objectPosition[n] = built[v].at

SameMembers(vs, ns) ==
    DOMAIN vs = DOMAIN ns /\ \A i \in DOMAIN vs : SameValue(vs[i], ns[i])

\* Of an object that is sent as one of a registered class of the same name that
\* it derives from, only the fields of that class are sent.
SentAs(n) == BestMatch(heap[n].class)
SentMembers(n) == SubSeq(heap[n].members, 1, Len(Fields[SentAs(n)]))

\* Where object n is referred to: by a root or a member of what was encoded.
Referrers(n) ==
    {<<0, i>> : i \in {j \in DOMAIN roots : roots[j] = n}}
    \cup {r \in (DOMAIN objectPosition) \X (1..4) :
             r[2] \in DOMAIN SentMembers(r[1]) /\ SentMembers(r[1])[r[2]] = n}

SecondReference(n) == Cardinality(Referrers(n)) > 1

\* A class in a module whose repository id another ORB has left out: it is looked
\* up without the module, and not found, or another one is.
Misnamed == \E n \in bare : Identifier[SentAs(n)] # Name[SentAs(n)]

\* An object four octets behind another is entered where a second reference to
\* that one is looked for.
Mistaken ==
    \E n \in bare, m \in DOMAIN objectPosition :
        objectPosition[m] = objectPosition[n] + 4 /\ SecondReference(n)

(***************************************************************************)
(* The graph that is built is the graph that was sent: the same members,   *)
(* one object for each object, and of its own class, whatever lengths the  *)
(* names have and however often a repository id is referred to             *)
(* (giop.ts:645-667, 725-785, 1385-1486).  Only an object of a class that  *)
(* is not registered becomes one of a class it derives from, if that has   *)
(* the same name in JavaScript (giop.ts:773).  There are two exceptions,   *)
(* both when another ORB leaves out repository ids.  A class in a module   *)
(* may be taken for one outside of it (orb.ts:816); and when the first     *)
(* field of an object is a value, a second reference to the object yields  *)
(* that value, as it is entered at the offset at which the object is       *)
(* looked for (giop.ts:1474 and 1480-1483).  Any other second reference is *)
(* refused: see SentCanBeBuilt.                                            *)
(***************************************************************************)
GraphBuilt ==
    phase = "done" /\ ~Misnamed /\ ~Mistaken =>
        /\ SameMembers(frames[1].members, roots)
        /\ Cardinality({built[i].at : i \in DOMAIN built}) = Len(built)
        /\ Len(built) = Cardinality(DOMAIN objectPosition)
        /\ \A i \in DOMAIN built : \E n \in DOMAIN objectPosition :
               /\ SameValue(i, n)
               /\ \/ built[i].class = heap[n].class
                  \/ /\ heap[n].class \notin Here
                     /\ Derives(heap[n].class, built[i].class)
                     /\ Constructor[built[i].class] = Constructor[heap[n].class]
               /\ SameMembers(built[i].members, SentMembers(n))

UnknownToReceiver == \E n \in DOMAIN objectPosition : SentAs(n) \notin There

(***************************************************************************)
(* A tree that was encoded is decoded, however often a repository id is    *)
(* referred to, unless it has a class that the receiver has not registered *)
(* (giop.ts:1385-1469), or another ORB has left out the repository id of a *)
(* class that is declared in a module (typeIDLtoGIOPTS.ts:17, orb.ts:816). *)
(***************************************************************************)
TreesCanBeBuilt ==
    phase = "threw" /\ todo = <<>> =>
        \/ UnknownToReceiver
        \/ Misnamed
        \/ \E n \in DOMAIN objectPosition : SecondReference(n)

(***************************************************************************)
(* The same of any graph: README.md:17 says it of "trees or cyclic         *)
(* graphs".  A second reference to an object is looked for four octets     *)
(* behind the key under which the object was entered (giop.ts:1474 and     *)
(* 1480), and not until its constructor has returned is it entered at all. *)
(***************************************************************************)
SentCanBeBuilt == phase = "threw" /\ todo = <<>> => UnknownToReceiver \/ Misnamed
=============================================================================
