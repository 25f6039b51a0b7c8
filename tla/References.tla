----------------------------- MODULE References -----------------------------
(***************************************************************************)
(* Object references passed between ORBs: GIOPEncoder.reference() and      *)
(* GIOPDecoder.object(), the servants of each ORB with their ids, the      *)
(* stubs of each connection, and the naming service.                       *)
(*                                                                         *)
(* A connection has two ends, each with the addresses it reports.  On the  *)
(* wire a reference is an address and an id; x is the object it was made   *)
(* from.  Address and port are one value here.                             *)
(***************************************************************************)
EXTENDS Naturals, FiniteSets

CONSTANTS
    Orb,
    End,            \* ends of connections
    Peer,           \* the other end of each
    Owner,          \* the ORB of each end
    Local, Remote,  \* the address each end reports for itself and for its peer
    Bound,          \* names of the naming services
    MaxId,          \* bound: servants an ORB registers
    InUse           \* servants are unregistered while they are still referred to

ASSUME EndAssumption ==
    /\ Peer \in [End -> End]
    /\ Owner \in [End -> Orb]
    /\ \A e \in End : Peer[Peer[e]] = e
ASSUME MaxIdAssumption == MaxId \in Nat
ASSUME InUseAssumption == InUse \in BOOLEAN

Id == 1..MaxId

\* The denotation of a servant or a stub is an ORB with an id of its servants.
Object == Orb \X Id

\* What an application holds: a servant, or a stub of one of its ends.
Skeleton == [kind : {"skeleton"}, id : Id]
Stub == [kind : {"stub"}, end : End, id : Id]

SkeletonOf(id) == [kind |-> "skeleton", id |-> id]
StubOf(e, id) == [kind |-> "stub", end |-> e, id |-> id]

Message == [to : End, host : {Local[e] : e \in End} \cup {Remote[e] : e \in End},
            id : Id, x : Object]

VARIABLES
    stubsByName,       \* the ORBs that have registered the stub class
    servantIdCounter,  \* of each ORB
    servants,          \* ids of the servants registered at each ORB
    names,             \* naming services: sets of pairs of a name and an id
    stubsById,         \* ids of the stubs of each end
    held,              \* what each ORB's application holds
    wire               \* references in messages on their way

vars == <<stubsByName, servantIdCounter, servants, names, stubsById, held, wire>>

Denotes(o, v) == IF v.kind = "skeleton" THEN <<o, v.id>> ELSE <<Owner[Peer[v.end]], v.id>>

TypeOK ==
    /\ stubsByName \subseteq Orb
    /\ servantIdCounter \in [Orb -> 0..MaxId]
    /\ servants \in [Orb -> SUBSET Id]
    /\ names \in [Orb -> SUBSET (Bound \X Id)]
    /\ stubsById \in [End -> SUBSET Id]
    /\ held \in [Orb -> SUBSET (Skeleton \cup Stub)]
    /\ wire \subseteq Message

Init ==
    /\ stubsByName = {}
    /\ servantIdCounter = [o \in Orb |-> 0]
    /\ servants = [o \in Orb |-> {}]
    /\ names = [o \in Orb |-> {}]
    /\ stubsById = [e \in End |-> {}]
    /\ held = [o \in Orb |-> {}]
    /\ wire = {}

RegisterStubClass(o) ==
    /\ stubsByName' = stubsByName \cup {o}
    /\ UNCHANGED <<servantIdCounter, servants, names, stubsById, held, wire>>

\* The constructor of a Skeleton.
RegisterServant(o) ==
    LET id == servantIdCounter[o] + 1
    IN  /\ id <= MaxId
        /\ servantIdCounter' = [servantIdCounter EXCEPT ![o] = id]
        /\ servants' = [servants EXCEPT ![o] = @ \cup {id}]
        /\ held' = [held EXCEPT ![o] = @ \cup {SkeletonOf(id)}]
        /\ UNCHANGED <<stubsByName, names, stubsById, wire>>

\* A reference to the servant is on its way, or somebody has it.
Referred(o, id) ==
    \/ \E m \in wire : m.x = <<o, id>>
    \/ \E p \in Orb : \E v \in held[p] : Denotes(p, v) = <<o, id>>
    \/ \E b \in names[o] : b[2] = id

UnregisterServant(o, id) ==
    /\ id \in servants[o]
    /\ InUse \/ ~Referred(o, id)
    /\ servants' = [servants EXCEPT ![o] = @ \ {id}]
    /\ UNCHANGED <<stubsByName, servantIdCounter, names, stubsById, held, wire>>

\* The application lets go of what it holds; the connection keeps the stub.
Forget(o, v) ==
    /\ v \in held[o]
    /\ held' = [held EXCEPT ![o] = @ \ {v}]
    /\ UNCHANGED <<stubsByName, servantIdCounter, servants, names, stubsById, wire>>

\* What GIOPEncoder.reference() writes when it encodes v for the end e.
Address(e, v) == IF v.kind = "stub" THEN Remote[e] ELSE Local[e]

BadReference(e, v) ==              \* an object without its key
    [to |-> Peer[e], host |-> Address(e, v), id |-> 0, x |-> Denotes(Owner[e], v)]
Reference(e, v) ==
    [to |-> Peer[e], host |-> Address(e, v), id |-> v.id, x |-> Denotes(Owner[e], v)]

Send(e, v) ==
    /\ v \in held[Owner[e]]
    /\ wire' = wire \cup {Reference(e, v)}
    /\ UNCHANGED <<stubsByName, servantIdCounter, servants, names, stubsById, held>>

\* A name that is bound already is refused.
Bind(o, name, id) ==
    /\ SkeletonOf(id) \in held[o]
    /\ \A b \in names[o] : b[1] # name
    /\ names' = [names EXCEPT ![o] = @ \cup {<<name, id>>}]
    /\ UNCHANGED <<stubsByName, servantIdCounter, servants, stubsById, held, wire>>

\* resolve() or resolve_str() of the naming service of e's ORB, called by its
\* peer: the reply has the reference, and an unbound name none.
Resolve(e, name) ==
    \E b \in names[Owner[e]] :
        /\ b[1] = name
        /\ wire' = wire \cup {Reference(e, SkeletonOf(b[2]))}
        /\ UNCHANGED <<stubsByName, servantIdCounter, servants, names, stubsById, held>>

BadOwnServant(m) == m.id \in servants[Owner[m.to]]     \* whatever the address
OwnServant(m) == m.host = Local[m.to] /\ m.id \in servants[Owner[m.to]]

\* The own servant, else the existing stub of the end, else a new one.
Received(m) ==
    /\ OwnServant(m)
    /\ held' = [held EXCEPT ![Owner[m.to]] = @ \cup {SkeletonOf(m.id)}]
    /\ UNCHANGED stubsById

BadReceivedStub(m) ==              \* as if it came from the other end
    /\ ~OwnServant(m)
    /\ Owner[m.to] \in stubsByName
    /\ held' = [held EXCEPT ![Owner[m.to]] = @ \cup {StubOf(Peer[m.to], m.id)}]
    /\ stubsById' = [stubsById EXCEPT ![m.to] = @ \cup {m.id}]
ReceivedStub(m) ==
    /\ ~OwnServant(m)
    /\ m.id \in stubsById[m.to] \/ Owner[m.to] \in stubsByName
    /\ held' = [held EXCEPT ![Owner[m.to]] = @ \cup {StubOf(m.to, m.id)}]
    /\ stubsById' = [stubsById EXCEPT ![m.to] = @ \cup {m.id}]

ObjectAdapter(m) ==
    /\ ~OwnServant(m)
    /\ m.id \notin stubsById[m.to] /\ Owner[m.to] \notin stubsByName
    /\ UNCHANGED <<held, stubsById>>

Receive(m) ==
    /\ m \in wire
    /\ wire' = wire \ {m}
    /\ Received(m) \/ ReceivedStub(m) \/ ObjectAdapter(m)
    /\ UNCHANGED <<stubsByName, servantIdCounter, servants, names>>

Next ==
    \/ \E o \in Orb : RegisterStubClass(o) \/ RegisterServant(o)
    \/ \E o \in Orb, id \in Id : UnregisterServant(o, id)
    \/ \E o \in Orb : \E v \in held[o] : Forget(o, v)
    \/ \E e \in End : \E v \in held[Owner[e]] : Send(e, v)
    \/ \E o \in Orb, name \in Bound, id \in Id : Bind(o, name, id)
    \/ \E e \in End, name \in Bound : Resolve(e, name)
    \/ \E m \in wire : Receive(m)

Spec == Init /\ [][Next]_vars
-----------------------------------------------------------------------------
\* Where references work: every ORB is connected to one other only, by any
\* number of connections; the ends of a connection report different addresses,
\* the one the address of the other; servants stay registered while they are
\* referred to.
OnePeer ==
    \A e, f \in End : Owner[e] = Owner[f] => Owner[Peer[e]] = Owner[Peer[f]]
AddressesAgree ==
    \A e \in End : Remote[e] = Local[Peer[e]] /\ Local[e] # Local[Peer[e]]
Works == OnePeer /\ AddressesAgree /\ ~InUse

\* What the receiver of m will take it for.
Resolution(m) ==
    IF OwnServant(m) THEN <<Owner[m.to], m.id>> ELSE <<Owner[Peer[m.to]], m.id>>

(***************************************************************************)
(* A reference on its way will be taken for the object it was made from,   *)
(* whatever has been registered meanwhile on either side and whichever of  *)
(* the connections it goes over (giop.ts:670-715, giop.ts:1490-1527).      *)
(* README.md:11: CORBA makes "remote objects appear like local objects".   *)
(***************************************************************************)
TakenForItself == \A m \in wire : Resolution(m) = m.x

(***************************************************************************)
(* The refinement: an ORB has what its application holds and what its      *)
(* naming service has bound.                                               *)
(***************************************************************************)
Has(o) == {Denotes(o, v) : v \in held[o]} \cup {<<o, b[2]>> : b \in names[o]}

Denotation == INSTANCE Denotations WITH
    has <- [o \in Orb |-> Has(o)],
    sent <- {<<Owner[m.to], m.x>> : m \in wire}

(***************************************************************************)
(* A reference that is passed on, back, through a naming service or over   *)
(* several connections denotes the object it was made from, and no ORB has *)
(* an object that was not its own or sent to it (giop.ts:670-715,          *)
(* giop.ts:1490-1527, orb.ts:773-783).                                     *)
(***************************************************************************)
ReferencesDenote == Denotation!Spec
=============================================================================
