-------------------------- MODULE ReferencesProofs --------------------------
(***************************************************************************)
(* Proofs about what is passed: References, for any number of ORBs, ends,  *)
(* ids and names, its types, and, where every ORB has one peer, the        *)
(* addresses agree and no servant is unregistered while it is referred to, *)
(* that references denote what they were made from.                        *)
(***************************************************************************)
EXTENDS References, TLAPS

(***************************************************************************)
(* TakenForItself is not inductive: a reference to a servant that is not   *)
(* registered would be taken for another object as soon as one with its id *)
(* is.  So what is on its way, held or bound refers to what is registered. *)
(***************************************************************************)
WireDenotes ==
    \A m \in wire :
        \/ /\ m.host = Local[m.to]
           /\ m.x = <<Owner[m.to], m.id>>
           /\ m.id \in servants[Owner[m.to]]
        \/ /\ m.host # Local[m.to]
           /\ m.x = <<Owner[Peer[m.to]], m.id>>
           /\ m.id \in servants[Owner[Peer[m.to]]]

HeldRegistered ==
    \A o \in Orb : \A v \in held[o] :
        \/ v.kind = "skeleton" /\ v.id \in servants[o]
        \/ /\ v.kind = "stub" /\ Owner[v.end] = o
           /\ v.id \in servants[Owner[Peer[v.end]]]

NamesRegistered == \A o \in Orb : \A b \in names[o] : b[2] \in servants[o]

IInv == TypeOK /\ WireDenotes /\ HeldRegistered /\ NamesRegistered

-----------------------------------------------------------------------------
(***************************************************************************)
(* Types.                                                                  *)
(***************************************************************************)
LEMMA ReferenceType ==
    ASSUME TypeOK, NEW e \in End, NEW v \in Skeleton \cup Stub
    PROVE  Reference(e, v) \in Message
  BY EndAssumption DEF Reference, Message, Address, Denotes, Object, Skeleton, Stub

LEMMA SkeletonType ==
    ASSUME NEW id \in Id
    PROVE  SkeletonOf(id) \in Skeleton
  BY DEF SkeletonOf, Skeleton

LEMMA TypeStep ==
    ASSUME TypeOK, [Next]_vars
    PROVE  TypeOK'
  <1> USE EndAssumption, MaxIdAssumption
  <1>1. ASSUME NEW o \in Orb, RegisterStubClass(o) PROVE TypeOK'
    BY <1>1 DEF TypeOK, RegisterStubClass
  <1>2. ASSUME NEW o \in Orb, RegisterServant(o) PROVE TypeOK'
    <2> DEFINE id == servantIdCounter[o] + 1
    <2>1. id \in Id /\ id \in 0..MaxId
      BY <1>2 DEF TypeOK, RegisterServant, Id
    <2>2. SkeletonOf(id) \in Skeleton
      BY <2>1, SkeletonType
    <2> QED BY <1>2, <2>1, <2>2 DEF TypeOK, RegisterServant
  <1>3. ASSUME NEW o \in Orb, NEW id \in Id, UnregisterServant(o, id) PROVE TypeOK'
    BY <1>3 DEF TypeOK, UnregisterServant
  <1>4. ASSUME NEW o \in Orb, NEW v \in held[o], Forget(o, v) PROVE TypeOK'
    BY <1>4 DEF TypeOK, Forget
  <1>5. ASSUME NEW e \in End, NEW v \in held[Owner[e]], Send(e, v) PROVE TypeOK'
    <2>1. v \in Skeleton \cup Stub
      BY DEF TypeOK
    <2> QED BY <1>5, <2>1, ReferenceType DEF TypeOK, Send
  <1>6. ASSUME NEW o \in Orb, NEW name \in Bound, NEW id \in Id, Bind(o, name, id)
        PROVE TypeOK'
    BY <1>6 DEF TypeOK, Bind
  <1>7. ASSUME NEW e \in End, NEW name \in Bound, Resolve(e, name) PROVE TypeOK'
    <2>1. PICK b \in names[Owner[e]] : wire' = wire \cup {Reference(e, SkeletonOf(b[2]))}
      BY <1>7 DEF Resolve
    <2>2. b[2] \in Id
      BY DEF TypeOK
    <2>3. Reference(e, SkeletonOf(b[2])) \in Message
      BY <2>2, SkeletonType, ReferenceType
    <2> QED BY <1>7, <2>1, <2>3 DEF TypeOK, Resolve
  <1>8. ASSUME NEW m \in wire, Receive(m) PROVE TypeOK'
    <2>1. m.to \in End /\ m.id \in Id /\ Owner[m.to] \in Orb
      BY DEF TypeOK, Message
    <2>2. SkeletonOf(m.id) \in Skeleton /\ StubOf(m.to, m.id) \in Stub
      BY <2>1 DEF SkeletonOf, Skeleton, StubOf, Stub
    <2>3. /\ stubsById' \in [End -> SUBSET Id]
          /\ held' \in [Orb -> SUBSET (Skeleton \cup Stub)]
      BY <1>8, <2>1, <2>2 DEF TypeOK, Receive, Received, ReceivedStub, ObjectAdapter
    <2> QED BY <1>8, <2>3 DEF TypeOK, Receive
  <1>9. CASE UNCHANGED vars
    BY <1>9 DEF TypeOK, vars
  <1> QED BY <1>1, <1>2, <1>3, <1>4, <1>5, <1>6, <1>7, <1>8, <1>9 DEF Next

(***************************************************************************)
(* Every variable keeps its type; ids on the wire and in the tables of     *)
(* stubs are ids that servants have (orb.ts:773, giop.ts:670, 1490).       *)
(***************************************************************************)
THEOREM TypeCorrect == Spec => []TypeOK
  <1>1. Init => TypeOK
    BY MaxIdAssumption DEF Init, TypeOK
  <1>2. TypeOK /\ [Next]_vars => TypeOK'
    BY TypeStep
  <1> QED BY <1>1, <1>2, PTL DEF Spec

-----------------------------------------------------------------------------
(***************************************************************************)
(* What a reference is written as.                                         *)
(***************************************************************************)
WrittenWell(m) ==
    \/ /\ m.host = Local[m.to]
       /\ m.x = <<Owner[m.to], m.id>>
       /\ m.id \in servants[Owner[m.to]]
    \/ /\ m.host # Local[m.to]
       /\ m.x = <<Owner[Peer[m.to]], m.id>>
       /\ m.id \in servants[Owner[Peer[m.to]]]

\* A servant goes out with the address of the sender.
LEMMA SkeletonWritten ==
    ASSUME Works, NEW e \in End, NEW id \in servants[Owner[e]]
    PROVE  WrittenWell(Reference(e, SkeletonOf(id)))
  <1>1. Reference(e, SkeletonOf(id)) =
            [to |-> Peer[e], host |-> Local[e], id |-> id, x |-> <<Owner[e], id>>]
    BY DEF Reference, SkeletonOf, Address, Denotes
  <1>2. Peer[Peer[e]] = e /\ Local[e] # Local[Peer[e]]
    BY EndAssumption DEF Works, AddressesAgree
  <1> QED BY <1>1, <1>2 DEF WrittenWell

\* A stub goes out with the address of the receiver, whose servant it is.
LEMMA StubWritten ==
    ASSUME Works, NEW e \in End, NEW f \in End, Owner[f] = Owner[e],
           NEW id \in servants[Owner[Peer[f]]]
    PROVE  WrittenWell(Reference(e, StubOf(f, id)))
  <1>1. Reference(e, StubOf(f, id)) =
            [to |-> Peer[e], host |-> Remote[e], id |-> id, x |-> <<Owner[Peer[f]], id>>]
    BY DEF Reference, StubOf, Address, Denotes
  <1>2. Remote[e] = Local[Peer[e]] /\ Owner[Peer[f]] = Owner[Peer[e]]
    BY DEF Works, AddressesAgree, OnePeer
  <1> QED BY <1>1, <1>2 DEF WrittenWell

\* What is held is one of the two.
LEMMA HeldWritten ==
    ASSUME Works, IInv, NEW e \in End, NEW v \in held[Owner[e]]
    PROVE  WrittenWell(Reference(e, v))
  <1> USE EndAssumption
  <1>1. v \in Skeleton \cup Stub /\ Owner[e] \in Orb
    BY DEF IInv, TypeOK
  <1>2. CASE v.kind = "skeleton"
    <2>1. v = SkeletonOf(v.id) /\ v.id \in servants[Owner[e]]
      BY <1>1, <1>2 DEF IInv, HeldRegistered, Skeleton, Stub, SkeletonOf
    <2> QED BY <2>1, SkeletonWritten
  <1>3. CASE v.kind = "stub"
    <2>1. /\ v = StubOf(v.end, v.id) /\ v.end \in End
          /\ Owner[v.end] = Owner[e] /\ v.id \in servants[Owner[Peer[v.end]]]
      BY <1>1, <1>3 DEF IInv, HeldRegistered, Skeleton, Stub, StubOf
    <2> QED BY <2>1, StubWritten
  <1> QED BY <1>1, <1>2, <1>3 DEF Skeleton, Stub

\* As long as no servant is unregistered, what was well stays well.
LEMMA ServantsGrow ==
    ASSUME IInv, NEW S, servants' = S, \A o \in Orb : servants[o] \subseteq S[o]
    PROVE  /\ wire' = wire => WireDenotes'
           /\ held' = held => HeldRegistered'
           /\ names' = names => NamesRegistered'
  <1> USE EndAssumption
  <1>1. wire \subseteq Message /\ held \in [Orb -> SUBSET (Skeleton \cup Stub)]
    BY DEF IInv, TypeOK
  <1>2. ASSUME wire' = wire PROVE WireDenotes'
    <2> SUFFICES ASSUME NEW m \in wire PROVE WrittenWell(m)'
      BY <1>2 DEF WireDenotes, WrittenWell
    <2>1. m.to \in End /\ Owner[m.to] \in Orb /\ Owner[Peer[m.to]] \in Orb
      BY <1>1 DEF Message
    <2> QED BY <2>1 DEF IInv, WireDenotes, WrittenWell
  <1>3. ASSUME held' = held PROVE HeldRegistered'
    <2> SUFFICES ASSUME NEW o \in Orb, NEW v \in held[o]
                 PROVE  \/ v.kind = "skeleton" /\ v.id \in S[o]
                        \/ /\ v.kind = "stub" /\ Owner[v.end] = o
                           /\ v.id \in S[Owner[Peer[v.end]]]
      BY <1>3 DEF HeldRegistered
    <2>1. v.kind = "stub" => Owner[Peer[v.end]] \in Orb
      BY <1>1 DEF Skeleton, Stub
    <2> QED BY <2>1 DEF IInv, HeldRegistered
  <1>4. names' = names => NamesRegistered'
    BY DEF IInv, NamesRegistered
  <1> QED BY <1>2, <1>3, <1>4

\* Who receives a reference gets the object that it was made from.
LEMMA ReceivedRight ==
    ASSUME IInv, NEW m \in wire
    PROVE  /\ OwnServant(m) => /\ m.x = <<Owner[m.to], m.id>>
                               /\ m.id \in servants[Owner[m.to]]
           /\ ~OwnServant(m) => /\ m.x = <<Owner[Peer[m.to]], m.id>>
                                /\ m.id \in servants[Owner[Peer[m.to]]]
  BY DEF IInv, WireDenotes, OwnServant

LEMMA Step ==
    ASSUME Works, IInv, [Next]_vars
    PROVE  IInv'
  <1> USE EndAssumption
  <1>0. TypeOK' /\ TypeOK
    BY TypeStep DEF IInv
  <1> SUFFICES WireDenotes' /\ HeldRegistered' /\ NamesRegistered'
    BY <1>0 DEF IInv
  <1>1. ASSUME NEW o \in Orb, RegisterStubClass(o)
        PROVE WireDenotes' /\ HeldRegistered' /\ NamesRegistered'
    BY <1>1, ServantsGrow DEF RegisterStubClass
  <1>2. ASSUME NEW o \in Orb, RegisterServant(o)
        PROVE WireDenotes' /\ HeldRegistered' /\ NamesRegistered'
    <2> DEFINE id == servantIdCounter[o] + 1
    <2>1. /\ servants' = [servants EXCEPT ![o] = @ \cup {id}]
          /\ held' = [held EXCEPT ![o] = @ \cup {SkeletonOf(id)}]
          /\ wire' = wire /\ names' = names
      BY <1>2 DEF RegisterServant
    <2>2. \A p \in Orb : servants[p] \subseteq servants'[p]
      BY <1>0, <2>1 DEF TypeOK
    <2>3. WireDenotes' /\ NamesRegistered'
      BY <2>1, <2>2, ServantsGrow
    <2>4. HeldRegistered'
      <3> SUFFICES ASSUME NEW p \in Orb, NEW v \in held'[p]
                   PROVE  \/ v.kind = "skeleton" /\ v.id \in servants'[p]
                          \/ /\ v.kind = "stub" /\ Owner[v.end] = p
                             /\ v.id \in servants'[Owner[Peer[v.end]]]
        BY DEF HeldRegistered
      <3>1. CASE v \in held[p]
        <4>1. v \in Skeleton \cup Stub
          BY <1>0, <3>1 DEF TypeOK
        <4>2. v.kind = "stub" => Owner[Peer[v.end]] \in Orb
          BY <4>1 DEF Skeleton, Stub
        <4> QED BY <2>2, <3>1, <4>2 DEF IInv, HeldRegistered
      <3>2. CASE v \notin held[p]
        <4>1. p = o /\ v = SkeletonOf(id)
          BY <1>0, <2>1, <3>2 DEF TypeOK
        <4>2. id \in servants'[o]
          BY <1>0, <2>1 DEF TypeOK
        <4> QED BY <4>1, <4>2 DEF SkeletonOf
      <3> QED BY <3>1, <3>2
    <2> QED BY <2>3, <2>4
  <1>3. ASSUME NEW o \in Orb, NEW id \in Id, UnregisterServant(o, id)
        PROVE WireDenotes' /\ HeldRegistered' /\ NamesRegistered'
    <2>1. ~Referred(o, id)
      BY <1>3 DEF UnregisterServant, Works
    <2>2. UNCHANGED <<names, held, wire>>
      BY <1>3 DEF UnregisterServant
    <2>3. \A p \in Orb : \A i \in servants[p] : <<p, i>> # <<o, id>> => i \in servants'[p]
      BY <1>0, <1>3 DEF UnregisterServant, TypeOK
    <2>4. WireDenotes'
      <3> SUFFICES ASSUME NEW m \in wire
                   PROVE  \/ /\ m.host = Local[m.to]
                             /\ m.x = <<Owner[m.to], m.id>>
                             /\ m.id \in servants'[Owner[m.to]]
                          \/ /\ m.host # Local[m.to]
                             /\ m.x = <<Owner[Peer[m.to]], m.id>>
                             /\ m.id \in servants'[Owner[Peer[m.to]]]
        BY <2>2 DEF WireDenotes
      <3>1. m.x # <<o, id>>
        BY <2>1 DEF Referred
      <3>2. Owner[m.to] \in Orb /\ Owner[Peer[m.to]] \in Orb
        BY <1>0 DEF TypeOK, Message
      <3> QED BY <2>3, <3>1, <3>2 DEF IInv, WireDenotes
    <2>5. HeldRegistered'
      <3> SUFFICES ASSUME NEW p \in Orb, NEW v \in held[p]
                   PROVE  \/ v.kind = "skeleton" /\ v.id \in servants'[p]
                          \/ /\ v.kind = "stub" /\ Owner[v.end] = p
                             /\ v.id \in servants'[Owner[Peer[v.end]]]
        BY <2>2 DEF HeldRegistered
      <3>1. Denotes(p, v) # <<o, id>>
        BY <2>1 DEF Referred
      <3>2. v.kind = "stub" => Owner[Peer[v.end]] \in Orb
        BY <1>0 DEF TypeOK, Skeleton, Stub
      <3> QED BY <2>3, <3>1, <3>2 DEF IInv, HeldRegistered, Denotes
    <2>6. NamesRegistered'
      <3> SUFFICES ASSUME NEW p \in Orb, NEW b \in names[p] PROVE b[2] \in servants'[p]
        BY <2>2 DEF NamesRegistered
      <3>1. <<p, b[2]>> # <<o, id>>
        BY <2>1 DEF Referred
      <3> QED BY <2>3, <3>1 DEF IInv, NamesRegistered
    <2> QED BY <2>4, <2>5, <2>6
  <1>4. ASSUME NEW o \in Orb, NEW v \in held[o], Forget(o, v)
        PROVE WireDenotes' /\ HeldRegistered' /\ NamesRegistered'
    <2>1. WireDenotes' /\ NamesRegistered'
      BY <1>4, ServantsGrow DEF Forget
    <2>2. servants' = servants /\ \A p \in Orb : held'[p] \subseteq held[p]
      BY <1>0, <1>4 DEF Forget, TypeOK
    <2>3. HeldRegistered'
      BY <2>2 DEF IInv, HeldRegistered
    <2> QED BY <2>1, <2>3
  <1>5. ASSUME NEW e \in End, NEW v \in held[Owner[e]], Send(e, v)
        PROVE WireDenotes' /\ HeldRegistered' /\ NamesRegistered'
    <2>1. WrittenWell(Reference(e, v))
      BY HeldWritten
    <2>2. servants' = servants /\ wire' = wire \cup {Reference(e, v)}
      BY <1>5 DEF Send
    <2>3. WireDenotes'
      BY <2>1, <2>2 DEF IInv, WireDenotes, WrittenWell
    <2>4. HeldRegistered' /\ NamesRegistered'
      BY <1>5, ServantsGrow DEF Send
    <2> QED BY <2>3, <2>4
  <1>6. ASSUME NEW o \in Orb, NEW name \in Bound, NEW id \in Id, Bind(o, name, id)
        PROVE WireDenotes' /\ HeldRegistered' /\ NamesRegistered'
    <2>1. WireDenotes' /\ HeldRegistered'
      BY <1>6, ServantsGrow DEF Bind
    <2>2. id \in servants[o]
      BY <1>0, <1>6 DEF Bind, IInv, HeldRegistered, SkeletonOf
    <2>3. servants' = servants /\ names' = [names EXCEPT ![o] = @ \cup {<<name, id>>}]
      BY <1>6 DEF Bind
    <2>4. ASSUME NEW p \in Orb, NEW b \in names'[p] PROVE b[2] \in servants[p]
      <3>1. b \in names[p] \/ (p = o /\ b = <<name, id>>)
        BY <1>0, <2>3 DEF TypeOK
      <3> QED BY <2>2, <3>1 DEF IInv, NamesRegistered
    <2> QED BY <2>1, <2>3, <2>4 DEF NamesRegistered
  <1>7. ASSUME NEW e \in End, NEW name \in Bound, Resolve(e, name)
        PROVE WireDenotes' /\ HeldRegistered' /\ NamesRegistered'
    <2>1. PICK b \in names[Owner[e]] : wire' = wire \cup {Reference(e, SkeletonOf(b[2]))}
      BY <1>7 DEF Resolve
    <2>2. b[2] \in servants[Owner[e]]
      BY DEF IInv, NamesRegistered
    <2>3. WrittenWell(Reference(e, SkeletonOf(b[2])))
      BY <2>2, SkeletonWritten
    <2>4. servants' = servants
      BY <1>7 DEF Resolve
    <2>5. WireDenotes'
      BY <2>1, <2>3, <2>4 DEF IInv, WireDenotes, WrittenWell
    <2>6. HeldRegistered' /\ NamesRegistered'
      BY <1>7, ServantsGrow DEF Resolve
    <2> QED BY <2>5, <2>6
  <1>8. ASSUME NEW m \in wire, Receive(m)
        PROVE WireDenotes' /\ HeldRegistered' /\ NamesRegistered'
    <2>1. servants' = servants /\ wire' \subseteq wire
      BY <1>8 DEF Receive
    <2>2. WireDenotes'
      BY <2>1 DEF IInv, WireDenotes
    <2>3. NamesRegistered'
      BY <1>8, ServantsGrow DEF Receive
    <2>4. m.to \in End /\ m.id \in Id /\ Owner[m.to] \in Orb
      BY <1>0 DEF TypeOK, Message
    <2>5. ASSUME NEW p \in Orb, NEW v \in held'[p]
          PROVE \/ v.kind = "skeleton" /\ v.id \in servants[p]
                \/ /\ v.kind = "stub" /\ Owner[v.end] = p
                   /\ v.id \in servants[Owner[Peer[v.end]]]
      <3>1. CASE v \in held[p]
        BY <3>1 DEF IInv, HeldRegistered
      <3>2. CASE v \notin held[p]
        <4>1. \/ OwnServant(m) /\ p = Owner[m.to] /\ v = SkeletonOf(m.id)
              \/ ~OwnServant(m) /\ p = Owner[m.to] /\ v = StubOf(m.to, m.id)
          BY <1>0, <1>8, <2>4, <3>2
             DEF Receive, Received, ReceivedStub, ObjectAdapter, TypeOK
        <4> QED BY <4>1, ReceivedRight DEF SkeletonOf, StubOf
      <3> QED BY <3>1, <3>2
    <2> QED BY <2>1, <2>2, <2>3, <2>5 DEF HeldRegistered
  <1>9. CASE UNCHANGED vars
    BY <1>9 DEF IInv, WireDenotes, HeldRegistered, NamesRegistered, vars
  <1> QED BY <1>1, <1>2, <1>3, <1>4, <1>5, <1>6, <1>7, <1>8, <1>9 DEF Next

LEMMA Initially == ASSUME Init PROVE IInv
  BY MaxIdAssumption DEF Init, IInv, TypeOK, WireDenotes, HeldRegistered, NamesRegistered

(***************************************************************************)
(* Where every ORB has one peer, addresses agree and servants stay         *)
(* registered while they are referred to, every reference is taken for the *)
(* object it was made from (giop.ts:670-715, giop.ts:1490-1527).           *)
(***************************************************************************)
THEOREM ReferencesWork ==
    ASSUME Works
    PROVE  Spec => []TakenForItself
  <1>1. Init => IInv
    BY Initially
  <1>2. IInv /\ [Next]_vars => IInv'
    BY Step
  <1>3. IInv => TakenForItself
    BY ReceivedRight DEF TakenForItself, Resolution
  <1> QED BY <1>1, <1>2, <1>3, PTL DEF Spec

-----------------------------------------------------------------------------
(***************************************************************************)
(* The refinement.                                                         *)
(***************************************************************************)
\* What the abstract specification calls has and sent.
has == [o \in Orb |-> Has(o)]
sent == {<<Owner[m.to], m.x>> : m \in wire}

\* An ORB that holds one thing more has one object more at the most.
LEMMA HasMore ==
    ASSUME TypeOK, NEW o \in Orb, NEW v,
           held' = [held EXCEPT ![o] = @ \cup {v}], names' = names
    PROVE  has' = [has EXCEPT ![o] = @ \cup {Denotes(o, v)}]
  <1>1. ASSUME NEW p \in Orb
        PROVE  Has(p)' = IF p = o THEN Has(p) \cup {Denotes(o, v)} ELSE Has(p)
    BY DEF Has, TypeOK, Denotes
  <1> QED BY <1>1 DEF has

LEMMA SendPasses ==
    ASSUME TypeOK, NEW e \in End, NEW v \in Skeleton \cup Stub,
           Denotes(Owner[e], v) \in Has(Owner[e]),
           wire' = wire \cup {Reference(e, v)}, held' = held, names' = names
    PROVE  Denotation!Next
  <1> USE EndAssumption
  <1> DEFINE x == Denotes(Owner[e], v)
  <1>1. /\ Owner[e] \in Orb /\ Peer[e] \in End /\ Owner[Peer[e]] \in Orb
        /\ x \in Object
    BY DEF Denotes, Object, Skeleton, Stub
  <1>2. Reference(e, v).to = Peer[e] /\ Reference(e, v).x = x
    BY DEF Reference
  <1>3. sent' = sent \cup {<<Owner[Peer[e]], x>>}
    BY <1>2 DEF sent
  <1>4. has' = has /\ x \in has[Owner[e]]
    BY <1>1 DEF has, Has, Denotes
  <1>5. Denotation!Pass(Owner[e], Owner[Peer[e]], x)
    BY <1>3, <1>4 DEF Denotation!Pass, has, sent
  <1> QED BY <1>1, <1>5 DEF Denotation!Next

LEMMA RefinementStep ==
    ASSUME Works, IInv, [Next]_vars
    PROVE  [Denotation!Next]_<<has, sent>>
  <1> USE EndAssumption
  <1>0. TypeOK
    BY DEF IInv
  <1>1. ASSUME NEW o \in Orb, RegisterStubClass(o) PROVE UNCHANGED <<has, sent>>
    BY <1>1 DEF RegisterStubClass, has, sent, Has, Denotes
  <1>2. ASSUME NEW o \in Orb, RegisterServant(o) PROVE Denotation!Next
    <2> DEFINE id == servantIdCounter[o] + 1
    <2>1. id \in Id
      BY <1>0, <1>2 DEF RegisterServant, TypeOK, Id
    <2>2. held' = [held EXCEPT ![o] = @ \cup {SkeletonOf(id)}] /\ UNCHANGED <<names, wire>>
      BY <1>2 DEF RegisterServant
    <2>3. has' = [has EXCEPT ![o] = @ \cup {<<o, id>>}]
      BY <1>0, <2>2, HasMore DEF Denotes, SkeletonOf
    <2>4. sent' = sent
      BY <2>2 DEF sent
    <2>5. Denotation!Create(o, <<o, id>>)
      BY <2>3, <2>4 DEF Denotation!Create, has, sent
    <2>6. <<o, id>> \in Object /\ <<o, id>>[1] = o
      BY <2>1 DEF Object
    <2> QED BY <2>5, <2>6 DEF Denotation!Next
  <1>3. ASSUME NEW o \in Orb, NEW id \in Id, UnregisterServant(o, id)
        PROVE  UNCHANGED <<has, sent>>
    BY <1>3 DEF UnregisterServant, has, sent, Has, Denotes
  <1>4. ASSUME NEW o \in Orb, NEW v \in held[o], Forget(o, v)
        PROVE  [Denotation!Next]_<<has, sent>>
    <2> DEFINE x == Denotes(o, v)
    <2>1. held' = [held EXCEPT ![o] = @ \ {v}] /\ UNCHANGED <<names, wire>>
      BY <1>4 DEF Forget
    <2>2. sent' = sent
      BY <2>1 DEF sent
    <2>3. x \in Object
      BY <1>0 DEF TypeOK, Denotes, Object, Skeleton, Stub
    <2>4. ASSUME NEW p \in Orb
          PROVE  \/ Has(p)' = Has(p)
                 \/ p = o /\ Has(p)' = Has(p) \ {x}
      <3>1. CASE p # o
        BY <1>0, <2>1, <3>1 DEF TypeOK, Has, Denotes
      <3>2. CASE p = o
        <4>1. held'[o] = held[o] \ {v} /\ names'[o] = names[o]
          BY <1>0, <2>1 DEF TypeOK
        <4>2. Has(o)' = {Denotes(o, w) : w \in held[o] \ {v}} \cup {<<o, b[2]>> : b \in names[o]}
          BY <4>1 DEF Has, Denotes
        <4>3. CASE x \in Has(o)'
          BY <3>2, <4>2, <4>3 DEF Has
        <4>4. CASE x \notin Has(o)'
          BY <3>2, <4>2, <4>4 DEF Has
        <4> QED BY <4>3, <4>4
      <3> QED BY <3>1, <3>2
    <2>5. CASE Has(o)' = Has(o)
      <3>1. has' = has
        BY <2>4, <2>5 DEF has
      <3> QED BY <2>2, <3>1
    <2>6. CASE Has(o)' # Has(o)
      <3>1. has' = [has EXCEPT ![o] = @ \ {x}]
        BY <2>4, <2>6 DEF has
      <3>2. Denotation!Drop(o, x)
        BY <2>2, <3>1 DEF Denotation!Drop, has, sent
      <3> QED BY <2>3, <3>2 DEF Denotation!Next
    <2> QED BY <2>5, <2>6
  <1>5. ASSUME NEW e \in End, NEW v \in held[Owner[e]], Send(e, v) PROVE Denotation!Next
    <2>1. v \in Skeleton \cup Stub /\ Denotes(Owner[e], v) \in Has(Owner[e])
      BY <1>0 DEF TypeOK, Has
    <2> QED BY <1>0, <1>5, <2>1, SendPasses DEF Send
  <1>6. ASSUME NEW o \in Orb, NEW name \in Bound, NEW id \in Id, Bind(o, name, id)
        PROVE  UNCHANGED <<has, sent>>
    <2>1. /\ held' = held /\ wire' = wire
          /\ names' = [names EXCEPT ![o] = @ \cup {<<name, id>>}]
          /\ SkeletonOf(id) \in held[o]
      BY <1>6 DEF Bind
    <2>2. Denotes(o, SkeletonOf(id)) = <<o, id>>
      BY DEF Denotes, SkeletonOf
    <2>3. ASSUME NEW p \in Orb PROVE Has(p)' = Has(p)
      <3> DEFINE names1 == IF p = o THEN names[o] \cup {<<name, id>>} ELSE names[p]
      <3>1. names'[p] = names1
        BY <1>0, <2>1 DEF TypeOK
      <3>2. {<<p, b[2]>> : b \in names1} =
                {<<p, b[2]>> : b \in names[p]} \cup (IF p = o THEN {<<o, id>>} ELSE {})
        <4>1. CASE p = o
          <5>1. names1 = names[o] \cup {<<name, id>>} /\ <<name, id>>[2] = id
            BY <4>1
          <5> HIDE DEF names1
          <5> QED BY <4>1, <5>1
        <4>2. CASE p # o
          BY <4>2
        <4> QED BY <4>1, <4>2
      <3>3. p = o => <<o, id>> \in {Denotes(p, v) : v \in held[p]}
        BY <2>1, <2>2
      <3>4. Has(p)' = {Denotes(p, v) : v \in held[p]} \cup {<<p, b[2]>> : b \in names1}
        BY <2>1, <3>1 DEF Has, Denotes
      <3> HIDE DEF names1
      <3> QED BY <3>2, <3>3, <3>4 DEF Has
    <2> QED BY <2>1, <2>3 DEF has, sent
  <1>7. ASSUME NEW e \in End, NEW name \in Bound, Resolve(e, name) PROVE Denotation!Next
    <2>1. PICK b \in names[Owner[e]] : wire' = wire \cup {Reference(e, SkeletonOf(b[2]))}
      BY <1>7 DEF Resolve
    <2>2. SkeletonOf(b[2]) \in Skeleton
      BY <1>0, SkeletonType DEF TypeOK
    <2>3. Denotes(Owner[e], SkeletonOf(b[2])) \in Has(Owner[e])
      BY DEF Denotes, SkeletonOf, Has
    <2> QED BY <1>0, <1>7, <2>1, <2>2, <2>3, SendPasses DEF Resolve
  <1>8. ASSUME NEW m \in wire, Receive(m) PROVE Denotation!Next
    <2> DEFINE o == Owner[m.to]
    <2>1. m.to \in End /\ o \in Orb /\ m.x \in Object
      BY <1>0 DEF TypeOK, Message
    <2>2. wire' = wire \ {m} /\ names' = names
      BY <1>8 DEF Receive
    <2>3. sent' \in {sent, sent \ {<<o, m.x>>}} /\ <<o, m.x>> \in sent
      <3>1. sent' = {<<Owner[n.to], n.x>> : n \in wire \ {m}}
        BY <2>2 DEF sent
      <3>2. CASE \E n \in wire \ {m} : <<Owner[n.to], n.x>> = <<o, m.x>>
        BY <3>1, <3>2 DEF sent
      <3>3. CASE ~\E n \in wire \ {m} : <<Owner[n.to], n.x>> = <<o, m.x>>
        BY <3>1, <3>3 DEF sent
      <3> QED BY <3>2, <3>3 DEF sent
    <2>4. has' \in {has, [has EXCEPT ![o] = @ \cup {m.x}]}
      <3>1. CASE Received(m)
        <4>1. held' = [held EXCEPT ![o] = @ \cup {SkeletonOf(m.id)}]
          BY <3>1 DEF Received
        <4>2. Denotes(o, SkeletonOf(m.id)) = m.x
          BY <3>1, ReceivedRight DEF Received, Denotes, SkeletonOf
        <4>3. has' = [has EXCEPT ![o] = @ \cup {m.x}]
          BY <1>0, <2>1, <2>2, <4>1, <4>2, HasMore
        <4> QED BY <4>3
      <3>2. CASE ReceivedStub(m)
        <4>1. held' = [held EXCEPT ![o] = @ \cup {StubOf(m.to, m.id)}]
          BY <3>2 DEF ReceivedStub
        <4>2. Denotes(o, StubOf(m.to, m.id)) = m.x
          BY <3>2, ReceivedRight DEF ReceivedStub, Denotes, StubOf
        <4>3. has' = [has EXCEPT ![o] = @ \cup {m.x}]
          BY <1>0, <2>1, <2>2, <4>1, <4>2, HasMore
        <4> QED BY <4>3
      <3>3. CASE ObjectAdapter(m)
        BY <2>2, <3>3 DEF ObjectAdapter, has, Has, Denotes
      <3> QED BY <1>8, <3>1, <3>2, <3>3 DEF Receive
    <2>5. Denotation!Receive(o, m.x)
      BY <2>3, <2>4 DEF Denotation!Receive, has, sent
    <2> QED BY <2>1, <2>5 DEF Denotation!Next
  <1>9. CASE UNCHANGED vars
    BY <1>9 DEF vars, has, sent, Has, Denotes
  <1> QED BY <1>1, <1>2, <1>3, <1>4, <1>5, <1>6, <1>7, <1>8, <1>9 DEF Next

(***************************************************************************)
(* Under the same conditions the references of the ORBs implement          *)
(* Denotations: a reference denotes one object wherever it is passed.      *)
(***************************************************************************)
THEOREM ImplementsDenotations ==
    ASSUME Works
    PROVE  Spec => ReferencesDenote
  <1>1. Init => IInv
    BY Initially
  <1>2. IInv /\ [Next]_vars => IInv'
    BY Step
  <1>3. Init => Denotation!Init
    BY DEF Init, Denotation!Init, Has
  <1>4. IInv /\ [Next]_vars => [Denotation!Next]_<<has, sent>>
    BY RefinementStep
  <1>5. <<has, sent>> = <<[o \in Orb |-> Has(o)], {<<Owner[m.to], m.x>> : m \in wire}>>
    BY DEF has, sent
  <1> QED BY <1>1, <1>2, <1>3, <1>4, PTL DEF Spec, ReferencesDenote, Denotation!Spec, has, sent

=============================================================================
