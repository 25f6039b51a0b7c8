------------------------- MODULE ConnectionsProofs -------------------------
(***************************************************************************)
(* Theorems about Connections: type correctness, the list of connections   *)
(* agrees with the sockets, and, while the application replaces no         *)
(* connections, an object has one stub per connection and a lookup returns *)
(* the right one.                                                          *)
(***************************************************************************)
EXTENDS Connections, SequenceTheorems, TLAPS

(***************************************************************************)
(* The list.  NoDuplicates is part of the types: removeConnection takes    *)
(* out one occurrence only.  A connection that is open is in the list, or  *)
(* it is the one being replaced: AtHand says that this is not both, and    *)
(* Underway that no connection yet to be opened is to be replaced, so that *)
(* opening it cannot put the one being replaced back in the list.          *)
(***************************************************************************)
NoDuplicates == \A i, j \in DOMAIN connections : connections[i] = connections[j] => i = j

ListedUsable == \A i \in DOMAIN connections : socket[connections[i]] \in {"open", "ending"}

UsableListed ==
    \A c \in Connection : socket[c] \in {"open", "ending"} =>
        \/ Listed(c)
        \/ replacePc \in {"waiting", "rejected"} /\ c = Head(replacing)

AtHand ==
    replacePc \in {"waiting", "rejected"} =>
        replacing # <<>> /\ ~Listed(Head(replacing))

Underway ==
    \A i \in DOMAIN replacing :
        socket[replacing[i]] \notin {"unused", "connecting", "failed"}

ListInv == NoDuplicates /\ ListedUsable /\ UsableListed /\ AtHand /\ Underway

\* What is waited for has been asked for.
Awaits ==
    /\ \A t \in Lookup : pc[t] \in {"contacting", "resolving", "locating"} =>
           via[t] \in Connection /\ socket[via[t]] # "unused"
    /\ replacePc = "waiting" => replacement \in Connection

IInv == TypeOK /\ ListInv /\ Awaits

-----------------------------------------------------------------------------
(***************************************************************************)
(* What the helpers do.                                                    *)
(***************************************************************************)
\* Taking out a connection that is listed once takes out that connection, and
\* nothing else.
LEMMA WithoutFacts ==
    ASSUME connections \in Seq(Connection), NoDuplicates, NEW c \in Connection
    PROVE  /\ Without(c) \in Seq(Connection)
           /\ \A i \in DOMAIN Without(c) : Without(c)[i] # c
           /\ \A i \in DOMAIN Without(c) :
                  \E j \in DOMAIN connections : connections[j] = Without(c)[i]
           /\ \A j \in DOMAIN connections : connections[j] # c =>
                  \E i \in DOMAIN Without(c) : Without(c)[i] = connections[j]
           /\ \A i, j \in DOMAIN Without(c) :
                  Without(c)[i] = Without(c)[j] => i = j
  <1>1. DOMAIN connections = 1 .. Len(connections) /\ Len(connections) \in Nat
    OBVIOUS
  <1>2. CASE ~Listed(c)
    <2>1. Without(c) = connections
      BY <1>1, <1>2 DEF Without, RemoveFirst, Listed
    <2>. QED
      BY <1>2, <2>1 DEF Listed, NoDuplicates
  <1>3. CASE Listed(c)
    <2>1. PICK n \in 1 .. Len(connections) : connections[n] = c
      BY <1>1, <1>3 DEF Listed
    <2>2. \A i \in 1 .. Len(connections) : connections[i] = c => i = n
      BY <1>1, <2>1 DEF NoDuplicates
    <2> DEFINE front == SubSeq(connections, 1, n - 1)
               back == SubSeq(connections, n + 1, Len(connections))
    <2>3. Without(c) = front \o back
      <3>1. {i \in 1 .. Len(connections) : connections[i] = c} = {n}
        BY <2>1, <2>2
      <3>2. Min({n}) = n
        BY DEF Min
      <3>. QED
        BY <2>1, <3>1, <3>2, Zenon DEF Without, RemoveFirst, RemoveAt, SelectInSeq
    <2>4. /\ front \in Seq(Connection)
          /\ Len(front) = n - 1
          /\ \A i \in 1 .. n - 1 : front[i] = connections[i]
      <3>1. \A i \in 1 .. n - 1 : connections[i] \in Connection
        BY <1>1
      <3>. QED
        BY <1>1, <3>1, SubSeqProperties
    <2>5. /\ back \in Seq(Connection)
          /\ Len(back) = Len(connections) - n
          /\ \A i \in 1 .. Len(connections) - n : back[i] = connections[n + i]
      <3>1. \A i \in n + 1 .. Len(connections) : connections[i] \in Connection
        BY <1>1
      <3>2. /\ back \in Seq(Connection)
            /\ Len(back) = IF n + 1 <= Len(connections)
                           THEN Len(connections) - (n + 1) + 1 ELSE 0
            /\ \A i \in 1 .. Len(connections) - (n + 1) + 1 :
                   back[i] = connections[n + 1 + i - 1]
        <4>1. n + 1 \in Int /\ Len(connections) \in Int
          BY <1>1
        <4>. QED
          BY <3>1, <4>1, SubSeqProperties
      <3>3. \A i \in 1 .. Len(connections) - n :
                /\ i \in 1 .. Len(connections) - (n + 1) + 1
                /\ n + 1 + i - 1 = n + i
        BY <1>1
      <3>4. Len(back) = Len(connections) - n
        <4> HIDE DEF back
        <4>1. n \in Nat /\ Len(connections) \in Nat /\ n <= Len(connections)
          BY <1>1
        <4>2. CASE n + 1 <= Len(connections)
          BY <3>2, <4>1, <4>2
        <4>3. CASE n = Len(connections)
          BY <3>2, <4>1, <4>3
        <4>. QED
          BY <4>1, <4>2, <4>3
      <3>5. \A i \in 1 .. Len(connections) - n : back[i] = connections[n + i]
        <4> HIDE DEF back
        <4>. QED
          BY <3>2, <3>3
      <3>. QED
        BY <3>2, <3>4, <3>5
    <2> HIDE DEF front, back
    <2>6. /\ Without(c) \in Seq(Connection)
          /\ Len(Without(c)) = Len(connections) - 1
          /\ \A i \in 1 .. Len(connections) - 1 :
                 Without(c)[i] = connections[IF i < n THEN i ELSE i + 1]
      <3>1. /\ front \o back \in Seq(Connection)
            /\ Len(front \o back) = Len(front) + Len(back)
            /\ \A i \in 1 .. Len(front) + Len(back) : (front \o back)[i] =
                   IF i <= Len(front) THEN front[i] ELSE back[i - Len(front)]
        BY <2>4, <2>5, ConcatProperties, Zenon
      <3>2. Len(front) + Len(back) = Len(connections) - 1
        BY <1>1, <2>4, <2>5
      <3>3. ASSUME NEW i \in 1 .. Len(connections) - 1
            PROVE  (front \o back)[i] = connections[IF i < n THEN i ELSE i + 1]
        <4>1. CASE i < n
          <5>1. i <= Len(front) /\ i \in 1 .. n - 1
            BY <1>1, <2>4, <4>1
          <5>. QED
            BY <2>4, <3>1, <3>2, <4>1, <5>1
        <4>2. CASE ~(i < n)
          <5>1. /\ ~(i <= Len(front))
                /\ i - Len(front) \in 1 .. Len(connections) - n
                /\ n + (i - Len(front)) = i + 1
            BY <1>1, <2>4, <4>2
          <5>. QED
            BY <2>5, <3>1, <3>2, <4>2, <5>1, Zenon
        <4>. QED
          BY <4>1, <4>2, Zenon
      <3>. QED
        BY <2>3, <3>1, <3>2, <3>3
    <2>7. DOMAIN Without(c) = 1 .. Len(connections) - 1
      BY <2>6
    <2>8. \A j \in DOMAIN connections : connections[j] # c =>
              \E i \in DOMAIN Without(c) : Without(c)[i] = connections[j]
      <3> SUFFICES ASSUME NEW j \in DOMAIN connections, connections[j] # c
                   PROVE  \E i \in DOMAIN Without(c) : Without(c)[i] = connections[j]
        OBVIOUS
      <3>1. CASE j < n
        BY <1>1, <2>6, <2>7, <3>1
      <3>2. CASE n < j
        <4>1. j - 1 \in 1 .. Len(connections) - 1 /\ ~(j - 1 < n) /\ j - 1 + 1 = j
          BY <1>1, <3>2
        <4>. QED
          BY <2>6, <2>7, <4>1
      <3>3. j \in Nat /\ n \in Nat /\ j # n
        BY <1>1, <2>1
      <3>. QED
        BY <3>1, <3>2, <3>3
    <2>9. \A i \in DOMAIN Without(c) : /\ Without(c)[i] # c
                                       /\ \E j \in DOMAIN connections :
                                              connections[j] = Without(c)[i]
      BY <1>1, <2>1, <2>2, <2>6, <2>7, SMTT(30)
    <2>10. \A i, j \in DOMAIN Without(c) :
               Without(c)[i] = Without(c)[j] => i = j
      <3> SUFFICES ASSUME NEW i \in DOMAIN Without(c), NEW j \in DOMAIN Without(c),
                          Without(c)[i] = Without(c)[j]
                   PROVE  i = j
        OBVIOUS
      <3> DEFINE old(k) == IF k < n THEN k ELSE k + 1
      <3>1. /\ i \in Nat /\ j \in Nat /\ n \in Nat
            /\ old(i) \in DOMAIN connections /\ old(j) \in DOMAIN connections
        BY <1>1, <2>7
      <3>2. Without(c)[i] = connections[old(i)] /\ Without(c)[j] = connections[old(j)]
        BY <2>6, <2>7, Zenon
      <3>3. old(i) = old(j)
        <4> HIDE DEF old
        <4>. QED
          BY <3>1, <3>2, Zenon DEF NoDuplicates
      <3>. QED
        BY <3>1, <3>3
    <2>. QED
      BY <2>6, <2>8, <2>9, <2>10
  <1>. QED
    BY <1>2, <1>3

\* getConnection touches only a connection that has not been used yet.
LEMMA GetConnectionFacts ==
    ASSUME TypeOK, NEW list, NEW host \in Host \cup {Undefined},
           NEW c \in Connection, GetConnection(list, host, c)
    PROVE  /\ remote' \in [Connection -> Host \cup {Undefined}]
           /\ socket' \in [Connection -> SocketState]
           /\ \A d \in Connection : socket'[d] # socket[d] =>
                  socket[d] = "unused" /\ socket'[d] \in {"connecting", "failed"}
           /\ \A d \in Connection : socket[d] # "unused" => remote'[d] = remote[d]
  <1>1. Resolved(Sought(host)) \in Host \cup {Undefined}
    BY LookupAssumption DEF Resolved, Sought
  <1>2. /\ remote \in [Connection -> Host \cup {Undefined}]
        /\ socket \in [Connection -> SocketState]
    BY DEF TypeOK
  <1>3. CASE UNCHANGED <<remote, socket>>
    BY <1>2, <1>3
  <1>4. CASE /\ socket[c] = "unused"
             /\ remote' = [remote EXCEPT ![c] = Resolved(Sought(host))]
             /\ socket' = [socket EXCEPT ![c] =
                    IF host = Undefined THEN "failed" ELSE "connecting"]
    BY <1>1, <1>2, <1>4 DEF SocketState
  <1>. QED
    BY <1>3, <1>4 DEF GetConnection

\* StubFor creates at most one stub, and leaves the others as they are.
LEMMA StubForFacts ==
    ASSUME TypeOK, NEW c \in Connection, NEW key \in Key, StubFor(c, key)
    PROVE  /\ stubs' \in Seq([id : Key, connection : Connection])
           /\ DOMAIN stubsById' = Connection
           /\ \A d \in Connection : \A k \in DOMAIN stubsById'[d] :
                  k \in Seq(0 .. 255) /\ stubsById'[d][k] \in DOMAIN stubs'
           /\ key \in DOMAIN stubsById'[c]
           /\ stubsById'[c][key] \in Nat
           /\ \A s \in DOMAIN stubs : s \in DOMAIN stubs' /\ stubs'[s] = stubs[s]
  <1> DEFINE new == [id |-> key, connection |-> c]
  <1>1. new \in [id : Key, connection : Connection]
    OBVIOUS
  <1>2. /\ stubs \in Seq([id : Key, connection : Connection])
        /\ DOMAIN stubs = 1 .. Len(stubs)
        /\ Len(stubs) \in Nat
    BY DEF TypeOK
  <1>3. key \in Seq(0 .. 255)
    BY LookupAssumption
  <1>4. CASE key \in DOMAIN stubsById[c] /\ UNCHANGED <<stubs, stubsById>>
    <2>1. stubsById[c][key] \in DOMAIN stubs
      BY <1>4 DEF TypeOK
    <2>. QED
      BY <1>2, <1>4, <2>1 DEF TypeOK
  <1>5. CASE /\ key \notin DOMAIN stubsById[c]
             /\ stubs' = Append(stubs, new)
             /\ stubsById' = [stubsById EXCEPT ![c] = MapSet(@, key, Len(stubs'))]
    <2>1. /\ stubs' \in Seq([id : Key, connection : Connection])
          /\ Len(stubs') = Len(stubs) + 1
          /\ DOMAIN stubs' = 1 .. Len(stubs) + 1
          /\ \A s \in DOMAIN stubs : s \in DOMAIN stubs' /\ stubs'[s] = stubs[s]
      BY <1>1, <1>2, <1>5
    <2>2. DOMAIN stubsById' = Connection
      BY <1>5 DEF TypeOK
    <2>3. /\ DOMAIN stubsById'[c] = DOMAIN stubsById[c] \cup {key}
          /\ \A k \in DOMAIN stubsById'[c] :
                 stubsById'[c][k] = IF k = key THEN Len(stubs) + 1 ELSE stubsById[c][k]
          /\ \A d \in Connection \ {c} : stubsById'[d] = stubsById[d]
      BY <1>5, <2>1 DEF MapSet, TypeOK
    <2>4. \A d \in Connection : \A k \in DOMAIN stubsById'[d] :
              k \in Seq(0 .. 255) /\ stubsById'[d][k] \in DOMAIN stubs'
      <3> SUFFICES ASSUME NEW d \in Connection, NEW k \in DOMAIN stubsById'[d]
                   PROVE  k \in Seq(0 .. 255) /\ stubsById'[d][k] \in DOMAIN stubs'
        OBVIOUS
      <3>1. CASE d = c /\ k = key
        BY <1>2, <1>3, <2>1, <2>3, <3>1
      <3>2. CASE ~(d = c /\ k = key)
        <4>1. k \in DOMAIN stubsById[d] /\ stubsById'[d][k] = stubsById[d][k]
          BY <2>3, <3>2
        <4>2. k \in Seq(0 .. 255) /\ stubsById[d][k] \in DOMAIN stubs
          BY <4>1 DEF TypeOK
        <4>. QED
          BY <2>1, <4>1, <4>2
      <3>. QED
        BY <3>1, <3>2
    <2>. QED
      BY <1>2, <2>1, <2>2, <2>3, <2>4
  <1>. QED
    BY <1>4, <1>5 DEF StubFor

-----------------------------------------------------------------------------
LEMMA InitIInv == Init => IInv
  <1> SUFFICES ASSUME Init
               PROVE  IInv
    OBVIOUS
  <1>1. TypeOK
    BY LookupAssumption DEF Init, TypeOK, SocketState
  <1>2. ListInv
    BY DEF Init, ListInv, NoDuplicates, ListedUsable, UsableListed, AtHand, Underway
  <1>3. Awaits
    BY DEF Init, Awaits
  <1>. QED
    BY <1>1, <1>2, <1>3 DEF IInv

-----------------------------------------------------------------------------
(***************************************************************************)
(* Type correctness.                                                       *)
(***************************************************************************)
\* The types of all but the list, what getConnection and what StubFor touch.
OtherTypes ==
    /\ serverSocket \in Seq(BOOLEAN)
    /\ pc \in [Lookup -> {"idle", "contacting", "resolving", "unanswered",
                         "locating", "done", "rejected"}]
    /\ via \in [Lookup -> Connection \cup {NoConnection}]
    /\ object \in [Lookup -> Nat]
    /\ replacePc \in {"idle", "next", "waiting", "rejected"}
    /\ replacing \in Seq(Connection)
    /\ replacement \in Connection \cup {NoConnection}

StubTypes ==
    /\ stubs \in Seq([id : Key, connection : Connection])
    /\ DOMAIN stubsById = Connection
    /\ \A c \in Connection : \A k \in DOMAIN stubsById[c] :
           k \in Seq(0 .. 255) /\ stubsById[c][k] \in DOMAIN stubs

SocketTypes ==
    /\ connections \in Seq(Connection)
    /\ remote \in [Connection -> Host \cup {Undefined}]
    /\ socket \in [Connection -> SocketState]

LEMMA TypeParts == TypeOK <=> SocketTypes /\ StubTypes /\ OtherTypes
  BY DEF TypeOK, SocketTypes, StubTypes, OtherTypes

LEMMA LookupTypes ==
    ASSUME IInv, NEW t \in Lookup, LookupStep(t)
    PROVE  TypeOK'
  <1> USE DEF IInv
  <1>1. /\ t.host \in Host /\ t.target \in Host /\ t.key \in Key /\ NameKey \in Key
    BY LookupAssumption
  <1>2. SocketTypes /\ StubTypes /\ OtherTypes
    BY TypeParts
  <1>3. ASSUME Begin(t) \/ Answer(t)
        PROVE  TypeOK'
    <2>1. PICK c \in Connection, host \in Host :
             GetConnection(connections, host, c) /\ via' = [via EXCEPT ![t] = c]
      BY <1>1, <1>3 DEF Begin, Answer
    <2>2. SocketTypes'
      BY <1>2, <1>3, <2>1, GetConnectionFacts, Zenon DEF SocketTypes, Begin, Answer
    <2>3. StubTypes'
      BY <1>2, <1>3 DEF StubTypes, Begin, Answer
    <2>4. OtherTypes'
      BY <1>2, <1>3, <2>1 DEF OtherTypes, Begin, Answer, replaceVars
    <2>. QED
      BY <2>2, <2>3, <2>4 DEF TypeOK, SocketTypes, StubTypes, OtherTypes
  <1>4. ASSUME NotFound(t) \/ AnswerSwallowed(t) \/ Reject(t)
        PROVE  TypeOK'
    <2>1. SocketTypes' /\ StubTypes'
      BY <1>2, <1>4 DEF SocketTypes, StubTypes, NotFound, AnswerSwallowed, Reject
    <2>2. OtherTypes'
      BY <1>2, <1>4, Zenon DEF OtherTypes, NotFound, AnswerSwallowed, Reject, replaceVars
    <2>. QED
      BY <2>1, <2>2 DEF TypeOK, SocketTypes, StubTypes, OtherTypes
  <1>5. ASSUME Resolve(t)
        PROVE  TypeOK'
    <2>1. via[t] \in Connection
      BY <1>5 DEF Resolve, Awaits
    <2>2. StubTypes'
      BY <1>1, <1>5, <2>1, StubForFacts, Zenon DEF Resolve, StubTypes
    <2>3. SocketTypes'
      BY <1>2, <1>5 DEF SocketTypes, Resolve
    <2>4. OtherTypes'
      BY <1>2, <1>5 DEF OtherTypes, Resolve, replaceVars
    <2>. QED
      BY <2>2, <2>3, <2>4 DEF TypeOK, SocketTypes, StubTypes, OtherTypes
  <1>6. ASSUME Return(t)
        PROVE  TypeOK'
    <2>1. via[t] \in Connection
      BY <1>6 DEF Return, Awaits
    <2>2. StubTypes' /\ stubsById'[via[t]][t.key] \in Nat
      BY <1>1, <1>6, <2>1, StubForFacts, Zenon DEF Return, StubTypes
    <2>3. SocketTypes'
      BY <1>2, <1>6 DEF SocketTypes, Return
    <2>4. OtherTypes'
      BY <1>2, <1>6, <2>2 DEF OtherTypes, Return, replaceVars
    <2>. QED
      BY <2>2, <2>3, <2>4, Zenon DEF TypeOK, SocketTypes, StubTypes, OtherTypes
  <1>. QED
    BY <1>3, <1>4, <1>5, <1>6 DEF LookupStep

LEMMA SocketEventTypes ==
    ASSUME IInv, NEW c \in Connection, SocketEvent(c)
    PROVE  TypeOK'
  <1> USE DEF IInv
  <1>1. SocketTypes /\ StubTypes /\ OtherTypes
    BY TypeParts
  <1>2. /\ Append(connections, c) \in Seq(Connection)
        /\ Without(c) \in Seq(Connection)
        /\ \A st \in SocketState :
               [socket EXCEPT ![c] = st] \in [Connection -> SocketState]
    BY <1>1, WithoutFacts DEF SocketTypes, ListInv
  <1>3. CASE Connected(c) \/ ConnectFails(c) \/ PeerEnds(c) \/ SocketClosed(c)
    <2>1. SocketTypes'
      BY <1>1, <1>2, <1>3, Zenon
      DEF SocketTypes, Connected, ConnectFails, PeerEnds, SocketClosed, SocketState
    <2>2. StubTypes'
      BY <1>1, <1>3 DEF StubTypes, Connected, ConnectFails, PeerEnds, SocketClosed
    <2>3. OtherTypes'
      BY <1>1, <1>3
      DEF OtherTypes, Connected, ConnectFails, PeerEnds, SocketClosed, replaceVars
    <2>. QED
      BY <2>1, <2>2, <2>3 DEF TypeOK, SocketTypes, StubTypes, OtherTypes
  <1>4. ASSUME NEW host \in Host, Accept(c, host)
        PROVE  TypeOK'
    <2>1. Resolved(host) \in Host
      BY LookupAssumption DEF Resolved
    <2>2. SocketTypes'
      BY <1>1, <1>2, <1>4, <2>1 DEF SocketTypes, Accept, SocketState
    <2>3. StubTypes' /\ OtherTypes'
      BY <1>1, <1>4 DEF StubTypes, OtherTypes, Accept, replaceVars
    <2>. QED
      BY <2>2, <2>3 DEF TypeOK, SocketTypes, StubTypes, OtherTypes
  <1>5. ASSUME NEW key \in Key, ReceiveReference(c, key)
        PROVE  TypeOK'
    <2>1. StubTypes'
      BY <1>5, StubForFacts, Zenon DEF ReceiveReference, StubTypes
    <2>2. SocketTypes' /\ OtherTypes'
      BY <1>1, <1>5 DEF SocketTypes, OtherTypes, ReceiveReference, replaceVars
    <2>. QED
      BY <2>1, <2>2 DEF TypeOK, SocketTypes, StubTypes, OtherTypes
  <1>. QED
    BY <1>3, <1>4, <1>5 DEF SocketEvent

LEMMA ShutdownTypes ==
    ASSUME IInv, Shutdown \/ ShutdownThrows
    PROVE  TypeOK'
  <1>1. SocketTypes /\ StubTypes /\ OtherTypes
    BY TypeParts DEF IInv
  <1>2. serverSocket' \in Seq(BOOLEAN)
    <2>1. DOMAIN serverSocket = 1 .. Len(serverSocket) /\ Len(serverSocket) \in Nat
      BY <1>1 DEF OtherTypes
    <2>2. serverSocket' \in [1 .. Len(serverSocket) -> BOOLEAN]
      <3>1. CASE Shutdown
        BY <2>1, <3>1 DEF Shutdown
      <3>2. CASE ShutdownThrows
        <4>1. PICK p \in 1 .. Len(serverSocket) :
                 serverSocket' = [q \in 1 .. Len(serverSocket) |->
                                     q > p /\ serverSocket[q]]
          BY <2>1, <3>2, Zenon DEF ShutdownThrows
        <4>2. \A q \in 1 .. Len(serverSocket) : (q > p /\ serverSocket[q]) \in BOOLEAN
          OBVIOUS
        <4>. QED
          BY <4>1, <4>2
      <3>. QED
        BY <3>1, <3>2
    <2>. QED
      BY <2>1, <2>2, SeqDef
  <1>3. SocketTypes'
    <2>1. Destroyed({d \in Connection : Listed(d)}) \in [Connection -> SocketState]
      BY <1>1 DEF Destroyed, SocketTypes, SocketState
    <2>2. <<>> \in Seq(Connection)
      OBVIOUS
    <2>. QED
      BY <1>1, <2>1, <2>2, Zenon DEF SocketTypes, Shutdown, ShutdownThrows
  <1>4. StubTypes' /\ OtherTypes'
    BY <1>1, <1>2 DEF StubTypes, OtherTypes, Shutdown, ShutdownThrows, replaceVars
  <1>. QED
    BY <1>3, <1>4 DEF TypeOK, SocketTypes, StubTypes, OtherTypes

\* The keys forEach hands out are keys.
LEMMA UnhexType ==
    ASSUME NEW key \in Seq(0 .. 255)
    PROVE  Unhex(key) \in Seq(0 .. 255)
  <1> DEFINE n == IF key = <<>> THEN 0 ELSE 2 * Len(key) - 1
  <1>1. Len(key) \in Nat /\ (key # <<>> => Len(key) > 0)
    OBVIOUS
  <1>2. n \in Nat
    BY <1>1
  <1>3. ASSUME NEW i \in 1 .. n
        PROVE  (IF i % 2 = 1 THEN key[(i + 1) \div 2] ELSE 0) \in 0 .. 255
    <2>1. key # <<>> /\ i \in Nat /\ 1 <= i /\ i <= 2 * Len(key) - 1
      BY <1>1, <1>3
    <2>2. (i + 1) \div 2 \in 1 .. Len(key)
      BY <1>1, <2>1
    <2>3. key[(i + 1) \div 2] \in 0 .. 255
      BY <2>2, ElementOfSeq, Zenon
    <2>. QED
      BY <2>3
  <1>4. Unhex(key) \in [1 .. n -> 0 .. 255]
    <2> HIDE DEF n
    <2>1. Unhex(key) = [i \in 1 .. n |-> IF i % 2 = 1 THEN key[(i + 1) \div 2] ELSE 0]
      BY DEF Unhex, n
    <2>. QED
      BY <1>3, <2>1
  <1> HIDE DEF n
  <1>. QED
    BY <1>2, <1>4, SeqDef

LEMMA MoveTypes ==
    ASSUME IInv, ReplaceMove
    PROVE  StubTypes'
  <1> DEFINE old == Head(replacing)
             new == replacement
             moved == stubsById[old]
             keys == {Unhex(k) : k \in DOMAIN moved}
  <1>1. SocketTypes /\ StubTypes /\ OtherTypes
    BY TypeParts DEF IInv
  <1>2. old \in Connection /\ new \in Connection
    BY <1>1 DEF IInv, ListInv, AtHand, Awaits, ReplaceMove, OtherTypes
  <1>3. /\ stubs \in Seq([id : Key, connection : Connection])
        /\ DOMAIN stubs = 1 .. Len(stubs)
        /\ Len(stubs) \in Nat
    BY <1>1 DEF StubTypes
  <1>4. \A k \in DOMAIN moved : k \in Seq(0 .. 255) /\ moved[k] \in DOMAIN stubs
    BY <1>1, <1>2 DEF StubTypes
  <1>5. stubs' \in Seq([id : Key, connection : Connection]) /\ DOMAIN stubs' = DOMAIN stubs
    <2>1. stubs' = [s \in 1 .. Len(stubs) |->
                       IF \E k \in DOMAIN moved : moved[k] = s
                       THEN [stubs[s] EXCEPT !.connection = new] ELSE stubs[s]]
      BY <1>3 DEF ReplaceMove
    <2>2. \A s \in 1 .. Len(stubs) :
              /\ stubs[s] \in [id : Key, connection : Connection]
              /\ [stubs[s] EXCEPT !.connection = new] \in [id : Key, connection : Connection]
      <3> SUFFICES ASSUME NEW s \in 1 .. Len(stubs)
                   PROVE  /\ stubs[s] \in [id : Key, connection : Connection]
                          /\ [stubs[s] EXCEPT !.connection = new]
                                 \in [id : Key, connection : Connection]
        OBVIOUS
      <3>1. stubs[s] \in [id : Key, connection : Connection]
        BY <1>3, ElementOfSeq, Zenon
      <3>. QED
        BY <1>2, <3>1
    <2>3. stubs' \in [1 .. Len(stubs) -> [id : Key, connection : Connection]]
      <3> HIDE DEF moved, new
      <3>. QED
        BY <2>1, <2>2
    <2>. QED
      BY <1>3, <2>3, SeqDef
  <1> DEFINE merged == [k \in DOMAIN stubsById[new] \cup keys |->
                           IF k \in keys
                           THEN moved[CHOOSE j \in DOMAIN moved : Unhex(j) = k]
                           ELSE stubsById[new][k]]
             none == [k \in {} |-> 0]
  <1>6. /\ DOMAIN stubsById' = Connection
        /\ \A c \in Connection : stubsById'[c] =
               IF c = old THEN none
               ELSE IF c = new THEN merged ELSE stubsById[c]
    <2>1. stubsById' = [stubsById EXCEPT ![new] = merged, ![old] = none]
      BY DEF ReplaceMove
    <2>2. DOMAIN stubsById = Connection
      BY <1>1 DEF StubTypes
    <2> HIDE DEF merged, none, keys, moved, old, new
    <2>. QED
      BY <1>2, <2>1, <2>2
  <1>7. \A k \in keys : /\ k \in Seq(0 .. 255)
                        /\ moved[CHOOSE j \in DOMAIN moved : Unhex(j) = k] \in DOMAIN stubs
    <2> SUFFICES ASSUME NEW j \in DOMAIN moved
                 PROVE  /\ Unhex(j) \in Seq(0 .. 255)
                        /\ moved[CHOOSE i \in DOMAIN moved : Unhex(i) = Unhex(j)]
                               \in DOMAIN stubs
      OBVIOUS
    <2>1. Unhex(j) \in Seq(0 .. 255)
      BY <1>4, UnhexType
    <2>2. (CHOOSE i \in DOMAIN moved : Unhex(i) = Unhex(j)) \in DOMAIN moved
      OBVIOUS
    <2>. QED
      BY <1>4, <2>1, <2>2
  <1>8. ASSUME NEW c \in Connection, NEW k \in DOMAIN stubsById'[c]
        PROVE  k \in Seq(0 .. 255) /\ stubsById'[c][k] \in DOMAIN stubs
    <2>1. CASE c = old
      BY <1>6, <1>8, <2>1, Zenon
    <2>2. CASE c # old /\ c = new
      <3> HIDE DEF keys, moved
      <3>1. /\ k \in DOMAIN stubsById[c] \cup keys
            /\ stubsById'[c][k] = IF k \in keys
                                  THEN moved[CHOOSE j \in DOMAIN moved : Unhex(j) = k]
                                  ELSE stubsById[c][k]
        BY <1>6, <1>8, <2>2
      <3>. QED
        BY <1>1, <1>7, <3>1 DEF StubTypes
    <2>3. CASE c # old /\ c # new
      BY <1>1, <1>6, <1>8, <2>3, Zenon DEF StubTypes
    <2>. QED
      BY <2>1, <2>2, <2>3
  <1>. QED
    BY <1>5, <1>6, <1>8 DEF StubTypes

LEMMA ReplacementTypes ==
    ASSUME IInv, Replacement
    PROVE  TypeOK'
  <1>1. SocketTypes /\ StubTypes /\ OtherTypes
    BY TypeParts DEF IInv
  <1>2. CASE ReplaceAllConnections \/ ReplaceDone \/ ReplaceFails
    <2>1. SocketTypes' /\ StubTypes'
      BY <1>1, <1>2
      DEF SocketTypes, StubTypes, ReplaceAllConnections, ReplaceDone, ReplaceFails
    <2>2. OtherTypes'
      BY <1>1, <1>2
      DEF SocketTypes, OtherTypes, ReplaceAllConnections, ReplaceDone, ReplaceFails
    <2>. QED
      BY <2>1, <2>2 DEF TypeOK, SocketTypes, StubTypes, OtherTypes
  <1>3. CASE ReplaceNext
    <2>1. Head(replacing) \in Connection
      BY <1>1, <1>3 DEF ReplaceNext, OtherTypes
    <2>2. RemoteAddress(Head(replacing)) \in Host \cup {Undefined}
      BY <1>1, <2>1 DEF RemoteAddress, SocketTypes
    <2>3. PICK c \in Connection :
             /\ GetConnection(connections', RemoteAddress(Head(replacing)), c)
             /\ replacement' = c
      BY <1>3 DEF ReplaceNext
    <2>4. connections' \in Seq(Connection)
      BY <1>1, <1>3, <2>1, WithoutFacts DEF ReplaceNext, SocketTypes, IInv, ListInv
    <2>5. SocketTypes'
      BY <2>2, <2>3, <2>4, GetConnectionFacts DEF SocketTypes, IInv
    <2>6. StubTypes' /\ OtherTypes'
      BY <1>1, <1>3, <2>3 DEF StubTypes, OtherTypes, ReplaceNext
    <2>. QED
      BY <2>5, <2>6 DEF TypeOK, SocketTypes, StubTypes, OtherTypes
  <1>4. CASE ReplaceMove
    <2>1. SocketTypes'
      BY <1>1, <1>4 DEF SocketTypes, ReplaceMove, Destroyed, SocketState
    <2>2. Tail(replacing) \in Seq(Connection)
      BY <1>1, <1>4 DEF OtherTypes, IInv, ListInv, AtHand, ReplaceMove
    <2>3. OtherTypes'
      BY <1>1, <1>4, <2>2 DEF OtherTypes, ReplaceMove
    <2>. QED
      BY <1>4, <2>1, <2>3, MoveTypes DEF TypeOK, SocketTypes, StubTypes, OtherTypes
  <1>. QED
    BY <1>2, <1>3, <1>4 DEF Replacement

LEMMA TypeStep == IInv /\ [Next]_vars => TypeOK'
  <1> SUFFICES ASSUME IInv, [Next]_vars
               PROVE  TypeOK'
    OBVIOUS
  <1>1. CASE UNCHANGED vars
    BY <1>1 DEF vars, replaceVars, IInv, TypeOK
  <1>. QED
    BY <1>1, LookupTypes, SocketEventTypes, ShutdownTypes, ReplacementTypes DEF Next

-----------------------------------------------------------------------------
(***************************************************************************)
(* The list.                                                               *)
(***************************************************************************)
\* A step that neither lists nor replaces, and that at most begins to open
\* connections.
LEMMA QuietList ==
    ASSUME IInv,
           UNCHANGED <<connections, replacePc, replacing>>,
           \A d \in Connection : socket'[d] # socket[d] =>
               socket[d] = "unused" /\ socket'[d] \in {"connecting", "failed"}
    PROVE  ListInv'
  <1>1. /\ \A i \in DOMAIN connections : connections[i] \in Connection
        /\ \A i \in DOMAIN replacing : replacing[i] \in Connection
    BY DEF IInv, TypeOK
  <1>2. NoDuplicates' /\ AtHand'
    BY DEF IInv, ListInv, NoDuplicates, AtHand, Listed
  <1>3. ListedUsable'
    BY <1>1 DEF IInv, ListInv, ListedUsable
  <1>4. UsableListed'
    BY DEF IInv, ListInv, UsableListed, Listed
  <1>5. Underway'
    BY <1>1 DEF IInv, ListInv, Underway
  <1>. QED
    BY <1>2, <1>3, <1>4, <1>5 DEF ListInv

LEMMA LookupList ==
    ASSUME IInv, NEW t \in Lookup, LookupStep(t)
    PROVE  ListInv'
  <1>1. CASE Begin(t) \/ Answer(t)
    <2>1. t.host \in Host /\ t.target \in Host
      BY LookupAssumption
    <2>2. PICK c \in Connection, host \in Host : GetConnection(connections, host, c)
      BY <1>1, <2>1 DEF Begin, Answer
    <2>3. \A d \in Connection : socket'[d] # socket[d] =>
              socket[d] = "unused" /\ socket'[d] \in {"connecting", "failed"}
      BY <2>2, GetConnectionFacts DEF IInv
    <2>4. UNCHANGED <<connections, replacePc, replacing>>
      BY <1>1 DEF Begin, Answer, replaceVars
    <2>. QED
      BY <2>3, <2>4, QuietList
  <1>2. CASE Resolve(t) \/ NotFound(t) \/ AnswerSwallowed(t) \/ Return(t) \/ Reject(t)
    <2>1. UNCHANGED <<connections, replacePc, replacing, socket>>
      BY <1>2 DEF Resolve, NotFound, AnswerSwallowed, Return, Reject, replaceVars
    <2>. QED
      BY <2>1, QuietList
  <1>. QED
    BY <1>1, <1>2 DEF LookupStep

\* A connection that has just been opened is neither listed nor to be replaced.
LEMMA AppendedList ==
    ASSUME IInv, NEW c \in Connection, socket[c] \in {"connecting", "unused"},
           socket' = [socket EXCEPT ![c] = "open"],
           connections' = Append(connections, c),
           UNCHANGED <<replacePc, replacing>>
    PROVE  ListInv'
  <1>1. /\ connections \in Seq(Connection)
        /\ DOMAIN connections = 1 .. Len(connections) /\ Len(connections) \in Nat
        /\ socket \in [Connection -> SocketState]
        /\ replacing \in Seq(Connection)
    BY DEF IInv, TypeOK
  <1>2. \A i \in DOMAIN connections : connections[i] \in Connection /\ connections[i] # c
    BY <1>1 DEF IInv, ListInv, ListedUsable
  <1>3. \A i \in DOMAIN replacing : replacing[i] \in Connection /\ replacing[i] # c
    BY <1>1 DEF IInv, ListInv, Underway
  <1>4. /\ DOMAIN connections' = 1 .. Len(connections) + 1
        /\ \A i \in 1 .. Len(connections) : connections'[i] = connections[i]
        /\ connections'[Len(connections) + 1] = c
    BY <1>1
  <1>5. NoDuplicates'
    BY <1>1, <1>2, <1>4 DEF IInv, ListInv, NoDuplicates
  <1>6. ListedUsable'
    BY <1>1, <1>2, <1>4 DEF IInv, ListInv, ListedUsable
  <1>7. \A d \in Connection : Listed(d)' <=> Listed(d) \/ d = c
    BY <1>1, <1>4 DEF Listed
  <1>8. UsableListed'
    BY <1>1, <1>7 DEF IInv, ListInv, UsableListed
  <1>9. AtHand'
    <2> SUFFICES ASSUME replacePc \in {"waiting", "rejected"}
                 PROVE  replacing # <<>> /\ ~Listed(Head(replacing))'
      BY DEF AtHand
    <2>1. replacing # <<>> /\ ~Listed(Head(replacing))
      BY DEF IInv, ListInv, AtHand
    <2>2. Head(replacing) \in Connection /\ Head(replacing) # c
      BY <1>1, <1>3, <2>1
    <2>. QED
      BY <1>7, <2>1, <2>2
  <1>10. Underway'
    BY <1>1, <1>3 DEF IInv, ListInv, Underway
  <1>. QED
    BY <1>5, <1>6, <1>8, <1>9, <1>10 DEF ListInv

LEMMA SocketEventList ==
    ASSUME IInv, NEW c \in Connection, SocketEvent(c)
    PROVE  ListInv'
  <1>1. /\ connections \in Seq(Connection)
        /\ \A i \in DOMAIN connections : connections[i] \in Connection
        /\ socket \in [Connection -> SocketState]
        /\ replacing \in Seq(Connection)
        /\ \A i \in DOMAIN replacing : replacing[i] \in Connection
    BY DEF IInv, TypeOK
  <1>2. CASE Connected(c) \/ \E host \in Host : Accept(c, host)
    BY <1>2, AppendedList DEF Connected, Accept, replaceVars
  <1>3. CASE ConnectFails(c)
    <2>1. NoDuplicates' /\ AtHand'
      BY <1>3 DEF IInv, ListInv, NoDuplicates, AtHand, Listed, ConnectFails, replaceVars
    <2>2. ListedUsable' /\ Underway'
      BY <1>1, <1>3 DEF IInv, ListInv, ListedUsable, Underway, ConnectFails, replaceVars
    <2>3. UsableListed'
      BY <1>1, <1>3 DEF IInv, ListInv, UsableListed, Listed, ConnectFails, replaceVars
    <2>. QED
      BY <2>1, <2>2, <2>3 DEF ListInv
  <1>4. CASE PeerEnds(c)
    <2>1. NoDuplicates' /\ AtHand'
      BY <1>4 DEF IInv, ListInv, NoDuplicates, AtHand, Listed, PeerEnds, replaceVars
    <2>2. ListedUsable' /\ Underway'
      BY <1>1, <1>4 DEF IInv, ListInv, ListedUsable, Underway, PeerEnds, replaceVars
    <2>3. UsableListed'
      BY <1>1, <1>4 DEF IInv, ListInv, UsableListed, Listed, PeerEnds, replaceVars
    <2>. QED
      BY <2>1, <2>2, <2>3 DEF ListInv
  <1>5. CASE SocketClosed(c)
    <2>1. /\ connections' = Without(c)
          /\ socket' = [socket EXCEPT ![c] = "closed"]
          /\ UNCHANGED <<replacePc, replacing>>
      BY <1>5 DEF SocketClosed, replaceVars
    <2>2. /\ \A i \in DOMAIN connections' : connections'[i] # c
          /\ \A i \in DOMAIN connections' :
                 \E j \in DOMAIN connections : connections[j] = connections'[i]
          /\ \A j \in DOMAIN connections : connections[j] # c =>
                 \E i \in DOMAIN connections' : connections'[i] = connections[j]
          /\ \A i, j \in DOMAIN connections' :
                 connections'[i] = connections'[j] => i = j
      BY <1>1, <2>1, WithoutFacts DEF IInv, ListInv
    <2>3. NoDuplicates'
      BY <2>2 DEF NoDuplicates
    <2>4. ListedUsable'
      BY <1>1, <2>1, <2>2 DEF IInv, ListInv, ListedUsable
    <2>5. \A d \in Connection : Listed(d)' <=> Listed(d) /\ d # c
      BY <2>2 DEF Listed
    <2>6. UsableListed'
      BY <1>1, <2>1, <2>5 DEF IInv, ListInv, UsableListed
    <2>7. AtHand'
      <3>1. replacing # <<>> => Head(replacing) \in Connection
        BY <1>1
      <3>. QED
        BY <2>1, <2>5, <3>1 DEF IInv, ListInv, AtHand
    <2>8. Underway'
      BY <1>1, <2>1 DEF IInv, ListInv, Underway
    <2>. QED
      BY <2>3, <2>4, <2>6, <2>7, <2>8 DEF ListInv
  <1>6. ASSUME NEW key \in Key, ReceiveReference(c, key)
        PROVE  ListInv'
    BY <1>6, QuietList DEF ReceiveReference, replaceVars
  <1>. QED
    BY <1>2, <1>3, <1>4, <1>5, <1>6 DEF SocketEvent

LEMMA ShutdownList ==
    ASSUME IInv, Shutdown \/ ShutdownThrows
    PROVE  ListInv'
  <1>1. CASE ShutdownThrows
    BY <1>1, QuietList DEF ShutdownThrows, replaceVars
  <1>2. CASE Shutdown
    <2>1. /\ connections' = <<>>
          /\ UNCHANGED <<replacePc, replacing>>
          /\ \A d \in Connection : socket'[d] =
                 IF Listed(d) /\ socket[d] \in {"open", "ending"}
                 THEN "destroyed" ELSE socket[d]
      BY <1>2 DEF Shutdown, Destroyed, replaceVars
    <2>2. \A i \in DOMAIN replacing : replacing[i] \in Connection
      BY DEF IInv, TypeOK
    <2>3. NoDuplicates' /\ ListedUsable'
      BY <2>1 DEF NoDuplicates, ListedUsable
    <2>4. UsableListed'
      BY <2>1 DEF IInv, ListInv, UsableListed
    <2>5. AtHand'
      BY <2>1 DEF IInv, ListInv, AtHand, Listed
    <2>6. Underway'
      BY <2>1, <2>2 DEF IInv, ListInv, Underway
    <2>. QED
      BY <2>3, <2>4, <2>5, <2>6 DEF ListInv
  <1>. QED
    BY <1>1, <1>2

LEMMA ReplaceNextList ==
    ASSUME IInv, ReplaceNext
    PROVE  ListInv'
  <1> DEFINE old == Head(replacing)
  <1>1. /\ connections \in Seq(Connection)
        /\ \A i \in DOMAIN connections : connections[i] \in Connection
        /\ replacing \in Seq(Connection)
        /\ \A i \in DOMAIN replacing : replacing[i] \in Connection
    BY DEF IInv, TypeOK
  <1>2. /\ replacePc = "next" /\ replacePc' = "waiting"
        /\ replacing # <<>> /\ replacing' = replacing
        /\ connections' = Without(old)
        /\ old \in Connection
    BY <1>1 DEF ReplaceNext
  <1>3. PICK c \in Connection : GetConnection(connections', RemoteAddress(old), c)
    BY DEF ReplaceNext
  <1>4. RemoteAddress(old) \in Host \cup {Undefined}
    BY <1>2 DEF RemoteAddress, IInv, TypeOK
  <1>5. \A d \in Connection : socket'[d] # socket[d] =>
            socket[d] = "unused" /\ socket'[d] \in {"connecting", "failed"}
    BY <1>3, <1>4, GetConnectionFacts, Zenon DEF IInv
  <1>6. /\ \A i \in DOMAIN connections' : connections'[i] # old
        /\ \A i \in DOMAIN connections' :
               \E j \in DOMAIN connections : connections[j] = connections'[i]
        /\ \A j \in DOMAIN connections : connections[j] # old =>
               \E i \in DOMAIN connections' : connections'[i] = connections[j]
        /\ \A i, j \in DOMAIN connections' :
               connections'[i] = connections'[j] => i = j
    BY <1>1, <1>2, WithoutFacts DEF IInv, ListInv
  <1>7. NoDuplicates'
    BY <1>6 DEF NoDuplicates
  <1>8. ListedUsable'
    BY <1>1, <1>5, <1>6 DEF IInv, ListInv, ListedUsable
  <1>9. UsableListed'
    BY <1>2, <1>5, <1>6 DEF IInv, ListInv, UsableListed, Listed
  <1>10. AtHand'
    BY <1>2, <1>6 DEF AtHand, Listed
  <1>11. Underway'
    BY <1>1, <1>2, <1>5 DEF IInv, ListInv, Underway
  <1>. QED
    BY <1>7, <1>8, <1>9, <1>10, <1>11 DEF ListInv

LEMMA ReplacementList ==
    ASSUME IInv, Replacement
    PROVE  ListInv'
  <1>1. /\ connections \in Seq(Connection)
        /\ \A i \in DOMAIN connections : connections[i] \in Connection
        /\ replacing \in Seq(Connection)
        /\ \A i \in DOMAIN replacing : replacing[i] \in Connection
    BY DEF IInv, TypeOK
  <1>2. CASE ReplaceAllConnections
    <2>1. NoDuplicates' /\ ListedUsable' /\ AtHand' /\ Underway'
      BY <1>2
      DEF IInv, ListInv, NoDuplicates, ListedUsable, AtHand, Underway, Listed,
          ReplaceAllConnections
    <2>2. UsableListed'
      BY <1>2 DEF IInv, ListInv, UsableListed, Listed, ReplaceAllConnections
    <2>. QED
      BY <2>1, <2>2 DEF ListInv
  <1>3. CASE ReplaceMove
    <2>1. /\ replacePc = "waiting" /\ replacePc' = "next"
          /\ replacing' = Tail(replacing)
          /\ connections' = connections
          /\ \A d \in Connection : socket'[d] =
                 IF d = Head(replacing) /\ socket[d] \in {"open", "ending"}
                 THEN "destroyed" ELSE socket[d]
      BY <1>3 DEF ReplaceMove, Destroyed
    <2>2. replacing # <<>> /\ ~Listed(Head(replacing))
      BY <2>1 DEF IInv, ListInv, AtHand
    <2>3. NoDuplicates' /\ AtHand'
      BY <2>1 DEF IInv, ListInv, NoDuplicates, AtHand
    <2>4. ListedUsable'
      BY <1>1, <2>1, <2>2 DEF IInv, ListInv, ListedUsable, Listed
    <2>5. UsableListed'
      BY <2>1 DEF IInv, ListInv, UsableListed, Listed
    <2>6. \A i \in DOMAIN Tail(replacing) :
              i + 1 \in DOMAIN replacing /\ Tail(replacing)[i] = replacing[i + 1]
      BY <1>1, <2>2
    <2>7. Underway'
      BY <1>1, <2>1, <2>6 DEF IInv, ListInv, Underway
    <2>. QED
      BY <2>3, <2>4, <2>5, <2>7 DEF ListInv
  <1>4. CASE ReplaceDone
    <2>1. NoDuplicates' /\ ListedUsable' /\ AtHand' /\ Underway'
      BY <1>4
      DEF IInv, ListInv, NoDuplicates, ListedUsable, AtHand, Underway, ReplaceDone
    <2>2. UsableListed'
      BY <1>4 DEF IInv, ListInv, UsableListed, Listed, ReplaceDone
    <2>. QED
      BY <2>1, <2>2 DEF ListInv
  <1>5. CASE ReplaceFails
    <2>1. NoDuplicates' /\ ListedUsable' /\ AtHand' /\ Underway'
      BY <1>5
      DEF IInv, ListInv, NoDuplicates, ListedUsable, AtHand, Underway, Listed,
          ReplaceFails
    <2>2. UsableListed'
      BY <1>5 DEF IInv, ListInv, UsableListed, Listed, ReplaceFails
    <2>. QED
      BY <2>1, <2>2 DEF ListInv
  <1>. QED
    BY <1>2, <1>3, <1>4, <1>5, ReplaceNextList DEF Replacement

LEMMA ListStep == IInv /\ [Next]_vars => ListInv'
  <1> SUFFICES ASSUME IInv, [Next]_vars
               PROVE  ListInv'
    OBVIOUS
  <1>1. CASE UNCHANGED vars
    BY <1>1, QuietList DEF vars, replaceVars
  <1>. QED
    BY <1>1, LookupList, SocketEventList, ShutdownList, ReplacementList DEF Next

-----------------------------------------------------------------------------
(***************************************************************************)
(* A connection that has been used stays used, so what a lookup waits for  *)
(* is there.                                                               *)
(***************************************************************************)
LEMMA StaysUsed ==
    ASSUME IInv, Next, NEW d \in Connection, socket[d] # "unused"
    PROVE  socket'[d] # "unused" /\ remote'[d] = remote[d]
  <1>1. socket \in [Connection -> SocketState] /\ remote \in [Connection -> Host \cup {Undefined}]
    BY DEF IInv, TypeOK
  <1>2. ASSUME NEW t \in Lookup, LookupStep(t)
        PROVE  socket'[d] # "unused" /\ remote'[d] = remote[d]
    <2>1. CASE Begin(t) \/ Answer(t)
      <3>1. t.host \in Host /\ t.target \in Host
        BY LookupAssumption
      <3>2. PICK c \in Connection, host \in Host : GetConnection(connections, host, c)
        BY <2>1, <3>1 DEF Begin, Answer
      <3>. QED
        BY <3>2, GetConnectionFacts DEF IInv
    <2>2. CASE Resolve(t) \/ NotFound(t) \/ AnswerSwallowed(t) \/ Return(t) \/ Reject(t)
      BY <2>2 DEF Resolve, NotFound, AnswerSwallowed, Return, Reject
    <2>. QED
      BY <1>2, <2>1, <2>2 DEF LookupStep
  <1>3. ASSUME NEW c \in Connection, SocketEvent(c)
        PROVE  socket'[d] # "unused" /\ remote'[d] = remote[d]
    BY <1>1, <1>3
    DEF SocketEvent, Connected, ConnectFails, Accept, PeerEnds, SocketClosed,
        ReceiveReference
  <1>4. CASE Shutdown \/ ShutdownThrows
    BY <1>4 DEF Shutdown, ShutdownThrows, Destroyed
  <1>5. CASE ReplaceNext
    <2>1. Head(replacing) \in Connection
      BY <1>5 DEF ReplaceNext, IInv, TypeOK
    <2>2. RemoteAddress(Head(replacing)) \in Host \cup {Undefined}
      BY <1>1, <2>1 DEF RemoteAddress
    <2>3. PICK c \in Connection :
             GetConnection(connections', RemoteAddress(Head(replacing)), c)
      BY <1>5 DEF ReplaceNext
    <2>. QED
      BY <2>2, <2>3, GetConnectionFacts, Zenon DEF IInv
  <1>6. CASE ReplaceAllConnections \/ ReplaceMove \/ ReplaceDone \/ ReplaceFails
    BY <1>6 DEF ReplaceAllConnections, ReplaceMove, ReplaceDone, ReplaceFails, Destroyed
  <1>. QED
    BY <1>2, <1>3, <1>4, <1>5, <1>6 DEF Next, Replacement

\* A connection that getConnection is about to return has been used.
LEMMA FoundUsed ==
    ASSUME IInv, NEW host \in Host, NEW c \in Connection,
           GetConnection(connections, host, c)
    PROVE  socket'[c] # "unused"
  <1>1. CASE Matching(connections, host) # {}
    <2>1. PICK i \in DOMAIN connections : c = connections[i] /\ socket' = socket
      BY <1>1 DEF GetConnection, Matching
    <2>. QED
      BY <2>1 DEF IInv, ListInv, ListedUsable
  <1>2. CASE Matching(connections, host) = {}
    BY <1>2 DEF GetConnection, IInv, TypeOK
  <1>. QED
    BY <1>1, <1>2

LEMMA AwaitsStep == IInv /\ [Next]_vars => Awaits'
  <1> SUFFICES ASSUME IInv, [Next]_vars
               PROVE  Awaits'
    OBVIOUS
  <1>1. CASE UNCHANGED vars
    BY <1>1 DEF vars, replaceVars, IInv, Awaits
  <1>2. ASSUME Next, UNCHANGED <<pc, via>>
        PROVE  \A t \in Lookup : pc'[t] \in {"contacting", "resolving", "locating"} =>
                   via'[t] \in Connection /\ socket'[via'[t]] # "unused"
    BY <1>2, StaysUsed DEF IInv, Awaits
  <1>3. ASSUME NEW t \in Lookup, LookupStep(t)
        PROVE  Awaits'
    <2>1. /\ pc \in [Lookup -> {"idle", "contacting", "resolving", "unanswered",
                               "locating", "done", "rejected"}]
          /\ via \in [Lookup -> Connection \cup {NoConnection}]
          /\ t.host \in Host /\ t.target \in Host
      BY LookupAssumption DEF IInv, TypeOK
    <2>2. \A u \in Lookup \ {t} : pc'[u] = pc[u] /\ via'[u] = via[u]
      BY <1>3, <2>1
      DEF LookupStep, Begin, Resolve, Answer, NotFound, AnswerSwallowed, Return, Reject
    <2>3. pc'[t] \in {"contacting", "resolving", "locating"} =>
              via'[t] \in Connection /\ socket'[via'[t]] # "unused"
      <3>1. CASE Begin(t) \/ Answer(t)
        <4>1. PICK c \in Connection, host \in Host :
                 GetConnection(connections, host, c) /\ via' = [via EXCEPT ![t] = c]
          BY <2>1, <3>1 DEF Begin, Answer
        <4>. QED
          BY <2>1, <4>1, FoundUsed
      <3>2. CASE Resolve(t)
        BY <2>1, <3>2 DEF Resolve, IInv, Awaits
      <3>3. CASE NotFound(t) \/ AnswerSwallowed(t) \/ Return(t) \/ Reject(t)
        BY <2>1, <3>3 DEF NotFound, AnswerSwallowed, Return, Reject
      <3>. QED
        BY <1>3, <3>1, <3>2, <3>3 DEF LookupStep
    <2>4. Next
      BY <1>3 DEF Next
    <2>5. UNCHANGED <<replacePc, replacement>>
      BY <1>3
      DEF LookupStep, Begin, Resolve, Answer, NotFound, AnswerSwallowed, Return,
          Reject, replaceVars
    <2>. QED
      BY <2>2, <2>3, <2>4, <2>5, StaysUsed DEF IInv, Awaits
  <1>4. ASSUME NEW c \in Connection, SocketEvent(c)
        PROVE  Awaits'
    <2>1. Next
      BY <1>4 DEF Next
    <2>2. UNCHANGED <<pc, via, replacePc, replacement>>
      BY <1>4
      DEF SocketEvent, Connected, ConnectFails, Accept, PeerEnds, SocketClosed,
          ReceiveReference, replaceVars
    <2>. QED
      BY <1>2, <2>1, <2>2 DEF IInv, Awaits
  <1>5. CASE Shutdown \/ ShutdownThrows
    <2>1. Next
      BY <1>5 DEF Next
    <2>2. UNCHANGED <<pc, via, replacePc, replacement>>
      BY <1>5 DEF Shutdown, ShutdownThrows, replaceVars
    <2>. QED
      BY <1>2, <2>1, <2>2 DEF IInv, Awaits
  <1>6. CASE Replacement
    <2>1. Next
      BY <1>6 DEF Next
    <2>2. UNCHANGED <<pc, via>>
      BY <1>6
      DEF Replacement, ReplaceAllConnections, ReplaceNext, ReplaceMove, ReplaceDone,
          ReplaceFails
    <2>3. replacePc' = "waiting" => replacement' \in Connection
      BY <1>6
      DEF Replacement, ReplaceAllConnections, ReplaceNext, ReplaceMove, ReplaceDone,
          ReplaceFails
    <2>. QED
      BY <1>2, <2>1, <2>2, <2>3 DEF Awaits
  <1>. QED
    BY <1>1, <1>3, <1>4, <1>5, <1>6 DEF Next

-----------------------------------------------------------------------------
LEMMA IInvStep == IInv /\ [Next]_vars => IInv'
  BY TypeStep, ListStep, AwaitsStep DEF IInv

(***************************************************************************)
(* The inductive invariant of connection management holds (orb.ts,         *)
(* getConnection to replaceAllConnections).                                *)
(***************************************************************************)
THEOREM ConnectionsInvariant == Spec => []IInv
  BY InitIInv, IInvStep, PTL DEF Spec

(***************************************************************************)
(* The state of connection management keeps its types.                     *)
(***************************************************************************)
THEOREM ConnectionsTypeCorrect == Spec => []TypeOK
  <1>1. IInv => TypeOK
    BY DEF IInv
  <1>. QED
    BY <1>1, ConnectionsInvariant, PTL

(***************************************************************************)
(* The list of connections agrees with the sockets, whatever connects,     *)
(* fails, ends, is shut down or replaced meanwhile (orb.ts, addConnection, *)
(* removeConnection).                                                      *)
(***************************************************************************)
THEOREM ListAgreesWithSockets == Spec => []ListAgrees
  <1>1. IInv => ListAgrees
    BY DEF IInv, ListInv, NoDuplicates, ListedUsable, UsableListed, ListAgrees
  <1>. QED
    BY <1>1, ConnectionsInvariant, PTL
-----------------------------------------------------------------------------
(***************************************************************************)
(* As long as the application does not replace connections, an object has  *)
(* one stub per connection, and a lookup returns the stub of the object it *)
(* asked for.                                                              *)
(***************************************************************************)
(***************************************************************************)
(* Registered and StubsFound say that stubsById and stubs are inverse to   *)
(* each other.  A connection is found by the address it reports: that is   *)
(* Resolved, never a name (Addressed), and does not change once the        *)
(* connection is used, which those of the stubs are (UsedStubs).           *)
(***************************************************************************)
Registered ==
    \A c \in Connection : \A k \in DOMAIN stubsById[c] :
        stubs[stubsById[c][k]] = [id |-> k, connection |-> c]

Addressed == \A c \in Connection : remote[c] # "localhost"

UsedStubs == \A s \in DOMAIN stubs : socket[stubs[s].connection] # "unused"

Located == \A t \in Lookup : pc[t] = "locating" => remote[via[t]] = Resolved(t.target)

StubInv == Registered /\ StubsFound /\ Addressed /\ UsedStubs /\ Located /\ RightObject

NoReplacement == replacePc = "idle"

-----------------------------------------------------------------------------
LEMMA InitStubs == Init => StubInv /\ NoReplacement
  BY LookupAssumption
  DEF Init, StubInv, Registered, StubsFound, Addressed, UsedStubs, Located,
      RightObject, NoReplacement

LEMMA NoReplacementStep ==
    ASSUME Replaces = FALSE, NoReplacement, [Next]_vars
    PROVE  NoReplacement' /\ (Replacement => UNCHANGED vars)
  <1>1. ~Replacement
    BY DEF Replacement, ReplaceAllConnections, ReplaceNext, ReplaceMove,
           ReplaceDone, ReplaceFails, NoReplacement
  <1>2. NoReplacement'
    BY <1>1
    DEF Next, vars, replaceVars, NoReplacement, SocketEvent, Connected, ConnectFails,
        Accept, PeerEnds, SocketClosed, ReceiveReference, LookupStep, Begin, Resolve,
        Answer, NotFound, AnswerSwallowed, Return, Reject, Shutdown, ShutdownThrows
  <1>. QED
    BY <1>1, <1>2

LEMMA StubConnections ==
    ASSUME TypeOK
    PROVE  \A s \in DOMAIN stubs : stubs[s].connection \in Connection
  <1>1. stubs \in Seq([id : Key, connection : Connection]) /\ DOMAIN stubs = 1 .. Len(stubs)
    BY DEF TypeOK
  <1>2. \A s \in DOMAIN stubs : stubs[s] \in [id : Key, connection : Connection]
    BY <1>1, ElementOfSeq, Zenon
  <1>. QED
    BY <1>2

\* A stub that is looked for is found or created, and registered either way.
LEMMA StubForKeeps ==
    ASSUME TypeOK, Registered, StubsFound, NEW c \in Connection, NEW key \in Key,
           StubFor(c, key)
    PROVE  /\ Registered' /\ StubsFound'
           /\ stubsById'[c][key] \in DOMAIN stubs'
           /\ stubs'[stubsById'[c][key]] = [id |-> key, connection |-> c]
           /\ \A s \in DOMAIN stubs : s \in DOMAIN stubs' /\ stubs'[s] = stubs[s]
           /\ \A s \in DOMAIN stubs' : s \in DOMAIN stubs \/ stubs'[s].connection = c
  <1> DEFINE new == [id |-> key, connection |-> c]
  <1>1. /\ stubs \in Seq([id : Key, connection : Connection])
        /\ DOMAIN stubs = 1 .. Len(stubs)
        /\ Len(stubs) \in Nat
        /\ DOMAIN stubsById = Connection
        /\ \A d \in Connection : \A k \in DOMAIN stubsById[d] :
               stubsById[d][k] \in DOMAIN stubs
        /\ \A s \in DOMAIN stubs : stubs[s].connection \in Connection
    BY StubConnections DEF TypeOK
  <1>2. CASE key \in DOMAIN stubsById[c] /\ UNCHANGED <<stubs, stubsById>>
    <2>1. Registered' /\ StubsFound'
      BY <1>2 DEF Registered, StubsFound
    <2>2. stubsById[c][key] \in DOMAIN stubs /\ stubs[stubsById[c][key]] = new
      BY <1>1, <1>2 DEF Registered
    <2>. QED
      BY <1>2, <2>1, <2>2
  <1>3. CASE /\ key \notin DOMAIN stubsById[c]
             /\ stubs' = Append(stubs, new)
             /\ stubsById' = [stubsById EXCEPT ![c] = MapSet(@, key, Len(stubs'))]
    <2>1. /\ DOMAIN stubs' = 1 .. Len(stubs) + 1
          /\ Len(stubs') = Len(stubs) + 1
          /\ stubs'[Len(stubs) + 1] = new
          /\ \A s \in DOMAIN stubs : s \in DOMAIN stubs' /\ stubs'[s] = stubs[s]
      BY <1>1, <1>3
    <2>2. /\ DOMAIN stubsById'[c] = DOMAIN stubsById[c] \cup {key}
          /\ \A k \in DOMAIN stubsById'[c] :
                 stubsById'[c][k] = IF k = key THEN Len(stubs) + 1 ELSE stubsById[c][k]
          /\ \A d \in Connection \ {c} : stubsById'[d] = stubsById[d]
      BY <1>1, <1>3, <2>1 DEF MapSet
    <2>3. Registered'
      <3> SUFFICES ASSUME NEW d \in Connection, NEW k \in DOMAIN stubsById'[d]
                   PROVE  stubs'[stubsById'[d][k]] = [id |-> k, connection |-> d]
        BY Zenon DEF Registered
      <3>1. CASE d = c /\ k = key
        BY <2>1, <2>2, <3>1
      <3>2. CASE ~(d = c /\ k = key)
        <4>1. k \in DOMAIN stubsById[d] /\ stubsById'[d][k] = stubsById[d][k]
          BY <2>2, <3>2
        <4>. QED
          BY <1>1, <2>1, <4>1 DEF Registered
      <3>. QED
        BY <3>1, <3>2
    <2>4. StubsFound'
      <3> SUFFICES ASSUME NEW s \in DOMAIN stubs'
                   PROVE  /\ stubs'[s].id \in DOMAIN stubsById'[stubs'[s].connection]
                          /\ stubsById'[stubs'[s].connection][stubs'[s].id] = s
        BY DEF StubsFound
      <3>1. CASE s = Len(stubs) + 1
        BY <2>1, <2>2, <3>1
      <3>2. CASE s \in DOMAIN stubs
        <4> DEFINE d == stubs[s].connection
                   k == stubs[s].id
        <4>1. stubs'[s] = stubs[s]
          BY <2>1, <3>2
        <4>2. d \in Connection /\ k \in DOMAIN stubsById[d] /\ stubsById[d][k] = s
          BY <1>1, <3>2 DEF StubsFound
        <4>3. k \in DOMAIN stubsById'[d] /\ stubsById'[d][k] = stubsById[d][k]
          <5>1. CASE d = c
            <6>1. k # key
              BY <1>3, <4>2, <5>1
            <6>. QED
              BY <2>2, <4>2, <5>1, <6>1
          <5>2. CASE d # c
            BY <2>2, <4>2, <5>2
          <5>. QED
            BY <5>1, <5>2
        <4>. QED
          BY <4>1, <4>2, <4>3
      <3>. QED
        BY <1>1, <2>1, <3>1, <3>2
    <2>5. \A s \in DOMAIN stubs' : s \in DOMAIN stubs \/ stubs'[s].connection = c
      BY <1>1, <2>1
    <2>6. /\ stubsById'[c][key] \in DOMAIN stubs'
          /\ stubs'[stubsById'[c][key]] = new
      BY <1>1, <2>1, <2>2
    <2>. QED
      BY <2>1, <2>3, <2>4, <2>5, <2>6
  <1>. QED
    BY <1>2, <1>3 DEF StubFor

\* getConnection returns a connection to the host it was asked for.
LEMMA GetsHost ==
    ASSUME IInv, Addressed, NEW host \in Host, NEW c \in Connection,
           GetConnection(connections, host, c)
    PROVE  remote'[c] = Resolved(host) /\ Addressed'
  <1>1. /\ remote \in [Connection -> Host \cup {Undefined}]
        /\ host # Undefined
    BY LookupAssumption DEF IInv, TypeOK
  <1>2. CASE Matching(connections, host) # {}
    <2>1. PICK i \in Matching(connections, host) :
             c = connections[i] /\ remote' = remote
      BY <1>2 DEF GetConnection
    <2>2. RemoteAddress(c) = Sought(host)
      BY <2>1 DEF Matching
    <2>3. Sought(host) # Undefined
      BY <1>1, LookupAssumption DEF Sought
    <2>4. remote[c] = Sought(host)
      BY <2>2, <2>3 DEF RemoteAddress
    <2>. QED
      BY <2>1, <2>4 DEF Sought, Resolved, Addressed
  <1>3. CASE Matching(connections, host) = {}
    BY <1>1, <1>3 DEF GetConnection, Sought, Resolved, Addressed
  <1>. QED
    BY <1>2, <1>3

-----------------------------------------------------------------------------
\* A step that creates no stub and moves no lookup to its end.
LEMMA KeepsStubs ==
    ASSUME IInv, StubInv, Next, UNCHANGED <<stubs, stubsById>>
    PROVE  /\ Registered' /\ StubsFound' /\ UsedStubs'
           /\ \A t \in Lookup : pc[t] = "done" /\ pc'[t] = "done" /\ object'[t] = object[t] =>
                  /\ object'[t] \in DOMAIN stubs'
                  /\ stubs'[object'[t]].id = t.key
                  /\ remote'[stubs'[object'[t]].connection] = Resolved(t.target)
  <1>1. \A s \in DOMAIN stubs : stubs[s].connection \in Connection
    BY StubConnections DEF IInv
  <1>2. Registered' /\ StubsFound'
    BY DEF StubInv, Registered, StubsFound
  <1>3. \A s \in DOMAIN stubs : /\ socket'[stubs[s].connection] # "unused"
                                /\ remote'[stubs[s].connection] = remote[stubs[s].connection]
    BY <1>1, StaysUsed DEF StubInv, UsedStubs
  <1>. QED
    BY <1>2, <1>3 DEF StubInv, UsedStubs, RightObject

\* The same for a step that looks for a stub of a connection in use.
LEMMA MakesStub ==
    ASSUME IInv, StubInv, NEW c \in Connection, NEW key \in Key, StubFor(c, key),
           socket[c] # "unused", UNCHANGED <<socket, remote>>
    PROVE  /\ Registered' /\ StubsFound' /\ UsedStubs' /\ Addressed'
           /\ \A t \in Lookup : pc[t] = "done" /\ pc'[t] = "done" /\ object'[t] = object[t] =>
                  /\ object'[t] \in DOMAIN stubs'
                  /\ stubs'[object'[t]].id = t.key
                  /\ remote'[stubs'[object'[t]].connection] = Resolved(t.target)
           /\ stubsById'[c][key] \in DOMAIN stubs'
           /\ stubs'[stubsById'[c][key]] = [id |-> key, connection |-> c]
  <1>1. /\ Registered' /\ StubsFound'
        /\ stubsById'[c][key] \in DOMAIN stubs'
        /\ stubs'[stubsById'[c][key]] = [id |-> key, connection |-> c]
        /\ \A s \in DOMAIN stubs : s \in DOMAIN stubs' /\ stubs'[s] = stubs[s]
        /\ \A s \in DOMAIN stubs' : s \in DOMAIN stubs \/ stubs'[s].connection = c
    BY StubForKeeps DEF IInv, StubInv
  <1>2. UsedStubs'
    BY <1>1 DEF StubInv, UsedStubs
  <1>3. Addressed'
    BY DEF StubInv, Addressed
  <1>. QED
    BY <1>1, <1>2, <1>3 DEF StubInv, RightObject

LEMMA LookupStubs ==
    ASSUME IInv, StubInv, NEW t \in Lookup, LookupStep(t)
    PROVE  StubInv'
  <1>1. /\ pc \in [Lookup -> {"idle", "contacting", "resolving", "unanswered",
                             "locating", "done", "rejected"}]
        /\ via \in [Lookup -> Connection \cup {NoConnection}]
        /\ object \in [Lookup -> Nat]
        /\ t.host \in Host /\ t.target \in Host /\ t.key \in Key /\ NameKey \in Key
    BY LookupAssumption DEF IInv, TypeOK
  <1>2. Next
    BY DEF Next
  <1>3. \A u \in Lookup \ {t} : pc'[u] = pc[u] /\ via'[u] = via[u] /\ object'[u] = object[u]
    BY <1>1 DEF LookupStep, Begin, Resolve, Answer, NotFound, AnswerSwallowed, Return, Reject
  <1>4. \A u \in Lookup : pc[u] = "locating" => remote'[via[u]] = Resolved(u.target)
    BY <1>2, StaysUsed DEF IInv, Awaits, StubInv, Located
  <1>5. CASE Begin(t) \/ Answer(t)
    <2>1. PICK c \in Connection, host \in Host :
             /\ GetConnection(connections, host, c)
             /\ via' = [via EXCEPT ![t] = c]
             /\ pc'[t] = "locating" => host = t.target
             /\ pc'[t] \in {"contacting", "locating"}
      BY <1>1, <1>5 DEF Begin, Answer
    <2>2. remote'[c] = Resolved(host) /\ Addressed'
      BY <2>1, GetsHost DEF StubInv
    <2>3. UNCHANGED <<stubs, stubsById>>
      BY <1>5 DEF Begin, Answer
    <2>4. Located'
      BY <1>1, <1>3, <1>4, <2>1, <2>2 DEF Located
    <2>5. /\ Registered' /\ StubsFound' /\ UsedStubs' /\ RightObject'
      BY <1>2, <1>3, <2>1, <2>3, KeepsStubs DEF RightObject
    <2>. QED
      BY <2>2, <2>4, <2>5 DEF StubInv
  <1>6. CASE NotFound(t) \/ AnswerSwallowed(t) \/ Reject(t)
    <2>1. /\ UNCHANGED <<stubs, stubsById, remote, via, object>>
          /\ pc'[t] \in {"rejected", "unanswered"}
      BY <1>1, <1>6 DEF NotFound, AnswerSwallowed, Reject
    <2>2. Located' /\ Addressed'
      BY <1>3, <1>4, <2>1 DEF StubInv, Located, Addressed
    <2>3. Registered' /\ StubsFound' /\ UsedStubs' /\ RightObject'
      BY <1>2, <1>3, <2>1, KeepsStubs DEF RightObject
    <2>. QED
      BY <2>2, <2>3 DEF StubInv
  <1>7. CASE Resolve(t)
    <2>1. /\ via[t] \in Connection /\ socket[via[t]] # "unused"
          /\ StubFor(via[t], NameKey)
          /\ UNCHANGED <<remote, socket, via, object>>
          /\ pc'[t] = "resolving"
      BY <1>1, <1>7 DEF Resolve, IInv, Awaits
    <2>2. Located'
      BY <1>3, <1>4, <2>1 DEF Located
    <2>3. /\ Registered' /\ StubsFound' /\ UsedStubs' /\ Addressed' /\ RightObject'
      BY <1>1, <1>3, <2>1, MakesStub, Zenon DEF RightObject
    <2>. QED
      BY <2>2, <2>3 DEF StubInv
  <1>8. CASE Return(t)
    <2>1. /\ via[t] \in Connection /\ socket[via[t]] # "unused"
          /\ remote[via[t]] = Resolved(t.target)
          /\ StubFor(via[t], t.key)
          /\ UNCHANGED <<remote, socket, via>>
          /\ pc'[t] = "done"
          /\ object'[t] = stubsById'[via[t]][t.key]
      BY <1>1, <1>8 DEF Return, IInv, Awaits, StubInv, Located
    <2>2. Located'
      BY <1>3, <1>4, <2>1 DEF Located
    <2>3. /\ Registered' /\ StubsFound' /\ UsedStubs' /\ Addressed'
          /\ \A u \in Lookup : pc[u] = "done" /\ pc'[u] = "done" /\ object'[u] = object[u] =>
                 /\ object'[u] \in DOMAIN stubs'
                 /\ stubs'[object'[u]].id = u.key
                 /\ remote'[stubs'[object'[u]].connection] = Resolved(u.target)
          /\ object'[t] \in DOMAIN stubs'
          /\ stubs'[object'[t]] = [id |-> t.key, connection |-> via[t]]
      BY <1>1, <2>1, MakesStub
    <2>4. RightObject'
      BY <1>3, <2>1, <2>3 DEF RightObject
    <2>. QED
      BY <2>2, <2>3, <2>4 DEF StubInv
  <1>. QED
    BY <1>5, <1>6, <1>7, <1>8 DEF LookupStep

LEMMA SocketStubs ==
    ASSUME IInv, StubInv, NEW c \in Connection, SocketEvent(c)
    PROVE  StubInv'
  <1>1. Next
    BY DEF Next
  <1>2. UNCHANGED <<pc, via, object>>
    BY DEF SocketEvent, Connected, ConnectFails, Accept, PeerEnds, SocketClosed,
           ReceiveReference
  <1>3. Located'
    BY <1>1, <1>2, StaysUsed DEF IInv, Awaits, StubInv, Located
  <1>4. CASE UNCHANGED <<stubs, stubsById>>
    <2>1. Registered' /\ StubsFound' /\ UsedStubs' /\ RightObject'
      BY <1>1, <1>2, <1>4, KeepsStubs DEF RightObject
    <2>2. Addressed'
      <3>1. ASSUME NEW host \in Host, Accept(c, host)
            PROVE  Addressed'
        BY <3>1 DEF Accept, Resolved, StubInv, Addressed, IInv, TypeOK
      <3>2. CASE UNCHANGED remote
        BY <3>2 DEF StubInv, Addressed
      <3>. QED
        BY <3>1, <3>2
        DEF SocketEvent, Connected, ConnectFails, PeerEnds, SocketClosed,
            ReceiveReference
    <2>. QED
      BY <1>3, <2>1, <2>2 DEF StubInv
  <1>5. ASSUME NEW key \in Key, ReceiveReference(c, key)
        PROVE  StubInv'
    <2>1. /\ StubFor(c, key) /\ socket[c] # "unused"
          /\ UNCHANGED <<remote, socket>>
      BY <1>5 DEF ReceiveReference
    <2>2. Registered' /\ StubsFound' /\ UsedStubs' /\ Addressed' /\ RightObject'
      BY <1>2, <2>1, MakesStub, Zenon DEF RightObject
    <2>. QED
      BY <1>3, <2>2 DEF StubInv
  <1>. QED
    BY <1>4, <1>5
    DEF SocketEvent, Connected, ConnectFails, Accept, PeerEnds, SocketClosed

LEMMA ShutdownStubs ==
    ASSUME IInv, StubInv, Shutdown \/ ShutdownThrows
    PROVE  StubInv'
  <1>1. Next
    BY DEF Next
  <1>2. UNCHANGED <<pc, via, object, stubs, stubsById, remote>>
    BY DEF Shutdown, ShutdownThrows
  <1>3. Located' /\ Addressed'
    BY <1>2 DEF StubInv, Located, Addressed
  <1>4. Registered' /\ StubsFound' /\ UsedStubs' /\ RightObject'
    BY <1>1, <1>2, KeepsStubs DEF RightObject
  <1>. QED
    BY <1>3, <1>4 DEF StubInv

LEMMA StubStep ==
    ASSUME Replaces = FALSE, IInv, StubInv, NoReplacement, [Next]_vars
    PROVE  StubInv' /\ NoReplacement'
  <1>1. NoReplacement' /\ (Replacement => UNCHANGED vars)
    BY NoReplacementStep, Zenon
  <1>2. CASE UNCHANGED vars
    <2>1. UNCHANGED <<remote, socket, stubs, stubsById, pc, via, object>>
      BY <1>2 DEF vars
    <2>2. Registered' /\ StubsFound'
      BY <2>1 DEF StubInv, Registered, StubsFound
    <2>3. Addressed' /\ UsedStubs' /\ Located'
      BY <2>1 DEF StubInv, Addressed, UsedStubs, Located
    <2>4. RightObject'
      BY <2>1 DEF StubInv, RightObject
    <2>. QED
      BY <1>1, <2>2, <2>3, <2>4 DEF StubInv
  <1>. QED
    BY <1>1, <1>2, LookupStubs, SocketStubs, ShutdownStubs DEF Next

(***************************************************************************)
(* An object has one stub on a connection, however lookups and references  *)
(* received interleave (orb.ts, stringToObject, iorToObject; giop.ts,      *)
(* object).                                                                *)
(***************************************************************************)
THEOREM OneStubPerObject ==
    ASSUME Replaces = FALSE
    PROVE  Spec => []StubsFound
  <1>1. Init => StubInv /\ NoReplacement
    BY InitStubs
  <1>2. IInv /\ StubInv /\ NoReplacement /\ [Next]_vars => (StubInv /\ NoReplacement)'
    BY StubStep, Zenon
  <1>3. StubInv => StubsFound
    BY DEF StubInv
  <1>. QED
    BY <1>1, <1>2, <1>3, ConnectionsInvariant, PTL DEF Spec

(***************************************************************************)
(* A lookup returns the stub of the object it asked for, on a connection   *)
(* to the host that has it (orb.ts, getConnection, stringToObject).        *)
(***************************************************************************)
THEOREM LookupsFindTheirObject ==
    ASSUME Replaces = FALSE
    PROVE  Spec => []RightObject
  <1>1. Init => StubInv /\ NoReplacement
    BY InitStubs
  <1>2. IInv /\ StubInv /\ NoReplacement /\ [Next]_vars => (StubInv /\ NoReplacement)'
    BY StubStep, Zenon
  <1>3. StubInv => RightObject
    BY DEF StubInv
  <1>. QED
    BY <1>1, <1>2, <1>3, ConnectionsInvariant, PTL DEF Spec
=============================================================================
