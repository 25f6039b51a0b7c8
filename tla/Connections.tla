---------------------------- MODULE Connections ----------------------------
(***************************************************************************)
(* The connections of one ORB, and how objects are looked up over them:    *)
(* getConnection, iorToObject and stringToObject, references received from *)
(* a peer, shutdown, replaceAllConnections and the events of the sockets   *)
(* of the Node transports.                                                 *)
(*                                                                         *)
(* A lookup awaits up to three times: for the connection to the name       *)
(* service, for its answer, and for the connection to the object.  What it *)
(* does in between is one action; anything may happen while it waits.      *)
(***************************************************************************)
EXTENDS Integers, Sequences, SequencesExt

CONSTANTS
    Connection,   \* the Connection objects there may ever be
    NoConnection,
    Host,         \* what may be written as a host: names and addresses
    Undefined,    \* the address of a socket that has been destroyed
    Key,          \* object keys: sequences of bytes
    NameKey,      \* the key of the root naming context
    Lookup,       \* the objects the application looks up, see LookupAssumption
    Protocols,    \* sequence of BOOLEAN: has the protocol a server socket?
    Replaces      \* whether the application ever calls replaceAllConnections

(***************************************************************************)
(* A lookup is a corbaname (via "name"): the name service at host knows an *)
(* object at target; or an IOR (via "ior"), which holds target itself.     *)
(***************************************************************************)
ASSUME LookupAssumption ==
    /\ NoConnection \notin Connection
    /\ Undefined \notin Host \cup {"localhost", "::1"}
    /\ "localhost" \in Host => "::1" \in Host
    /\ Key \subseteq Seq(0 .. 255)
    /\ NameKey \in Key
    /\ \A t \in Lookup : /\ t.via \in {"name", "ior"}
                         /\ t.host \in Host
                         /\ t.target \in Host
                         /\ t.key \in Key
    /\ Protocols \in Seq(BOOLEAN) \ {<<>>}
    /\ Replaces \in BOOLEAN

(***************************************************************************)
(* Definitions named Bad... are mutated forms of the definition that       *)
(* follows them: slips the properties are expected to notice.  No run uses *)
(* them.                                                                   *)
(***************************************************************************)

VARIABLES
    connections,   \* ORB.connections
    remote,        \* the address a connection leads to
    socket,        \* the state of a connection's socket, see SocketState
    stubs,         \* the stubs created so far: [id, connection]
    stubsById,     \* Connection.stubsById: key -> index of stubs
    serverSocket,  \* Protocol.serverSocket of each protocol: is it there?
    pc,            \* where a lookup is
    via,           \* the connection a lookup is waiting for
    object,        \* the stub a lookup has returned
    replacePc,     \* where replaceAllConnections is
    replacing,     \* the connections it has not replaced yet
    replacement    \* the connection it is waiting for

replaceVars == <<replacePc, replacing, replacement>>
vars == <<connections, remote, socket, stubs, stubsById, serverSocket,
          pc, via, object, replaceVars>>

(***************************************************************************)
(*   unused      not created                                               *)
(*   connecting  between connect and its event                             *)
(*   failed      could not connect                                         *)
(*   open                                                                  *)
(*   ending      the peer has closed its side                              *)
(*   destroyed   closed by this ORB, "close" still to come                 *)
(*   closed      "close" has been dispatched                               *)
(***************************************************************************)
SocketState == {"unused", "connecting", "failed", "open", "ending", "destroyed",
                "closed"}

Init ==
    /\ connections = <<>>
    /\ remote = [c \in Connection |-> Undefined]
    /\ socket = [c \in Connection |-> "unused"]
    /\ stubs = <<>>
    /\ stubsById = [c \in Connection |-> [k \in {} |-> 0]]
    /\ serverSocket = Protocols
    /\ pc = [t \in Lookup |-> "idle"]
    /\ via = [t \in Lookup |-> NoConnection]
    /\ object = [t \in Lookup |-> 0]
    /\ replacing = <<>>
    /\ replacePc = "idle"
    /\ replacement = NoConnection

-----------------------------------------------------------------------------
(***************************************************************************)
(* The list of connections.                                                *)
(***************************************************************************)
Listed(c) == \E i \in DOMAIN connections : connections[i] = c

\* removeConnection takes the first occurrence out, if there is one.
Without(c) == RemoveFirst(connections, c)

\* The address a socket reports: that of the peer, once resolved, and none any
\* more when it has been destroyed.
RemoteAddress(c) ==
    IF socket[c] \in {"open", "ending"} THEN remote[c] ELSE Undefined

\* The local host's name resolves to its IPv6 address.
Resolved(host) == IF host = "localhost" THEN "::1" ELSE host

\* getConnection's own idea of host names.
Sought(host) == IF host = "::1" THEN "localhost" ELSE host

\* Any connection will do.
BadMatching(list, host) == DOMAIN list

Matching(list, host) ==
    {i \in DOMAIN list : RemoteAddress(list[i]) = Sought(host)}

(***************************************************************************)
(* getConnection(host), up to its await, is about to return c: the first   *)
(* connection in the list that leads there, or a new one.                  *)
(***************************************************************************)
GetConnection(list, host, c) ==
    IF Matching(list, host) # {}
    THEN /\ \E i \in Matching(list, host) : /\ \A j \in Matching(list, host) : i <= j
                                            /\ c = list[i]
         /\ UNCHANGED <<remote, socket>>
    ELSE /\ socket[c] = "unused"
         /\ remote' = [remote EXCEPT ![c] = Resolved(Sought(host))]
         /\ socket' = [socket EXCEPT ![c] =
                IF host = Undefined THEN "failed" ELSE "connecting"]

\* The await is over.
Obtained(c) == socket[c] \notin {"connecting", "failed"}

-----------------------------------------------------------------------------
(***************************************************************************)
(* Stubs.                                                                  *)
(***************************************************************************)
\* Off by one.
BadMapSet(map, key, value) ==
    [k \in DOMAIN map \cup {key} |-> IF k = key THEN value + 1 ELSE map[k]]

MapSet(map, key, value) ==
    [k \in DOMAIN map \cup {key} |-> IF k = key THEN value ELSE map[k]]

\* Another stub for every lookup.
BadStubFor(c, key) ==
    /\ stubs' = Append(stubs, [id |-> key, connection |-> c])
    /\ stubsById' = [stubsById EXCEPT ![c] = MapSet(@, key, Len(stubs'))]

\* The stub of c with that key is found, or created and registered.
StubFor(c, key) ==
    IF key \in DOMAIN stubsById[c]
    THEN UNCHANGED <<stubs, stubsById>>
    ELSE /\ stubs' = Append(stubs, [id |-> key, connection |-> c])
         /\ stubsById' = [stubsById EXCEPT ![c] = MapSet(@, key, Len(stubs'))]

-----------------------------------------------------------------------------
(***************************************************************************)
(* Looking up an object.                                                   *)
(***************************************************************************)
Begin(t) ==
    /\ pc[t] = "idle"
    /\ \E c \in Connection :
           /\ GetConnection(connections, IF t.via = "name" THEN t.host ELSE t.target, c)
           /\ via' = [via EXCEPT ![t] = c]
    /\ pc' = [pc EXCEPT ![t] = IF t.via = "name" THEN "contacting" ELSE "locating"]
    /\ UNCHANGED <<connections, stubs, stubsById, serverSocket, object, replaceVars>>

\* The name service's stub is at hand: the name is sent to it.
Resolve(t) ==
    /\ pc[t] = "contacting"
    /\ Obtained(via[t])
    /\ StubFor(via[t], NameKey)
    /\ pc' = [pc EXCEPT ![t] = "resolving"]
    /\ UNCHANGED <<connections, remote, socket, serverSocket, via, object, replaceVars>>

\* The name service answers with a reference.
Answer(t) ==
    /\ pc[t] = "resolving"
    /\ socket[via[t]] = "open"
    /\ \E c \in Connection : /\ GetConnection(connections, t.target, c)
                             /\ via' = [via EXCEPT ![t] = c]
    /\ pc' = [pc EXCEPT ![t] = "locating"]
    /\ UNCHANGED <<connections, stubs, stubsById, serverSocket, object, replaceVars>>

\* The name is not bound.
NotFound(t) ==
    /\ pc[t] = "resolving"
    /\ socket[via[t]] = "open"
    /\ pc' = [pc EXCEPT ![t] = "rejected"]
    /\ UNCHANGED <<connections, remote, socket, stubs, stubsById, serverSocket,
                   via, object, replaceVars>>

\* The request or its answer shares a data event with another message and is
\* swallowed (socketRcvd decodes one message of each): nobody will answer.
AnswerSwallowed(t) ==
    /\ pc[t] = "resolving"
    /\ socket[via[t]] = "open"
    /\ pc' = [pc EXCEPT ![t] = "unanswered"]
    /\ UNCHANGED <<connections, remote, socket, stubs, stubsById, serverSocket,
                   via, object, replaceVars>>

Return(t) ==
    /\ pc[t] = "locating"
    /\ Obtained(via[t])
    /\ StubFor(via[t], t.key)
    /\ object' = [object EXCEPT ![t] = stubsById'[via[t]][t.key]]
    /\ pc' = [pc EXCEPT ![t] = "done"]
    /\ UNCHANGED <<connections, remote, socket, serverSocket, via, replaceVars>>

\* Nobody hears that connect has failed.
BadReject(t) ==
    /\ pc[t] = "locating" /\ Obtained(via[t])
    /\ t.key \notin DOMAIN stubsById[via[t]]
    /\ pc' = [pc EXCEPT ![t] = "rejected"]
    /\ UNCHANGED <<connections, remote, socket, stubs, stubsById, serverSocket,
                   via, object, replaceVars>>

\* connect has failed, or there is no stub class for the object.
Reject(t) ==
    /\ \/ pc[t] \in {"contacting", "locating"} /\ socket[via[t]] = "failed"
       \/ /\ pc[t] = "locating" /\ Obtained(via[t])
          /\ t.key \notin DOMAIN stubsById[via[t]]
    /\ pc' = [pc EXCEPT ![t] = "rejected"]
    /\ UNCHANGED <<connections, remote, socket, stubs, stubsById, serverSocket,
                   via, object, replaceVars>>

\* A reference arrives in a message and becomes a stub of its connection.
ReceiveReference(c, key) ==
    /\ socket[c] = "open"
    /\ key \notin DOMAIN stubsById[c]
    /\ StubFor(c, key)
    /\ UNCHANGED <<connections, remote, socket, serverSocket, pc, via, object,
                   replaceVars>>

-----------------------------------------------------------------------------
(***************************************************************************)
(* Events of the sockets.                                                  *)
(***************************************************************************)
Connected(c) ==
    /\ socket[c] = "connecting"
    /\ socket' = [socket EXCEPT ![c] = "open"]
    /\ connections' = Append(connections, c)
    /\ UNCHANGED <<remote, stubs, stubsById, serverSocket, pc, via, object, replaceVars>>

ConnectFails(c) ==
    /\ socket[c] = "connecting"
    /\ socket' = [socket EXCEPT ![c] = "failed"]
    /\ UNCHANGED <<connections, remote, stubs, stubsById, serverSocket, pc, via,
                   object, replaceVars>>

\* A peer connects to one of the server sockets.
Accept(c, host) ==
    /\ \E p \in DOMAIN serverSocket : serverSocket[p]
    /\ socket[c] = "unused"
    /\ socket' = [socket EXCEPT ![c] = "open"]
    /\ remote' = [remote EXCEPT ![c] = Resolved(host)]
    /\ connections' = Append(connections, c)
    /\ UNCHANGED <<stubs, stubsById, serverSocket, pc, via, object, replaceVars>>

PeerEnds(c) ==
    /\ socket[c] = "open"
    /\ socket' = [socket EXCEPT ![c] = "ending"]
    /\ UNCHANGED <<connections, remote, stubs, stubsById, serverSocket, pc, via,
                   object, replaceVars>>

\* The last connection goes, whichever was closed.
BadSocketClosed(c) ==
    /\ socket[c] \in {"ending", "destroyed"}
    /\ socket' = [socket EXCEPT ![c] = "closed"]
    /\ connections' = IF connections = <<>> THEN <<>> ELSE Front(connections)
    /\ UNCHANGED <<remote, stubs, stubsById, serverSocket, pc, via, object, replaceVars>>

SocketClosed(c) ==
    /\ socket[c] \in {"ending", "destroyed"}
    /\ socket' = [socket EXCEPT ![c] = "closed"]
    /\ connections' = Without(c)
    /\ UNCHANGED <<remote, stubs, stubsById, serverSocket, pc, via, object, replaceVars>>

-----------------------------------------------------------------------------
Destroyed(S) ==
    [c \in Connection |-> IF c \in S /\ socket[c] \in {"open", "ending"}
                          THEN "destroyed" ELSE socket[c]]

(***************************************************************************)
(* shutdown closes the protocols in turn; the first that has no server     *)
(* socket throws, and nothing else is closed.                              *)
(***************************************************************************)
Shutdown ==
    /\ \A p \in DOMAIN serverSocket : serverSocket[p]
    /\ serverSocket' = [p \in DOMAIN serverSocket |-> FALSE]
    /\ socket' = Destroyed({c \in Connection : Listed(c)})
    /\ connections' = <<>>
    /\ UNCHANGED <<remote, stubs, stubsById, pc, via, object, replaceVars>>

ShutdownThrows ==
    \E p \in DOMAIN serverSocket :
        /\ ~serverSocket[p]
        /\ \A q \in 1 .. p - 1 : serverSocket[q]
        /\ serverSocket' = [q \in DOMAIN serverSocket |->
                               q > p /\ serverSocket[q]]
        /\ UNCHANGED <<connections, remote, socket, stubs, stubsById, pc, via,
                       object, replaceVars>>

-----------------------------------------------------------------------------
(***************************************************************************)
(* replaceAllConnections.                                                  *)
(***************************************************************************)
ReplaceAllConnections ==
    /\ Replaces
    /\ replacePc = "idle"
    /\ replacing' = connections
    /\ replacePc' = "next"
    /\ UNCHANGED <<connections, remote, socket, stubs, stubsById, serverSocket,
                   pc, via, object, replacement>>

ReplaceNext ==
    /\ replacePc = "next"
    /\ replacing # <<>>
    /\ connections' = Without(Head(replacing))
    /\ \E c \in Connection :
           /\ GetConnection(connections', RemoteAddress(Head(replacing)), c)
           /\ replacement' = c
    /\ replacePc' = "waiting"
    /\ UNCHANGED <<stubs, stubsById, serverSocket, pc, via, object, replacing>>

\* What Uint8Map.forEach hands out as the key: every byte after the first is
\* moved to twice its place.
Unhex(key) == [i \in 1 .. (IF key = <<>> THEN 0 ELSE 2 * Len(key) - 1) |->
                  IF i % 2 = 1 THEN key[(i + 1) \div 2] ELSE 0]

\* The stubs move to the new connection, under the keys forEach hands out.
ReplaceMove ==
    LET old == Head(replacing)
        new == replacement
        moved == stubsById[old]
        keys == {Unhex(k) : k \in DOMAIN moved} IN
    /\ replacePc = "waiting"
    /\ Obtained(new)
    /\ socket' = Destroyed({old})
    /\ stubs' = [s \in DOMAIN stubs |->
                    IF \E k \in DOMAIN moved : moved[k] = s
                    THEN [stubs[s] EXCEPT !.connection = new] ELSE stubs[s]]
    /\ stubsById' = [stubsById EXCEPT
           ![new] = [k \in DOMAIN @ \cup keys |->
                        IF k \in keys
                        THEN moved[CHOOSE j \in DOMAIN moved : Unhex(j) = k]
                        ELSE @[k]],
           ![old] = [k \in {} |-> 0]]
    /\ replacing' = Tail(replacing)
    /\ replacePc' = "next"
    /\ UNCHANGED <<connections, remote, serverSocket, pc, via, object, replacement>>

ReplaceDone ==
    /\ replacePc = "next"
    /\ replacing = <<>>
    /\ replacePc' = "idle"
    /\ UNCHANGED <<connections, remote, socket, stubs, stubsById, serverSocket,
                   pc, via, object, replacing, replacement>>

\* No new connection: the old one stays open, but is not listed any more.
ReplaceFails ==
    /\ replacePc = "waiting"
    /\ socket[replacement] = "failed"
    /\ replacePc' = "rejected"
    /\ UNCHANGED <<connections, remote, socket, stubs, stubsById, serverSocket,
                   pc, via, object, replacing, replacement>>

-----------------------------------------------------------------------------
SocketEvent(c) ==
    \/ Connected(c)
    \/ ConnectFails(c)
    \/ \E host \in Host : Accept(c, host)
    \/ PeerEnds(c)
    \/ SocketClosed(c)
    \/ \E key \in Key \ {NameKey} : ReceiveReference(c, key)

LookupStep(t) ==
    \/ Begin(t)
    \/ Resolve(t)
    \/ Answer(t)
    \/ NotFound(t)
    \/ AnswerSwallowed(t)
    \/ Return(t)
    \/ Reject(t)

Replacement ==
    \/ ReplaceAllConnections
    \/ ReplaceNext
    \/ ReplaceMove
    \/ ReplaceDone
    \/ ReplaceFails

Next ==
    \/ \E c \in Connection : SocketEvent(c)
    \/ \E t \in Lookup : LookupStep(t)
    \/ Shutdown
    \/ ShutdownThrows
    \/ Replacement

Spec == Init /\ [][Next]_vars

(***************************************************************************)
(* Connecting ends one way or the other, a name service whose connection   *)
(* stays open answers or its answer is swallowed, and the event loop runs  *)
(* what has been awaited.                                                  *)
(***************************************************************************)
FairSpec ==
    /\ Spec
    /\ \A c \in Connection : WF_vars(Connected(c) \/ ConnectFails(c))
    /\ \A t \in Lookup : /\ WF_vars(Resolve(t))
                         /\ WF_vars(Answer(t) \/ NotFound(t) \/ AnswerSwallowed(t))
                         /\ WF_vars(Return(t) \/ Reject(t))

-----------------------------------------------------------------------------
(***************************************************************************)
(* Properties.                                                             *)
(***************************************************************************)
TypeOK ==
    /\ connections \in Seq(Connection)
    /\ remote \in [Connection -> Host \cup {Undefined}]
    /\ socket \in [Connection -> SocketState]
    /\ stubs \in Seq([id : Key, connection : Connection])
    /\ DOMAIN stubsById = Connection
    /\ \A c \in Connection : \A k \in DOMAIN stubsById[c] :
           k \in Seq(0 .. 255) /\ stubsById[c][k] \in DOMAIN stubs
    /\ serverSocket \in Seq(BOOLEAN)
    /\ pc \in [Lookup -> {"idle", "contacting", "resolving", "unanswered",
                         "locating", "done", "rejected"}]
    /\ via \in [Lookup -> Connection \cup {NoConnection}]
    /\ object \in [Lookup -> Nat]
    /\ replacePc \in {"idle", "next", "waiting", "rejected"}
    /\ replacing \in Seq(Connection)
    /\ replacement \in Connection \cup {NoConnection}

(***************************************************************************)
(* The ORB lists exactly the connections it could still use: each once,    *)
(* none whose close has been dispatched, and none that is open is missing  *)
(* (a leak), but for the one replaceAllConnections is about to replace or  *)
(* has failed to replace (orb.ts, addConnection, removeConnection,         *)
(* socketClosed, shutdown).                                                *)
(***************************************************************************)
ListAgrees ==
    /\ \A i, j \in DOMAIN connections : connections[i] = connections[j] => i = j
    /\ \A i \in DOMAIN connections : socket[connections[i]] \in {"open", "ending"}
    /\ \A c \in Connection : socket[c] \in {"open", "ending"} =>
           \/ Listed(c)
           \/ replacePc \in {"waiting", "rejected"} /\ c = Head(replacing)

(***************************************************************************)
(* One object has one stub on a connection: every stub there is is found   *)
(* again by its key on its connection, however the lookups that share it   *)
(* interleave (orb.ts, stringToObject and iorToObject; giop.ts, object).   *)
(***************************************************************************)
StubsFound ==
    \A s \in DOMAIN stubs :
        /\ stubs[s].id \in DOMAIN stubsById[stubs[s].connection]
        /\ stubsById[stubs[s].connection][stubs[s].id] = s

(***************************************************************************)
(* A lookup returns the stub of the object it asked for, on a connection   *)
(* to the peer that has it (orb.ts, getConnection, stringToObject).        *)
(***************************************************************************)
RightObject ==
    \A t \in Lookup : pc[t] = "done" =>
        /\ object[t] \in DOMAIN stubs
        /\ stubs[object[t]].id = t.key
        /\ remote[stubs[object[t]].connection] = Resolved(t.target)

(***************************************************************************)
(* A lookup comes to an end, whatever becomes of the connections it awaits *)
(* or finds in the list, but for the time it waits for the name service:   *)
(* when the connection to that is lost nobody tells it, nor when the       *)
(* answer is swallowed (orb.ts, getConnection, stringToObject; 488).       *)
(***************************************************************************)
LookupEnds ==
    \A t \in Lookup :
        pc[t] \in {"contacting", "resolving", "locating"} ~>
            \/ pc[t] \in {"done", "rejected", "unanswered"}
            \/ /\ pc[t] = "resolving"
               /\ socket[via[t]] \in {"ending", "destroyed", "closed"}

(***************************************************************************)
(* tcp.ts:39 says of several connections to the same peer that they are    *)
(* not supported.  The code opens them: two lookups may both find none,    *)
(* and the name the first asked for is not the address the socket reports. *)
(***************************************************************************)
OneConnectionPerPeer ==
    \A c, d \in Connection :
        /\ RemoteAddress(c) # Undefined
        /\ RemoteAddress(c) = RemoteAddress(d)
        => c = d

(***************************************************************************)
(* tcp.ts:83 calls it an internal error to close a protocol without a      *)
(* server socket.  shutdown does it for every protocol that only connects. *)
(***************************************************************************)
NoInternalError == [][~ShutdownThrows]_vars

(***************************************************************************)
(* orb.ts:311 says that replaceAllConnections works for outgoing           *)
(* connections, so that the stubs are still found afterwards.  They are    *)
(* not: the keys under which they are moved are not theirs.                *)
(***************************************************************************)
StubsStayFound == replacePc = "idle" => StubsFound
=============================================================================
