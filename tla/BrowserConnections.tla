------------------------ MODULE BrowserConnections ------------------------
(***************************************************************************)
(* The connections of an ORB in a browser: WsProtocol and WsConnection of  *)
(* browser.ts, what the ORB does when a socket fails or closes, and the    *)
(* two ways to hear of it, exception handlers of a stub and listeners of   *)
(* the ORB.                                                                *)
(*                                                                         *)
(* Handlers run inside the event that lost the connection.  While one      *)
(* runs, only what handlers do may happen.                                 *)
(***************************************************************************)
EXTENDS Integers, Sequences, SequencesExt, FiniteSets

CONSTANTS
    Connection,
    Stub,          \* the stubs: a connection with the key of an object
    Listener,
    MaxInstalls    \* bound: handlers ever installed

ASSUME BrowserAssumption ==
    /\ \A s \in Stub : s[1] \in Connection
    /\ MaxInstalls \in Nat

\* What a handler does before it returns: nothing, install another one, release
\* a stub, or throw.
Behaviour == {"plain", "installs", "releases", "throws"}

VARIABLES
    socket,        \* WebSocket of each connection
    connections,   \* ORB.connections
    stubs,         \* stubsById of the connections, in the order of their entry
    handlers,      \* ORB.exceptionHandler: for each stub a list of handlers
    listeners,     \* ORB.listeners for each type of event
    running,       \* connectionClose() in progress: stubs and handlers still to come
    called,        \* history: ids of handlers called, in order
    installs,      \* history: installations so far, each an id
    old,           \* history: ids installed before their connection failed
    untold,        \* history: ids installed before the other side closed theirs
    gone,          \* history: ids whose stub was released before they were taken
                   \* out, or that a throw has cost
    late,          \* history: ids whose stub was released after they were taken out
    told,          \* history: connections whose loss a listener was told
    lost           \* history: connections closed by the other side or by failure

networkVars == <<socket, connections, stubs>>
handlerVars == <<handlers, running, called, installs, old, untold, gone, late>>
listenerVars == <<listeners, told>>
vars == <<networkVars, handlerVars, listenerVars, lost>>

Idle == [stubs |-> <<>>, handlers |-> <<>>]

Ids(list) == {list[i].id : i \in DOMAIN list}

Init ==
    /\ socket = [c \in Connection |-> "none"]
    /\ connections = {}
    /\ stubs = [c \in Connection |-> <<>>]
    /\ handlers = [s \in Stub |-> <<>>]
    /\ listeners = [type \in {"close", "closed"} |-> {}]
    /\ running = Idle
    /\ called = <<>> /\ installs = 0
    /\ old = {} /\ untold = {} /\ gone = {} /\ late = {}
    /\ told = {} /\ lost = {}
-----------------------------------------------------------------------------
(***************************************************************************)
(* The socket.                                                             *)
(***************************************************************************)
Connect(c) ==
    /\ running = Idle
    /\ socket[c] = "none"
    /\ socket' = [socket EXCEPT ![c] = "connecting"]
    /\ UNCHANGED <<connections, stubs, handlerVars, listenerVars, lost>>

\* onopen, and in the same turn of the event loop addConnection().
Opened(c) ==
    /\ running = Idle
    /\ socket[c] = "connecting"
    /\ socket' = [socket EXCEPT ![c] = "open"]
    /\ connections' = connections \cup {c}
    /\ UNCHANGED <<stubs, handlerVars, listenerVars, lost>>

\* The promise is rejected; no other handler of the socket is set.
ConnectFails(c) ==
    /\ running = Idle
    /\ socket[c] = "connecting"
    /\ socket' = [socket EXCEPT ![c] = "failed"]
    /\ UNCHANGED <<connections, stubs, handlerVars, listenerVars, lost>>

\* A lookup or a message brings a reference.
ReceiveStub(s) ==
    /\ running = Idle
    /\ socket[s[1]] = "open"
    /\ ~Contains(stubs[s[1]], s)
    /\ stubs' = [stubs EXCEPT ![s[1]] = Append(@, s)]
    /\ UNCHANGED <<socket, connections, handlerVars, listenerVars, lost>>

\* The calls of connectionClose() that are still to be made, and which of the
\* handlers were there before.
BadConnectionClose(c) ==        \* stops at the first stub without handlers
    LET n == CHOOSE n \in 0..Len(stubs[c]) :
                 /\ \A i \in 1..n : handlers[stubs[c][i]] # <<>>
                 /\ n = Len(stubs[c]) \/ handlers[stubs[c][n + 1]] = <<>>
    IN  [stubs |-> SubSeq(stubs[c], 1, n), handlers |-> <<>>]
ConnectionClose(c) == [stubs |-> stubs[c], handlers |-> <<>>]

HandlersOf(c) == UNION {Ids(handlers[s]) : s \in Range(stubs[c])}

\* The event of WebSocket that precedes the one of its closing.
OnError(c) ==
    /\ running = Idle
    /\ socket[c] = "open"
    /\ socket' = [socket EXCEPT ![c] = "closing"]
    /\ running' = ConnectionClose(c)
    /\ old' = old \cup HandlersOf(c)
    /\ lost' = lost \cup {c}
    /\ UNCHANGED <<connections, stubs, handlers, called, installs, untold, gone, late,
                   listenerVars>>

DispatchEvent(type, c) ==
    told' = IF listeners[type] # {} THEN told \cup (listeners[type] \X {c}) ELSE told

BadSocketClosed(c) ==           \* leaves a connection that failed in the list
    /\ DispatchEvent("closed", c)
    /\ connections' = IF c \in lost THEN connections ELSE connections \ {c}
SocketClosed(c) ==
    /\ DispatchEvent("closed", c)
    /\ connections' = connections \ {c}

\* The socket has closed: after an error, by the other side, or by the ORB.
OnClose(c) ==
    /\ running = Idle
    /\ socket[c] \in {"open", "closing", "shut"}
    /\ socket' = [socket EXCEPT ![c] = "closed"]
    /\ SocketClosed(c)
    /\ lost' = IF socket[c] = "shut" THEN lost ELSE lost \cup {c}
    /\ untold' = IF socket[c] = "open" THEN untold \cup HandlersOf(c) ELSE untold
    /\ UNCHANGED <<stubs, handlers, running, called, installs, old, gone, late, listeners>>

Shutdown ==
    /\ running = Idle
    /\ connections # {}
    /\ socket' = [c \in Connection |->
           IF c \in connections /\ socket[c] = "open" THEN "shut" ELSE socket[c]]
    /\ connections' = {}
    /\ UNCHANGED <<stubs, handlerVars, listenerVars, lost>>
-----------------------------------------------------------------------------
(***************************************************************************)
(* Exception handlers.                                                     *)
(***************************************************************************)
Installed(hs, s, behaviour) ==
    [hs EXCEPT ![s] = Append(@, [id |-> installs + 1, of |-> s, does |-> behaviour])]

InstallSystemExceptionHandler(s, behaviour) ==
    /\ running = Idle
    /\ Contains(stubs[s[1]], s)
    /\ installs < MaxInstalls
    /\ handlers' = Installed(handlers, s, behaviour)
    /\ installs' = installs + 1
    /\ UNCHANGED <<networkVars, running, called, old, untold, gone, late, listenerVars,
                   lost>>

BadReleaseObject(hs, s) == hs     \* leaves the handlers of the object
ReleaseObject(hs, s) == [hs EXCEPT ![s] = <<>>]

Release(s) ==
    /\ running = Idle
    /\ handlers[s] # <<>>
    /\ handlers' = ReleaseObject(handlers, s)
    /\ gone' = gone \cup Ids(handlers[s])
    /\ UNCHANGED <<networkVars, running, called, installs, old, untold, late,
                   listenerVars, lost>>

\* The list of the next stub is taken out of the map before it is gone through.
TakeHandlers(s) == [handlers EXCEPT ![s] = <<>>]

NextStub ==
    /\ running.handlers = <<>> /\ running.stubs # <<>>
    /\ LET s == Head(running.stubs)
       IN  /\ running' = [stubs |-> Tail(running.stubs), handlers |-> handlers[s]]
           /\ handlers' = TakeHandlers(s)
    /\ UNCHANGED <<networkVars, called, installs, old, untold, gone, late,
                   listenerVars, lost>>

\* The handlers of a stub that have been taken out and not been called yet.
TakenOut(r, s) ==
    {r.handlers[i].id : i \in {j \in DOMAIN r.handlers : r.handlers[j].of = s}}

\* The handler of a stub is called.
CallHandler ==
    /\ running.handlers # <<>>
    /\ LET h == Head(running.handlers)
           rest == [running EXCEPT !.handlers = Tail(@)]
       IN  /\ called' = Append(called, h.id)
           /\ \/ /\ h.does = "plain"
                 /\ running' = rest
                 /\ UNCHANGED <<handlers, installs, gone, late>>
              \/ /\ h.does = "installs" /\ installs < MaxInstalls
                 /\ \E s \in Stub : handlers' = Installed(handlers, s, "plain")
                 /\ installs' = installs + 1
                 /\ running' = rest
                 /\ UNCHANGED <<gone, late>>
              \/ /\ h.does = "installs" /\ installs = MaxInstalls
                 /\ running' = rest
                 /\ UNCHANGED <<handlers, installs, gone, late>>
              \/ /\ h.does = "releases"
                 /\ \E s \in Stub : /\ handlers' = ReleaseObject(handlers, s)
                                    /\ gone' = gone \cup Ids(handlers[s])
                                    /\ late' = late \cup TakenOut(rest, s)
                 /\ running' = rest
                 /\ UNCHANGED installs
              \/ /\ h.does = "throws"
                 /\ gone' = gone \cup Ids(rest.handlers)
                                 \cup UNION {Ids(handlers[s]) : s \in Range(rest.stubs)}
                 /\ running' = Idle
                 /\ UNCHANGED <<handlers, installs, late>>
    /\ UNCHANGED <<networkVars, old, untold, listenerVars, lost>>
-----------------------------------------------------------------------------
(***************************************************************************)
(* Listeners of the ORB; the only type that may be registered is "close".  *)
(***************************************************************************)
AddEventListener(l) ==
    /\ running = Idle
    /\ listeners' = [listeners EXCEPT !["close"] = @ \cup {l}]
    /\ UNCHANGED <<networkVars, handlerVars, told, lost>>

RemoveEventListener(l) ==
    /\ running = Idle
    /\ l \in listeners["close"]
    /\ listeners' = [listeners EXCEPT !["close"] = @ \ {l}]
    /\ UNCHANGED <<networkVars, handlerVars, told, lost>>

SetOnclose(l) ==
    /\ running = Idle
    /\ listeners' = [listeners EXCEPT !["close"] = {l}]
    /\ UNCHANGED <<networkVars, handlerVars, told, lost>>

Next ==
    \/ \E c \in Connection : Connect(c) \/ Opened(c) \/ ConnectFails(c) \/ OnError(c) \/ OnClose(c)
    \/ Shutdown
    \/ \E s \in Stub : ReceiveStub(s) \/ Release(s)
    \/ \E s \in Stub, b \in Behaviour : InstallSystemExceptionHandler(s, b)
    \/ NextStub
    \/ CallHandler
    \/ \E l \in Listener : AddEventListener(l) \/ RemoveEventListener(l) \/ SetOnclose(l)

\* A WebSocket that was told to close, or has failed, reports that it is closed;
\* an event's handlers run to their end.
Fairness ==
    /\ \A c \in Connection : WF_vars(socket[c] \in {"closing", "shut"} /\ OnClose(c))
    /\ WF_vars(NextStub) /\ WF_vars(CallHandler)

Spec == Init /\ [][Next]_vars /\ Fairness
-----------------------------------------------------------------------------
(***************************************************************************)
(* When the event of a connection that failed has been handled, every      *)
(* handler that had been installed for one of its stubs has been called,   *)
(* unless its stub was released before or another handler has thrown, and  *)
(* whatever the handlers themselves install and release meanwhile          *)
(* (orb.ts:237-247).  Of a connection that the other side closes none is   *)
(* ever called (browser.ts:132), though orb.ts:217 says that handlers are  *)
(* called when a stub's connection is lost.                                *)
(***************************************************************************)
AllTold ==
    /\ running = Idle => old \subseteq Range(called) \cup gone
    /\ untold \cap Range(called) = {}

(***************************************************************************)
(* A handler is called at most once, and not after its object has been     *)
(* released, be it by a handler of another stub of the same connection;    *)
(* but when a handler releases its own object, those behind it in the list *)
(* are called all the same, unless one of them throws: the list has been   *)
(* taken out of the map before (orb.ts:240-244, orb.ts:789-791).           *)
(***************************************************************************)
CalledOnce ==
    /\ \A i, j \in DOMAIN called : called[i] = called[j] => i = j
    /\ Range(called) \cap gone = {}
    /\ running = Idle => late \subseteq Range(called) \cup gone

(***************************************************************************)
(* No lookup finds a connection whose socket is closed: what is in the     *)
(* list is open or about to report that it has closed (orb.ts:718,         *)
(* orb.ts:340, browser.ts:107-132).                                        *)
(***************************************************************************)
ListedNotClosed == \A c \in connections : socket[c] \in {"open", "closing"}

(***************************************************************************)
(* A connection that has failed leaves the list in the end, so that a new  *)
(* lookup opens a new one (browser.ts:107, orb.ts:718).                    *)
(***************************************************************************)
FailedLeaves == \A c \in Connection : socket[c] = "closing" ~> c \notin connections
=============================================================================
