---------------------- MODULE BrowserConnectionsProofs ----------------------
(***************************************************************************)
(* Who hears of a lost connection: the handlers of one that fails are all  *)
(* called, and once; those of one that the other side closes never.        *)
(* Proofs of the safety properties of BrowserConnections, for any number   *)
(* of connections, stubs and handlers and whatever the handlers do.        *)
(***************************************************************************)
EXTENDS BrowserConnections, TLAPS

Handler == [id : Nat, of : Stub, does : Behaviour]

SocketState ==
    {"none", "connecting", "open", "closing", "shut", "closed", "failed"}

Types ==
    /\ socket \in [Connection -> SocketState]
    /\ connections \in SUBSET Connection
    /\ stubs \in [Connection -> Seq(Stub)]
    /\ handlers \in [Stub -> Seq(Handler)]
    /\ running \in [stubs : Seq(Stub), handlers : Seq(Handler)]
    /\ called \in Seq(Nat)
    /\ installs \in Nat

(***************************************************************************)
(* A handler is in one place: in the list of a stub, among those that are  *)
(* about to be called, called, or gone.                                    *)
(***************************************************************************)
Listed(s) == Ids(handlers[s])
Waiting == Ids(running.handlers)
Told == Range(called)

NoRepeat(list) == \A i, j \in DOMAIN list : list[i].id = list[j].id => i = j

\* Ids are given out once.
Counted ==
    /\ \A s \in Stub : \A n \in Listed(s) : n <= installs
    /\ \A n \in Waiting \cup Told \cup gone : n \in Nat /\ n <= installs

ListedOnce ==
    /\ \A s \in Stub : NoRepeat(handlers[s]) /\ Listed(s) \cap Waiting = {}
    /\ \A s, t \in Stub : s # t => Listed(s) \cap Listed(t) = {}
    /\ NoRepeat(running.handlers)

NotYetCalled ==
    /\ \A s \in Stub : Listed(s) \cap Told = {}
    /\ Waiting \cap (Told \cup gone) = {}

(***************************************************************************)
(* What a throw has cost stays in the lists of the stubs whose turn would  *)
(* have come, but the connection of these is lost for good.                *)
(***************************************************************************)
StubsOfConnection ==
    /\ \A c \in Connection : \A s \in Range(stubs[c]) : s[1] = c
    /\ \A s \in Range(running.stubs) : socket[s[1]] = "closing"

GoneOfLost ==
    \A s \in Stub : Listed(s) \cap gone # {} =>
        /\ socket[s[1]] \notin {"none", "connecting", "open"}
        /\ s \notin Range(running.stubs)

\* Every handler that is to be told has been, is going to be, or is gone.
StillToBeTold ==
    old \subseteq gone \cup Told \cup Waiting
                       \cup UNION {Listed(s) : s \in Range(running.stubs)}

\* The first two parts of CalledOnce; the third follows from LateTold.
CalledAtMostOnce ==
    /\ \A i, j \in DOMAIN called : called[i] = called[j] => i = j
    /\ Told \cap gone = {}

\* The part of the invariant that is about the handlers.
HandlerInv ==
    /\ CalledAtMostOnce
    /\ Counted
    /\ ListedOnce
    /\ NotYetCalled
    /\ GoneOfLost
    /\ StillToBeTold

\* A handler that was taken out before its object was released is called, or
\* costs a throw its call.
LateTold == late \subseteq Told \cup Waiting \cup gone

\* What was installed when the other side closed the connection stays in the
\* lists of the stubs of that connection, and no event takes it out again.
UntoldOfClosed ==
    /\ untold \cap (Told \cup Waiting) = {}
    /\ \A n \in untold : n \in Nat /\ n <= installs
    /\ \A s \in Stub : Listed(s) \cap untold # {} => socket[s[1]] = "closed"

IInv ==
    /\ Types
    /\ ListedNotClosed
    /\ StubsOfConnection
    /\ HandlerInv
    /\ LateTold
    /\ UntoldOfClosed

-----------------------------------------------------------------------------
LEMMA InitInv == Init => IInv
  BY BrowserAssumption
  DEF Init, IInv, Types, HandlerInv, ListedNotClosed, CalledAtMostOnce, Counted,
      ListedOnce, NotYetCalled, StubsOfConnection, GoneOfLost, StillToBeTold, LateTold,
      UntoldOfClosed, Idle, SocketState, Handler, Range, Listed, Waiting, Told, NoRepeat, Ids

(***************************************************************************)
(* What a handler does: it is the first of those to be called, and then    *)
(* nothing else changes, a list of handlers grows or is released, or the   *)
(* handler throws.                                                         *)
(***************************************************************************)
Install(s, b) ==
    /\ handlers' = Installed(handlers, s, b)
    /\ installs' = installs + 1
    /\ UNCHANGED gone

Drop(s) ==
    /\ handlers' = ReleaseObject(handlers, s)
    /\ gone' = gone \cup Ids(handlers[s])
    /\ UNCHANGED installs

NoChange == UNCHANGED <<handlers, installs, gone>>

Advance ==
    /\ running.handlers # <<>>
    /\ called' = Append(called, running.handlers[1].id)
    /\ running' = [running EXCEPT !.handlers = Tail(@)]

Throw ==
    /\ running.handlers # <<>>
    /\ called' = Append(called, running.handlers[1].id)
    /\ running' = Idle
    /\ gone' = gone \cup Ids(Tail(running.handlers))
                    \cup UNION {Ids(handlers[s]) : s \in Range(running.stubs)}
    /\ UNCHANGED <<handlers, installs>>

LEMMA CallHandlerCases ==
    ASSUME Types, CallHandler
    PROVE  /\ UNCHANGED <<socket, connections, stubs, old, untold>>
           /\ \/ Advance /\ NoChange
              \/ Advance /\ \E s \in Stub : Install(s, "plain")
              \/ Advance /\ \E s \in Stub : Drop(s)
              \/ Throw
  <1> DEFINE h == Head(running.handlers)
             rest == [running EXCEPT !.handlers = Tail(@)]
  <1>1. /\ running \in [stubs : Seq(Stub), handlers : Seq(Handler)]
        /\ running.handlers # <<>>
        /\ called' = Append(called, h.id)
        /\ UNCHANGED <<socket, connections, stubs, old, untold>>
    <2>1. running \in [stubs : Seq(Stub), handlers : Seq(Handler)]
      BY DEF Types
    <2>2. running.handlers # <<>>
      BY DEF CallHandler
    <2>3. called' = Append(called, h.id)
      BY DEF CallHandler
    <2>4. UNCHANGED <<socket, connections, stubs, old, untold>>
      BY DEF CallHandler, networkVars
    <2>. QED
      BY <2>1, <2>2, <2>3, <2>4
  <1>2. /\ h = running.handlers[1]
        /\ rest.handlers = Tail(running.handlers) /\ rest.stubs = running.stubs
    <2>1. running.handlers \in Seq(Handler) /\ running.handlers # <<>>
      BY <1>1
    <2>2. h = running.handlers[1]
      BY <2>1
    <2>3. rest.handlers = Tail(running.handlers) /\ rest.stubs = running.stubs
      BY <1>1
    <2> HIDE DEF rest, h
    <2>. QED
      BY <2>2, <2>3
  <1>3. \/ running' = rest /\ NoChange
        \/ running' = rest /\ \E s \in Stub : Install(s, "plain")
        \/ running' = rest /\ \E s \in Stub : Drop(s)
        \/ /\ gone' = gone \cup Ids(rest.handlers)
                           \cup UNION {Ids(handlers[s]) : s \in Range(rest.stubs)}
           /\ running' = Idle
           /\ UNCHANGED <<handlers, installs>>
    BY DEF CallHandler, NoChange, Install, Drop
  <1>. HIDE DEF h, rest
  <1>4. CASE running' = rest
    <2>1. running' = rest => Advance
      BY <1>1, <1>2 DEF Advance, rest
    <2>. QED
      BY <1>1, <1>2, <1>3, <1>4, <2>1 DEF Throw
  <1>5. CASE running' # rest
    BY <1>1, <1>2, <1>3, <1>5 DEF Throw
  <1>. QED
    BY <1>1, <1>4, <1>5

\* What is released too late is still among those to be called.
LEMMA CallHandlerLate ==
    ASSUME CallHandler
    PROVE  late' \subseteq late \cup Waiting'
  <1> DEFINE rest == [running EXCEPT !.handlers = Tail(@)]
  <1>1. ASSUME NEW s
        PROVE  TakenOut(rest, s) \subseteq Ids(rest.handlers)
    BY DEF TakenOut, Ids
  <1>. HIDE DEF rest
  <1>2. \/ UNCHANGED late
        \/ /\ \E s \in Stub : late' = late \cup TakenOut(rest, s)
           /\ running' = rest
    BY DEF CallHandler, rest
  <1>. QED
    BY <1>1, <1>2 DEF Waiting

(***************************************************************************)
(* Types.                                                                  *)
(***************************************************************************)
LEMMA InstalledType ==
    ASSUME Types, NEW s \in Stub, NEW b \in Behaviour
    PROVE  Installed(handlers, s, b) \in [Stub -> Seq(Handler)]
  <1>1. [id |-> installs + 1, of |-> s, does |-> b] \in Handler
    BY DEF Types, Handler
  <1>. QED
    BY <1>1 DEF Types, Installed

LEMMA TypesStep == Types /\ [Next]_vars => Types'
  <1> SUFFICES ASSUME Types, [Next]_vars
               PROVE  Types'
    OBVIOUS
  <1> USE BrowserAssumption
  <1>1. ASSUME NEW c \in Connection, Connect(c) \/ Opened(c) \/ ConnectFails(c)
        PROVE  Types'
    BY <1>1 DEF Types, Connect, Opened, ConnectFails, SocketState, handlerVars
  <1>2. ASSUME NEW c \in Connection, OnError(c)
        PROVE  Types'
    BY <1>2 DEF Types, OnError, ConnectionClose, SocketState
  <1>3. ASSUME NEW c \in Connection, OnClose(c)
        PROVE  Types'
    BY <1>3 DEF Types, OnClose, SocketClosed, SocketState
  <1>4. CASE Shutdown
    BY <1>4 DEF Types, Shutdown, SocketState, handlerVars
  <1>5. ASSUME NEW s \in Stub, ReceiveStub(s)
        PROVE  Types'
    BY <1>5 DEF Types, ReceiveStub, handlerVars
  <1>6. ASSUME NEW s \in Stub, Release(s)
        PROVE  Types'
    BY <1>6 DEF Types, Release, ReleaseObject, networkVars
  <1>7. ASSUME NEW s \in Stub, NEW b \in Behaviour, InstallSystemExceptionHandler(s, b)
        PROVE  Types'
    BY <1>7, InstalledType DEF Types, InstallSystemExceptionHandler, networkVars
  <1>8. CASE NextStub
    <2>1. Head(running.stubs) \in Stub /\ Tail(running.stubs) \in Seq(Stub)
      BY <1>8 DEF Types, NextStub
    <2>. QED
      BY <1>8, <2>1 DEF Types, NextStub, TakeHandlers, networkVars
  <1>9. CASE CallHandler
    <2>1. /\ running.handlers \in Seq(Handler) /\ running.stubs \in Seq(Stub)
          /\ handlers \in [Stub -> Seq(Handler)]
      BY DEF Types
    <2>2. /\ UNCHANGED <<socket, connections, stubs>>
          /\ Advance \/ Throw
      BY <1>9, CallHandlerCases
    <2>3. called' \in Seq(Nat)
      <3>1. /\ running.handlers # <<>>
            /\ called' = Append(called, running.handlers[1].id)
        BY <2>2 DEF Advance, Throw
      <3>2. running.handlers[1] \in Handler
        BY <2>1, <3>1
      <3>3. called \in Seq(Nat) /\ running.handlers[1].id \in Nat
        BY <3>2 DEF Types, Handler
      <3>. QED
        BY <3>1, <3>3
    <2>4. running' \in [stubs : Seq(Stub), handlers : Seq(Handler)]
      <3>1. CASE Throw
        BY <3>1 DEF Throw, Idle
      <3>2. CASE Advance
        <4>1. Tail(running.handlers) \in Seq(Handler)
          BY <2>1, <3>2 DEF Advance
        <4>. QED
          BY <3>2, <4>1 DEF Advance, Types
      <3>. QED
        BY <2>2, <3>1, <3>2
    <2>5. installs' \in Nat
      BY <1>9, CallHandlerCases DEF Types, NoChange, Install, Drop, Throw
    <2>6. handlers' \in [Stub -> Seq(Handler)]
      <3>1. \A s \in Stub : ReleaseObject(handlers, s) \in [Stub -> Seq(Handler)]
        BY <2>1 DEF ReleaseObject
      <3>. QED
        BY <1>9, <2>1, <3>1, CallHandlerCases, InstalledType
        DEF NoChange, Install, Drop, Throw, Behaviour
    <2>. QED
      BY <2>2, <2>3, <2>4, <2>5, <2>6 DEF Types
  <1>10. ASSUME NEW l \in Listener,
                AddEventListener(l) \/ RemoveEventListener(l) \/ SetOnclose(l)
         PROVE  Types'
    BY <1>10 DEF Types, AddEventListener, RemoveEventListener, SetOnclose, networkVars,
                 handlerVars
  <1>11. CASE UNCHANGED vars
    BY <1>11 DEF Types, vars, networkVars, handlerVars
  <1>. QED
    BY <1>1, <1>2, <1>3, <1>4, <1>5, <1>6, <1>7, <1>8, <1>9, <1>10, <1>11 DEF Next

(***************************************************************************)
(* Lists, and the sets of what is in them.                                 *)
(***************************************************************************)
LEMMA RangeFacts ==
    ASSUME NEW S, NEW q \in Seq(S)
    PROVE  /\ \A x \in S : Range(Append(q, x)) = Range(q) \cup {x}
           /\ q # <<>> => /\ Head(q) \in S
                          /\ Range(q) = {Head(q)} \cup Range(Tail(q))
           /\ Range(q) \subseteq S
  <1>1. ASSUME NEW x \in S
        PROVE  Range(Append(q, x)) = Range(q) \cup {x}
    <2>1. /\ DOMAIN Append(q, x) = DOMAIN q \cup {Len(q) + 1}
          /\ \A i \in DOMAIN q : Append(q, x)[i] = q[i]
          /\ Append(q, x)[Len(q) + 1] = x
      OBVIOUS
    <2>. QED
      BY <2>1 DEF Range
  <1>2. ASSUME q # <<>>
        PROVE  Head(q) \in S /\ Range(q) = {Head(q)} \cup Range(Tail(q))
    <2>1. /\ Head(q) = q[1] /\ 1 \in DOMAIN q /\ q[1] \in S
          /\ \A i \in DOMAIN Tail(q) : i + 1 \in DOMAIN q /\ Tail(q)[i] = q[i + 1]
          /\ \A i \in DOMAIN q : i # 1 => i - 1 \in DOMAIN Tail(q) /\ Tail(q)[i - 1] = q[i]
      BY <1>2
    <2>2. ASSUME NEW x \in Range(q)
          PROVE  x \in {Head(q)} \cup Range(Tail(q))
      <3>1. PICK i \in DOMAIN q : x = q[i]
        BY DEF Range
      <3>. QED
        BY <2>1, <3>1 DEF Range
    <2>3. ASSUME NEW x \in {Head(q)} \cup Range(Tail(q))
          PROVE  x \in Range(q)
      BY <2>1 DEF Range
    <2>. QED
      BY <2>1, <2>2, <2>3
  <1>3. Range(q) \subseteq S
    BY DEF Range
  <1>. QED
    BY <1>1, <1>2, <1>3

LEMMA IdsFacts ==
    ASSUME NEW list \in Seq(Handler)
    PROVE  /\ \A h \in Handler : /\ Ids(Append(list, h)) = Ids(list) \cup {h.id}
                                 /\ NoRepeat(list) /\ h.id \notin Ids(list) =>
                                        NoRepeat(Append(list, h))
           /\ list # <<>> => /\ Ids(list) = {list[1].id} \cup Ids(Tail(list))
                             /\ NoRepeat(list) => /\ list[1].id \notin Ids(Tail(list))
                                                  /\ NoRepeat(Tail(list))
           /\ Ids(list) \subseteq Nat
           /\ list = <<>> => Ids(list) = {}
  <1>1. ASSUME NEW h \in Handler
        PROVE  /\ Ids(Append(list, h)) = Ids(list) \cup {h.id}
               /\ NoRepeat(list) /\ h.id \notin Ids(list) => NoRepeat(Append(list, h))
    <2>1. /\ DOMAIN Append(list, h) = DOMAIN list \cup {Len(list) + 1}
          /\ \A i \in DOMAIN list : Append(list, h)[i] = list[i]
          /\ Append(list, h)[Len(list) + 1] = h
      OBVIOUS
    <2>. QED
      BY <2>1 DEF Ids, NoRepeat
  <1>2. ASSUME list # <<>>
        PROVE  /\ Ids(list) = {list[1].id} \cup Ids(Tail(list))
               /\ NoRepeat(list) => /\ list[1].id \notin Ids(Tail(list))
                                    /\ NoRepeat(Tail(list))
    <2>1. /\ 1 \in DOMAIN list
          /\ \A i \in DOMAIN Tail(list) :
                 i \in Nat \ {0} /\ i + 1 \in DOMAIN list /\ Tail(list)[i] = list[i + 1]
          /\ \A i \in DOMAIN list :
                 i # 1 => i - 1 \in DOMAIN Tail(list) /\ Tail(list)[i - 1] = list[i]
      BY <1>2
    <2>2. Ids(list) = {list[1].id} \cup Ids(Tail(list))
      <3>1. ASSUME NEW n \in Ids(list)
            PROVE  n \in {list[1].id} \cup Ids(Tail(list))
        <4>1. PICK i \in DOMAIN list : n = list[i].id
          BY DEF Ids
        <4>. QED
          BY <2>1, <4>1 DEF Ids
      <3>2. ASSUME NEW n \in {list[1].id} \cup Ids(Tail(list))
            PROVE  n \in Ids(list)
        BY <2>1 DEF Ids
      <3>. QED
        BY <3>1, <3>2
    <2>3. ASSUME NoRepeat(list)
          PROVE  list[1].id \notin Ids(Tail(list)) /\ NoRepeat(Tail(list))
      <3>1. \A i \in DOMAIN Tail(list) : i + 1 # 1
        BY <2>1
      <3>2. \A i, j \in DOMAIN Tail(list) : i + 1 = j + 1 => i = j
        BY <2>1
      <3>. QED
        BY <2>1, <2>3, <3>1, <3>2 DEF Ids, NoRepeat
    <2>. QED
      BY <2>2, <2>3
  <1>3. Ids(list) \subseteq Nat
    <2>1. \A i \in DOMAIN list : list[i] \in Handler
      OBVIOUS
    <2>. QED
      BY <2>1 DEF Ids, Handler
  <1>4. list = <<>> => Ids(list) = {}
    BY DEF Ids
  <1>. QED
    BY <1>1, <1>2, <1>3, <1>4

-----------------------------------------------------------------------------
(***************************************************************************)
(* The handlers.                                                           *)
(***************************************************************************)
\* What changes of the lists when a handler is installed or released.
LEMMA InstalledLists ==
    ASSUME IInv, NEW s \in Stub, NEW b \in Behaviour, Install(s, b)
    PROVE  /\ installs \in Nat /\ installs' = installs + 1 /\ gone' = gone
           /\ Listed(s)' = Listed(s) \cup {installs + 1}
           /\ \A t \in Stub : t # s => Listed(t)' = Listed(t)
           /\ \A t \in Stub : NoRepeat(handlers'[t])
  <1> DEFINE h == [id |-> installs + 1, of |-> s, does |-> b]
  <1>1. /\ handlers \in [Stub -> Seq(Handler)] /\ installs \in Nat
        /\ h \in Handler /\ h.id = installs + 1
        /\ handlers' = [handlers EXCEPT ![s] = Append(@, h)]
    <2>1. installs \in Nat /\ handlers \in [Stub -> Seq(Handler)]
      BY DEF IInv, Types
    <2>2. h \in Handler /\ h.id = installs + 1
      BY <2>1 DEF Handler
    <2>3. handlers' = [handlers EXCEPT ![s] = Append(@, h)]
      BY DEF Install, Installed
    <2>. QED
      BY <2>1, <2>2, <2>3
  <1>2. /\ NoRepeat(handlers[s]) /\ h.id \notin Ids(handlers[s])
        /\ \A t \in Stub : NoRepeat(handlers[t])
    <2>1. \A n \in Ids(handlers[s]) : n \in Nat /\ n <= installs
      BY <1>1, IdsFacts DEF IInv, HandlerInv, Counted, Listed
    <2>. QED
      BY <1>1, <2>1 DEF IInv, HandlerInv, ListedOnce
  <1> HIDE DEF h
  <1>3. /\ handlers'[s] = Append(handlers[s], h)
        /\ \A t \in Stub : t # s => handlers'[t] = handlers[t]
    BY <1>1
  <1>4. /\ Ids(Append(handlers[s], h)) = Ids(handlers[s]) \cup {h.id}
        /\ NoRepeat(Append(handlers[s], h))
    BY <1>1, <1>2, IdsFacts
  <1>. QED
    BY <1>1, <1>2, <1>3, <1>4 DEF Listed, Install

LEMMA ReleasedLists ==
    ASSUME IInv, NEW s \in Stub, handlers' = ReleaseObject(handlers, s)
    PROVE  /\ Listed(s)' = {}
           /\ \A t \in Stub : t # s => Listed(t)' = Listed(t)
           /\ \A t \in Stub : NoRepeat(handlers'[t])
  <1>1. /\ handlers'[s] = <<>>
        /\ \A t \in Stub : t # s => handlers'[t] = handlers[t]
    BY DEF IInv, Types, ReleaseObject
  <1>. QED
    BY <1>1 DEF IInv, HandlerInv, ListedOnce, Listed, Ids, NoRepeat

\* What changes when the next handler is called.
LEMMA AdvancedLists ==
    ASSUME IInv, NEW h, h = running.handlers[1].id,
           running.handlers # <<>>, called' = Append(called, h)
    PROVE  /\ h \in Waiting /\ h \notin Told /\ h \notin gone
           /\ Waiting = {h} \cup Ids(Tail(running.handlers))
           /\ h \notin Ids(Tail(running.handlers))
           /\ NoRepeat(Tail(running.handlers))
           /\ Told' = Told \cup {h}
           /\ \A i, j \in DOMAIN called' : called'[i] = called'[j] => i = j
  <1>1. running.handlers \in Seq(Handler) /\ called \in Seq(Nat)
    BY DEF IInv, Types
  <1>2. /\ Ids(running.handlers) = {h} \cup Ids(Tail(running.handlers))
        /\ h \notin Ids(Tail(running.handlers))
        /\ NoRepeat(Tail(running.handlers))
        /\ h \in Nat
    BY <1>1, IdsFacts DEF IInv, HandlerInv, ListedOnce
  <1>3. h \in Waiting /\ h \notin Told /\ h \notin gone
    BY <1>2 DEF IInv, HandlerInv, NotYetCalled, Waiting
  <1>4. Told' = Told \cup {h}
    BY <1>1, <1>2, RangeFacts DEF Told
  <1>5. ASSUME NEW i \in DOMAIN called', NEW j \in DOMAIN called', called'[i] = called'[j]
        PROVE  i = j
    <2>1. /\ DOMAIN called' = DOMAIN called \cup {Len(called) + 1}
          /\ \A k \in DOMAIN called : called'[k] = called[k]
          /\ called'[Len(called) + 1] = h
      BY <1>1, <1>2
    <2>2. \A k \in DOMAIN called : called[k] # h
      BY <1>3 DEF Told, Range
    <2>. QED
      BY <1>5, <2>1, <2>2 DEF IInv, HandlerInv, CalledAtMostOnce
  <1>. QED
    BY <1>2, <1>3, <1>4, <1>5 DEF Waiting

\* Either no handler is called, or the first of those that wait.
Progress == UNCHANGED <<running, called>> \/ Advance

LEMMA ProgressLists ==
    ASSUME IInv, Progress
    PROVE  /\ running'.stubs = running.stubs
           /\ Waiting' \subseteq Waiting /\ Told \subseteq Told'
           /\ Waiting' \cup Told' = Waiting \cup Told
           /\ Waiting' \cap Told' = {}
           /\ Told' \cap gone = {}
           /\ NoRepeat(running'.handlers)
           /\ \A i, j \in DOMAIN called' : called'[i] = called'[j] => i = j
  <1>1. CASE UNCHANGED <<running, called>>
    BY <1>1 DEF IInv, HandlerInv, ListedOnce, NotYetCalled, CalledAtMostOnce, Waiting, Told, NoRepeat
  <1>2. CASE Advance
    <2> DEFINE h == running.handlers[1].id
    <2>1. /\ running.handlers # <<>> /\ called' = Append(called, h)
          /\ running'.handlers = Tail(running.handlers)
          /\ running'.stubs = running.stubs
      BY <1>2 DEF Advance, IInv, Types
    <2> HIDE DEF h
    <2>2. /\ h \in Waiting /\ h \notin Told /\ h \notin gone
          /\ Waiting = {h} \cup Waiting'
          /\ h \notin Waiting'
          /\ NoRepeat(running'.handlers)
          /\ Told' = Told \cup {h}
          /\ \A i, j \in DOMAIN called' : called'[i] = called'[j] => i = j
      BY <2>1, AdvancedLists DEF Waiting, h
    <2>. QED
      BY <2>1, <2>2 DEF IInv, HandlerInv, NotYetCalled, CalledAtMostOnce, Told
  <1>. QED
    BY <1>1, <1>2 DEF Progress

\* A socket does not become open again.
SocketsOnward ==
    \A c \in Connection : socket[c] \notin {"none", "connecting", "open"} =>
                               socket'[c] \notin {"none", "connecting", "open"}

LEMMA NoChangeKeeps ==
    ASSUME IInv, Progress, NoChange, SocketsOnward, UNCHANGED old
    PROVE  HandlerInv'
  <1>1. \A s \in Stub : /\ Listed(s)' = Listed(s)
                        /\ NoRepeat(handlers'[s])
    BY DEF NoChange, Listed, IInv, HandlerInv, ListedOnce
  <1>2. UNCHANGED <<installs, gone, old>>
    BY DEF NoChange
  <1>3. Counted' /\ ListedOnce'
    BY <1>1, <1>2, ProgressLists DEF IInv, HandlerInv, Counted, ListedOnce
  <1>4. CalledAtMostOnce'
    BY <1>2, ProgressLists DEF CalledAtMostOnce, Told
  <1>5. NotYetCalled'
    BY <1>1, <1>2, ProgressLists DEF IInv, HandlerInv, NotYetCalled, ListedOnce
  <1>6. GoneOfLost'
    BY <1>1, <1>2, ProgressLists, BrowserAssumption
    DEF IInv, HandlerInv, GoneOfLost, SocketsOnward
  <1>7. StillToBeTold'
    <2>1. Range(running.stubs) \subseteq Stub
      BY RangeFacts DEF IInv, Types
    <2>. QED
      BY <1>1, <1>2, <2>1, ProgressLists DEF IInv, HandlerInv, StillToBeTold
  <1>. QED
    BY <1>3, <1>4, <1>5, <1>6, <1>7 DEF HandlerInv

LEMMA InstallKeeps ==
    ASSUME IInv, Progress, SocketsOnward, UNCHANGED old,
           NEW s \in Stub, NEW b \in Behaviour, Install(s, b)
    PROVE  HandlerInv'
  <1>1. /\ installs \in Nat /\ installs' = installs + 1 /\ gone' = gone
        /\ Listed(s)' = Listed(s) \cup {installs + 1}
        /\ \A t \in Stub : t # s => Listed(t)' = Listed(t)
        /\ \A t \in Stub : NoRepeat(handlers'[t])
    BY InstalledLists
  <1>2. /\ \A t \in Stub : Listed(t) \subseteq Nat /\ installs + 1 \notin Listed(t)
        /\ installs + 1 \notin Waiting \cup Told \cup gone
    <2>1. \A t \in Stub : Listed(t) \subseteq Nat
      BY IdsFacts DEF IInv, Types, Listed
    <2>. QED
      BY <1>1, <2>1 DEF IInv, HandlerInv, Counted
  <1>3. Counted'
    BY <1>1, <1>2, ProgressLists DEF IInv, HandlerInv, Counted
  <1>4. ListedOnce'
    BY <1>1, <1>2, ProgressLists DEF IInv, HandlerInv, ListedOnce
  <1>5. CalledAtMostOnce' /\ NotYetCalled'
    <2>1. CalledAtMostOnce'
      BY <1>1, ProgressLists DEF CalledAtMostOnce, Told
    <2>2. NotYetCalled'
      BY <1>1, <1>2, ProgressLists DEF IInv, HandlerInv, NotYetCalled, ListedOnce
    <2>. QED
      BY <2>1, <2>2
  <1>6. GoneOfLost'
    BY <1>1, <1>2, ProgressLists, BrowserAssumption
    DEF IInv, HandlerInv, GoneOfLost, SocketsOnward
  <1>7. StillToBeTold'
    <2>1. \A t \in Stub : Listed(t) \subseteq Listed(t)'
      BY <1>1
    <2>2. Range(running.stubs) \subseteq Stub
      BY RangeFacts DEF IInv, Types
    <2>. QED
      BY <1>1, <2>1, <2>2, ProgressLists DEF IInv, HandlerInv, StillToBeTold
  <1>. QED
    BY <1>3, <1>4, <1>5, <1>6, <1>7 DEF HandlerInv

LEMMA DropKeeps ==
    ASSUME IInv, Progress, SocketsOnward, UNCHANGED old, NEW s \in Stub, Drop(s)
    PROVE  HandlerInv'
  <1>1. /\ Listed(s)' = {}
        /\ \A t \in Stub : t # s => Listed(t)' = Listed(t)
        /\ \A t \in Stub : NoRepeat(handlers'[t])
        /\ gone' = gone \cup Listed(s) /\ installs' = installs
    BY ReleasedLists DEF Drop, Listed
  <1>2. Listed(s) \subseteq Nat
    BY IdsFacts DEF IInv, Types, Listed
  <1>3. Counted'
    BY <1>1, <1>2, ProgressLists DEF IInv, HandlerInv, Counted
  <1>4. ListedOnce'
    BY <1>1, ProgressLists DEF IInv, HandlerInv, ListedOnce
  <1>5. CalledAtMostOnce' /\ NotYetCalled'
    BY <1>1, ProgressLists
    DEF IInv, HandlerInv, CalledAtMostOnce, NotYetCalled, ListedOnce, Told
  <1>6. GoneOfLost'
    BY <1>1, ProgressLists, BrowserAssumption
    DEF IInv, HandlerInv, GoneOfLost, ListedOnce, SocketsOnward
  <1>7. StillToBeTold'
    <2>1. Range(running.stubs) \subseteq Stub
      BY RangeFacts DEF IInv, Types
    <2>2. UNION {Listed(t) : t \in Range(running.stubs)}
              \subseteq Listed(s) \cup UNION {Listed(t)' : t \in Range(running.stubs)}
      BY <1>1, <2>1
    <2>. QED
      BY <1>1, <2>2, ProgressLists DEF IInv, HandlerInv, StillToBeTold
  <1>. QED
    BY <1>3, <1>4, <1>5, <1>6, <1>7 DEF HandlerInv

LEMMA ThrowKeeps ==
    ASSUME IInv, Throw, UNCHANGED <<socket, old>>
    PROVE  HandlerInv'
  <1> DEFINE h == running.handlers[1].id
             rest == Ids(Tail(running.handlers))
             cost == UNION {Listed(s) : s \in Range(running.stubs)}
  <1>1. /\ Waiting = {h} \cup rest /\ h \notin rest
        /\ h \notin Told /\ h \notin gone
        /\ Told' = Told \cup {h}
        /\ \A i, j \in DOMAIN called' : called'[i] = called'[j] => i = j
    BY AdvancedLists DEF Throw
  <1>2. /\ \A s \in Stub : Listed(s)' = Listed(s)
        /\ gone' = gone \cup rest \cup cost
        /\ UNCHANGED <<handlers, installs, old, socket>>
    BY DEF Throw, Listed
  <1>3. Waiting' = {} /\ Range(running'.stubs) = {} /\ NoRepeat(running'.handlers)
    BY DEF Throw, Idle, Waiting, Ids, Range, NoRepeat
  <1>4. /\ Range(running.stubs) \subseteq Stub
        /\ \A s \in Stub : Listed(s) \subseteq Nat
    BY RangeFacts, IdsFacts DEF IInv, Types, Listed
  <1> HIDE DEF h, rest
  <1>5. \A n \in cost : \E s \in Range(running.stubs) : n \in Listed(s)
    OBVIOUS
  <1>6. cost \cap Waiting = {} /\ cost \cap Told = {}
    BY <1>4, <1>5 DEF IInv, HandlerInv, ListedOnce, NotYetCalled
  <1>7. old \subseteq gone \cup Told \cup Waiting \cup cost
    BY DEF IInv, HandlerInv, StillToBeTold
  <1>8. \A n \in cost : n \in Nat /\ n <= installs
    BY <1>4, <1>5 DEF IInv, HandlerInv, Counted
  <1>9. ASSUME NEW s \in Stub, Listed(s) \cap cost # {}
        PROVE  socket[s[1]] = "closing"
    <2>1. s \in Range(running.stubs)
      BY <1>4, <1>5, <1>9 DEF IInv, HandlerInv, ListedOnce
    <2>. QED
      BY <2>1 DEF IInv, StubsOfConnection
  <1> HIDE DEF cost
  <1>10. Counted'
    BY <1>1, <1>2, <1>3, <1>8 DEF IInv, HandlerInv, Counted
  <1>11. ListedOnce'
    BY <1>2, <1>3 DEF IInv, HandlerInv, ListedOnce
  <1>12. CalledAtMostOnce'
    <2>1. Told' \cap gone' = {}
      BY <1>1, <1>2, <1>6 DEF IInv, HandlerInv, NotYetCalled, CalledAtMostOnce, Told
    <2>. QED
      BY <1>1, <2>1 DEF CalledAtMostOnce, Told
  <1>13. NotYetCalled'
    BY <1>1, <1>2, <1>3 DEF IInv, HandlerInv, NotYetCalled, ListedOnce
  <1>14. GoneOfLost'
    <2>1. ASSUME NEW s \in Stub, Listed(s)' \cap gone' # {}
          PROVE  socket'[s[1]] \notin {"none", "connecting", "open"}
      <3>1. Listed(s) \cap rest = {}
        BY <1>1 DEF IInv, HandlerInv, ListedOnce
      <3>2. Listed(s) \cap gone # {} \/ Listed(s) \cap cost # {}
        BY <1>2, <2>1, <3>1
      <3>. QED
        BY <1>2, <1>9, <3>2 DEF IInv, HandlerInv, GoneOfLost
    <2>. QED
      BY <1>3, <2>1 DEF GoneOfLost
  <1>15. StillToBeTold'
    BY <1>1, <1>2, <1>7 DEF StillToBeTold
  <1>. QED
    BY <1>10, <1>11, <1>12, <1>13, <1>14, <1>15 DEF HandlerInv

LEMMA NextStubKeeps ==
    ASSUME IInv, NextStub
    PROVE  HandlerInv'
  <1>0. PICK s \in Stub : s = Head(running.stubs)
    BY RangeFacts DEF NextStub, IInv, Types
  <1>1. /\ running.stubs \in Seq(Stub) /\ running.stubs # <<>>
        /\ running.handlers = <<>>
        /\ running'.stubs = Tail(running.stubs) /\ running'.handlers = handlers[s]
        /\ handlers' = [handlers EXCEPT ![s] = <<>>]
        /\ UNCHANGED <<socket, called, installs, old, gone>>
    BY <1>0 DEF NextStub, TakeHandlers, IInv, Types, networkVars
  <1>2. /\ s \in Stub
        /\ Range(running.stubs) = {s} \cup Range(running'.stubs)
        /\ Range(running.stubs) \subseteq Stub
    BY <1>0, <1>1, RangeFacts
  <1>3. handlers' = ReleaseObject(handlers, s)
    BY <1>1 DEF ReleaseObject
  <1>4. /\ Listed(s)' = {}
        /\ \A t \in Stub : t # s => Listed(t)' = Listed(t)
        /\ \A t \in Stub : NoRepeat(handlers'[t])
    BY <1>2, <1>3, ReleasedLists
  <1>5. /\ Waiting = {} /\ Waiting' = Listed(s) /\ Told' = Told
        /\ NoRepeat(running'.handlers)
    BY <1>1, <1>2 DEF Waiting, Listed, Ids, Told, IInv, HandlerInv, ListedOnce
  <1>6. Listed(s) \cap gone = {} /\ Listed(s) \cap Told = {}
    BY <1>2 DEF IInv, HandlerInv, GoneOfLost, NotYetCalled
  <1>7. Listed(s) \subseteq Nat
    BY <1>2, IdsFacts DEF IInv, Types, Listed
  <1>8. Counted'
    BY <1>1, <1>2, <1>4, <1>5, <1>7 DEF IInv, HandlerInv, Counted
  <1>9. ListedOnce'
    BY <1>2, <1>4, <1>5 DEF IInv, HandlerInv, ListedOnce
  <1>10. CalledAtMostOnce'
    BY <1>1, <1>5 DEF IInv, HandlerInv, CalledAtMostOnce
  <1>11. NotYetCalled'
    BY <1>1, <1>4, <1>5, <1>6 DEF IInv, HandlerInv, NotYetCalled
  <1>12. GoneOfLost'
    BY <1>1, <1>2, <1>4 DEF IInv, HandlerInv, GoneOfLost
  <1>13. StillToBeTold'
    <2>1. UNION {Listed(t) : t \in Range(running.stubs)}
              \subseteq Listed(s) \cup UNION {Listed(t)' : t \in Range(running'.stubs)}
      BY <1>2, <1>4
    <2>. QED
      BY <1>1, <1>5, <2>1 DEF IInv, HandlerInv, StillToBeTold
  <1>. QED
    BY <1>8, <1>9, <1>10, <1>11, <1>12, <1>13 DEF HandlerInv

LEMMA OnErrorKeeps ==
    ASSUME IInv, NEW c \in Connection, OnError(c)
    PROVE  HandlerInv'
  <1>1. /\ running = Idle /\ socket[c] = "open"
        /\ socket' = [socket EXCEPT ![c] = "closing"]
        /\ running'.stubs = stubs[c] /\ running'.handlers = <<>>
        /\ old' = old \cup UNION {Listed(s) : s \in Range(stubs[c])}
        /\ UNCHANGED <<handlers, called, installs, gone>>
    BY DEF OnError, ConnectionClose, HandlersOf, Listed
  <1>2. socket \in [Connection -> SocketState] /\ Range(stubs[c]) \subseteq Stub
    BY RangeFacts DEF IInv, Types
  <1>3. /\ Waiting = {} /\ Waiting' = {} /\ Told' = Told
        /\ Range(running.stubs) = {}
        /\ \A s \in Stub : Listed(s)' = Listed(s)
        /\ NoRepeat(running'.handlers)
    BY <1>1 DEF Idle, Waiting, Ids, Range, Told, Listed, NoRepeat
  <1>4. Counted'
    BY <1>1, <1>3 DEF IInv, HandlerInv, Counted
  <1>5. ListedOnce'
    BY <1>1, <1>3 DEF IInv, HandlerInv, ListedOnce
  <1>6. CalledAtMostOnce' /\ NotYetCalled'
    BY <1>1, <1>3 DEF IInv, HandlerInv, CalledAtMostOnce, NotYetCalled
  <1>7. GoneOfLost'
    <2>1. ASSUME NEW s \in Stub, Listed(s)' \cap gone' # {}
          PROVE  /\ socket'[s[1]] \notin {"none", "connecting", "open"}
                 /\ s \notin Range(running'.stubs)
      <3>1. socket[s[1]] \notin {"none", "connecting", "open"}
        BY <1>1, <1>3, <2>1 DEF IInv, HandlerInv, GoneOfLost
      <3>2. s[1] # c
        BY <1>1, <3>1
      <3>3. s \notin Range(stubs[c])
        BY <3>2 DEF IInv, StubsOfConnection
      <3>. QED
        BY <1>1, <1>2, <3>1, <3>2, <3>3, BrowserAssumption
    <2>. QED
      BY <2>1 DEF GoneOfLost
  <1>8. StillToBeTold'
    <2>1. \A s \in Range(stubs[c]) : Listed(s)' = Listed(s)
      BY <1>2, <1>3
    <2>2. old \subseteq gone \cup Told
      BY <1>3 DEF IInv, HandlerInv, StillToBeTold
    <2>. QED
      BY <1>1, <1>3, <2>1, <2>2 DEF StillToBeTold
  <1>. QED
    BY <1>4, <1>5, <1>6, <1>7, <1>8 DEF HandlerInv

(***************************************************************************)
(* The invariant is kept by every step.                                    *)
(***************************************************************************)
LEMMA HandlerStep == IInv /\ [Next]_vars => HandlerInv'
  <1> SUFFICES ASSUME IInv, [Next]_vars
               PROVE  HandlerInv'
    OBVIOUS
  <1>0. socket \in [Connection -> SocketState]
    BY DEF IInv, Types
  <1>1. ASSUME NEW c \in Connection,
               Connect(c) \/ Opened(c) \/ ConnectFails(c) \/ OnClose(c)
        PROVE  HandlerInv'
    <2>1. SocketsOnward
      BY <1>0, <1>1 DEF SocketsOnward, Connect, Opened, ConnectFails, OnClose
    <2>2. Progress /\ NoChange /\ UNCHANGED old
      BY <1>1 DEF Progress, NoChange, Connect, Opened, ConnectFails, OnClose, handlerVars
    <2>. QED
      BY <2>1, <2>2, NoChangeKeeps
  <1>2. ASSUME NEW c \in Connection, OnError(c)
        PROVE  HandlerInv'
    BY <1>2, OnErrorKeeps
  <1>3. CASE Shutdown
    <2>1. SocketsOnward
      BY <1>0, <1>3 DEF SocketsOnward, Shutdown
    <2>2. Progress /\ NoChange /\ UNCHANGED old
      BY <1>3 DEF Progress, NoChange, Shutdown, handlerVars
    <2>. QED
      BY <2>1, <2>2, NoChangeKeeps
  <1>4. ASSUME NEW s \in Stub, ReceiveStub(s)
        PROVE  HandlerInv'
    <2>1. SocketsOnward /\ Progress /\ NoChange /\ UNCHANGED old
      BY <1>4 DEF SocketsOnward, Progress, NoChange, ReceiveStub, handlerVars
    <2>. QED
      BY <2>1, NoChangeKeeps
  <1>5. ASSUME NEW s \in Stub, Release(s)
        PROVE  HandlerInv'
    <2>1. SocketsOnward /\ Progress /\ Drop(s) /\ UNCHANGED old
      BY <1>5 DEF SocketsOnward, Progress, Drop, Release, networkVars
    <2>. QED
      BY <2>1, DropKeeps
  <1>6. ASSUME NEW s \in Stub, NEW b \in Behaviour, InstallSystemExceptionHandler(s, b)
        PROVE  HandlerInv'
    <2>1. SocketsOnward /\ Progress /\ Install(s, b) /\ UNCHANGED old
      BY <1>6
      DEF SocketsOnward, Progress, Install, InstallSystemExceptionHandler, networkVars
    <2>. QED
      BY <2>1, InstallKeeps
  <1>7. CASE NextStub
    BY <1>7, NextStubKeeps
  <1>8. CASE CallHandler
    <2>1. /\ UNCHANGED <<socket, connections, stubs, old>>
          /\ \/ Advance /\ NoChange
             \/ Advance /\ \E s \in Stub : Install(s, "plain")
             \/ Advance /\ \E s \in Stub : Drop(s)
             \/ Throw
      BY <1>8, CallHandlerCases DEF IInv
    <2>2. SocketsOnward
      BY <2>1 DEF SocketsOnward
    <2>3. CASE Advance /\ NoChange
      BY <2>1, <2>2, <2>3, NoChangeKeeps DEF Progress
    <2>4. ASSUME NEW s \in Stub, Advance, Install(s, "plain")
          PROVE  HandlerInv'
      BY <2>1, <2>2, <2>4, InstallKeeps DEF Progress, Behaviour
    <2>5. ASSUME NEW s \in Stub, Advance, Drop(s)
          PROVE  HandlerInv'
      BY <2>1, <2>2, <2>5, DropKeeps DEF Progress
    <2>6. CASE Throw
      BY <2>1, <2>6, ThrowKeeps
    <2>. QED
      BY <2>1, <2>3, <2>4, <2>5, <2>6
  <1>9. ASSUME NEW l \in Listener,
               AddEventListener(l) \/ RemoveEventListener(l) \/ SetOnclose(l)
        PROVE  HandlerInv'
    <2>1. SocketsOnward /\ Progress /\ NoChange /\ UNCHANGED old
      BY <1>9 DEF SocketsOnward, Progress, NoChange, AddEventListener,
                  RemoveEventListener, SetOnclose, handlerVars, networkVars
    <2>. QED
      BY <2>1, NoChangeKeeps
  <1>10. CASE UNCHANGED vars
    <2>1. SocketsOnward /\ Progress /\ NoChange /\ UNCHANGED old
      BY <1>10 DEF SocketsOnward, Progress, NoChange, vars, handlerVars, networkVars
    <2>. QED
      BY <2>1, NoChangeKeeps
  <1>. QED
    BY <1>1, <1>2, <1>3, <1>4, <1>5, <1>6, <1>7, <1>8, <1>9, <1>10 DEF Next

\* A stub is in the list of its own connection, and those whose handlers are
\* still to be called are of the connection that is being closed.
LEMMA StubsStep == IInv /\ [Next]_vars => StubsOfConnection'
  <1> SUFFICES ASSUME IInv, [Next]_vars
               PROVE  StubsOfConnection'
    OBVIOUS
  <1>0. /\ socket \in [Connection -> SocketState]
        /\ stubs \in [Connection -> Seq(Stub)]
        /\ running \in [stubs : Seq(Stub), handlers : Seq(Handler)]
        /\ \A c \in Connection : \A s \in Range(stubs[c]) : s[1] = c
        /\ \A s \in Range(running.stubs) : socket[s[1]] = "closing"
        /\ \A s \in Stub : s[1] \in Connection
        /\ Range(running.stubs) \subseteq Stub
    BY BrowserAssumption, RangeFacts DEF IInv, Types, StubsOfConnection
  <1>1. Range(Idle.stubs) = {}
    BY DEF Idle, Range
  <1>2. ASSUME NEW c \in Connection,
               Connect(c) \/ Opened(c) \/ ConnectFails(c) \/ OnClose(c)
        PROVE  StubsOfConnection'
    <2>1. running = Idle /\ UNCHANGED <<stubs, running>>
      BY <1>2 DEF Connect, Opened, ConnectFails, OnClose, handlerVars
    <2>. QED
      BY <1>0, <1>1, <2>1 DEF StubsOfConnection
  <1>3. ASSUME NEW c \in Connection, OnError(c)
        PROVE  StubsOfConnection'
    <2>1. UNCHANGED stubs /\ running'.stubs = stubs[c] /\ socket'[c] = "closing"
      BY <1>0, <1>3 DEF OnError, ConnectionClose
    <2>. QED
      BY <1>0, <2>1 DEF StubsOfConnection
  <1>4. CASE Shutdown
    <2>1. running = Idle /\ UNCHANGED <<stubs, running>>
      BY <1>4 DEF Shutdown, handlerVars
    <2>. QED
      BY <1>0, <1>1, <2>1 DEF StubsOfConnection
  <1>5. ASSUME NEW s \in Stub, ReceiveStub(s)
        PROVE  StubsOfConnection'
    <2>1. /\ UNCHANGED <<running, socket>> /\ s[1] \in Connection
          /\ stubs' = [stubs EXCEPT ![s[1]] = Append(@, s)]
      BY <1>0, <1>5 DEF ReceiveStub, handlerVars
    <2>2. Range(Append(stubs[s[1]], s)) = Range(stubs[s[1]]) \cup {s}
      BY <1>0, <2>1, RangeFacts
    <2>3. \A c \in Connection : stubs'[c] = IF c = s[1] THEN Append(stubs[c], s) ELSE stubs[c]
      BY <1>0, <2>1
    <2>4. \A c \in Connection : \A t \in Range(stubs'[c]) : t[1] = c
      BY <1>0, <2>2, <2>3
    <2>. QED
      BY <1>0, <2>1, <2>4 DEF StubsOfConnection
  <1>6. CASE NextStub
    <2>1. /\ running'.stubs = Tail(running.stubs) /\ running.stubs # <<>>
          /\ UNCHANGED <<socket, stubs>>
      BY <1>0, <1>6 DEF NextStub, networkVars
    <2>2. Range(running'.stubs) \subseteq Range(running.stubs)
      BY <1>0, <2>1, RangeFacts
    <2>. QED
      BY <1>0, <2>1, <2>2 DEF StubsOfConnection
  <1>7. CASE CallHandler
    <2>1. UNCHANGED <<socket, stubs>> /\ (Advance \/ Throw)
      BY <1>7, CallHandlerCases DEF IInv
    <2>2. CASE Advance
      <3>1. running'.stubs = running.stubs
        BY <1>0, <2>2 DEF Advance
      <3>. QED
        BY <1>0, <2>1, <3>1 DEF StubsOfConnection
    <2>3. CASE Throw
      BY <1>0, <1>1, <2>1, <2>3 DEF Throw, StubsOfConnection
    <2>. QED
      BY <2>1, <2>2, <2>3
  <1>8. CASE UNCHANGED <<socket, stubs, running>>
    BY <1>0, <1>8 DEF StubsOfConnection
  <1>9. ASSUME NEW s \in Stub,
               Release(s) \/ \E b \in Behaviour : InstallSystemExceptionHandler(s, b)
        PROVE  UNCHANGED <<socket, stubs, running>>
    BY <1>9 DEF Release, InstallSystemExceptionHandler, networkVars
  <1>10. ASSUME NEW l \in Listener,
                AddEventListener(l) \/ RemoveEventListener(l) \/ SetOnclose(l)
         PROVE  UNCHANGED <<socket, stubs, running>>
    BY <1>10 DEF AddEventListener, RemoveEventListener, SetOnclose, handlerVars, networkVars
  <1>11. UNCHANGED vars => UNCHANGED <<socket, stubs, running>>
    BY DEF vars, handlerVars, networkVars
  <1>. QED
    BY <1>2, <1>3, <1>4, <1>5, <1>6, <1>7, <1>8, <1>9, <1>10, <1>11 DEF Next

LEMMA ListedStep == IInv /\ [Next]_vars => ListedNotClosed'
  <1> SUFFICES ASSUME IInv, [Next]_vars
               PROVE  ListedNotClosed'
    OBVIOUS
  <1>0. /\ socket \in [Connection -> SocketState] /\ connections \subseteq Connection
        /\ \A c \in connections : socket[c] \in {"open", "closing"}
    BY DEF IInv, Types, ListedNotClosed
  <1>1. ASSUME NEW c \in Connection,
               Connect(c) \/ Opened(c) \/ ConnectFails(c) \/ OnError(c)
        PROVE  ListedNotClosed'
    BY <1>0, <1>1 DEF Connect, Opened, ConnectFails, OnError, ListedNotClosed
  <1>2. ASSUME NEW c \in Connection, OnClose(c)
        PROVE  ListedNotClosed'
    BY <1>0, <1>2 DEF OnClose, SocketClosed, ListedNotClosed
  <1>3. CASE Shutdown
    BY <1>3 DEF Shutdown, ListedNotClosed
  <1>4. CASE UNCHANGED <<socket, connections>>
    BY <1>0, <1>4 DEF ListedNotClosed
  <1>5. ASSUME NEW s \in Stub,
               \/ ReceiveStub(s) \/ Release(s)
               \/ \E b \in Behaviour : InstallSystemExceptionHandler(s, b)
        PROVE  UNCHANGED <<socket, connections>>
    BY <1>5 DEF ReceiveStub, Release, InstallSystemExceptionHandler, networkVars
  <1>6. NextStub \/ CallHandler => UNCHANGED <<socket, connections>>
    BY DEF NextStub, CallHandler, networkVars
  <1>7. ASSUME NEW l \in Listener,
               AddEventListener(l) \/ RemoveEventListener(l) \/ SetOnclose(l)
        PROVE  UNCHANGED <<socket, connections>>
    BY <1>7 DEF AddEventListener, RemoveEventListener, SetOnclose, networkVars
  <1>8. UNCHANGED vars => UNCHANGED <<socket, connections>>
    BY DEF vars, networkVars
  <1>. QED
    BY <1>1, <1>2, <1>3, <1>4, <1>5, <1>6, <1>7, <1>8 DEF Next

\* What is late is called next, or gone.
LEMMA LateStep == IInv /\ [Next]_vars => LateTold'
  <1> SUFFICES ASSUME IInv, [Next]_vars
               PROVE  LateTold'
    OBVIOUS
  <1>0. late \subseteq Told \cup Waiting \cup gone
    BY DEF IInv, LateTold
  <1>1. ASSUME UNCHANGED <<running, called, late>>, gone \subseteq gone'
        PROVE  LateTold'
    BY <1>0, <1>1 DEF LateTold, Told, Waiting
  <1>2. ASSUME running.handlers = <<>>, UNCHANGED <<called, late, gone>>
        PROVE  LateTold'
    <2>1. Waiting = {}
      BY <1>2 DEF Waiting, Ids
    <2>. QED
      BY <1>0, <1>2, <2>1 DEF LateTold, Told
  <1>3. ASSUME NEW c \in Connection,
               Connect(c) \/ Opened(c) \/ ConnectFails(c) \/ OnClose(c)
        PROVE  LateTold'
    BY <1>1, <1>3 DEF Connect, Opened, ConnectFails, OnClose, handlerVars
  <1>4. ASSUME NEW c \in Connection, OnError(c)
        PROVE  LateTold'
    BY <1>2, <1>4 DEF OnError, Idle
  <1>5. CASE NextStub
    BY <1>2, <1>5 DEF NextStub
  <1>6. CASE CallHandler
    <2>1. /\ late' \subseteq late \cup Waiting'
          /\ \/ Advance /\ gone \subseteq gone'
             \/ Throw
      BY <1>6, CallHandlerCases, CallHandlerLate DEF IInv, NoChange, Install, Drop
    <2>2. CASE Advance /\ gone \subseteq gone'
      BY <1>0, <2>1, <2>2, ProgressLists DEF Progress, LateTold
    <2>3. CASE Throw
      <3>1. Waiting = {running.handlers[1].id} \cup Ids(Tail(running.handlers))
        BY <2>3, AdvancedLists DEF Throw
      <3>2. Told' = Told \cup {running.handlers[1].id}
        BY <2>3, AdvancedLists DEF Throw
      <3>3. Waiting' = {} /\ gone \cup Ids(Tail(running.handlers)) \subseteq gone'
        BY <2>3 DEF Throw, Idle, Waiting, Ids
      <3>. QED
        BY <1>0, <2>1, <3>1, <3>2, <3>3 DEF LateTold
    <2>. QED
      BY <2>1, <2>2, <2>3
  <1>7. ASSUME NEW s \in Stub,
               \/ ReceiveStub(s) \/ Release(s)
               \/ \E b \in Behaviour : InstallSystemExceptionHandler(s, b)
        PROVE  LateTold'
    BY <1>1, <1>7 DEF ReceiveStub, Release, InstallSystemExceptionHandler, handlerVars
  <1>8. ASSUME NEW l \in Listener,
               AddEventListener(l) \/ RemoveEventListener(l) \/ SetOnclose(l)
        PROVE  LateTold'
    BY <1>1, <1>8 DEF AddEventListener, RemoveEventListener, SetOnclose, handlerVars
  <1>9. Shutdown \/ UNCHANGED vars => LateTold'
    BY <1>1 DEF Shutdown, vars, handlerVars
  <1>. QED
    BY <1>3, <1>4, <1>5, <1>6, <1>7, <1>8, <1>9 DEF Next

LEMMA UntoldKept ==
    ASSUME IInv, UNCHANGED untold,
           Told' \cup Waiting' \subseteq Told \cup Waiting,
           installs' \in Nat, installs <= installs',
           \A s \in Stub : Listed(s)' \cap untold \subseteq Listed(s),
           \A c \in Connection : socket[c] = "closed" => socket'[c] = "closed"
    PROVE  UntoldOfClosed'
  <1>1. \A n \in untold : n \in Nat /\ n <= installs'
    <2>1. installs \in Nat
      BY DEF IInv, Types
    <2>. QED
      BY <2>1 DEF IInv, UntoldOfClosed
  <1>2. ASSUME NEW s \in Stub, Listed(s)' \cap untold # {}
        PROVE  socket'[s[1]] = "closed"
    BY <1>2, BrowserAssumption DEF IInv, UntoldOfClosed
  <1>3. untold \cap (Told' \cup Waiting') = {}
    BY DEF IInv, UntoldOfClosed
  <1>. QED
    BY <1>1, <1>2, <1>3 DEF UntoldOfClosed

\* The step of installing or releasing a handler, or of calling the next one.
LEMMA UntoldByHandlers ==
    ASSUME IInv, UNCHANGED <<socket, untold>>, Progress \/ Throw,
           \/ NoChange \/ Throw
           \/ \E s \in Stub : \E b \in Behaviour : Install(s, b)
           \/ \E s \in Stub : Drop(s)
    PROVE  UntoldOfClosed'
  <1>1. Told' \cup Waiting' \subseteq Told \cup Waiting
    <2>1. CASE Progress
      BY <2>1, ProgressLists
    <2>2. CASE Throw
      <3>1. /\ Told' = Told \cup {running.handlers[1].id}
            /\ running.handlers[1].id \in Waiting
        BY <2>2, AdvancedLists DEF Throw
      <3>2. Waiting' = {}
        BY <2>2 DEF Throw, Idle, Waiting, Ids
      <3>. QED
        BY <3>1, <3>2
    <2>. QED
      BY <2>1, <2>2
  <1>2. /\ installs \in Nat
        /\ \A n \in untold : n \in Nat /\ n <= installs
    BY DEF IInv, Types, UntoldOfClosed
  <1>3. CASE NoChange \/ Throw
    <2>1. UNCHANGED <<handlers, installs>>
      BY <1>3 DEF NoChange, Throw
    <2>. QED
      BY <1>1, <1>2, <2>1, UntoldKept DEF Listed
  <1>4. ASSUME NEW s \in Stub, NEW b \in Behaviour, Install(s, b)
        PROVE  UntoldOfClosed'
    <2>1. /\ installs' = installs + 1
          /\ Listed(s)' = Listed(s) \cup {installs + 1}
          /\ \A t \in Stub : t # s => Listed(t)' = Listed(t)
      BY <1>4, InstalledLists
    <2>2. installs + 1 \notin untold /\ installs' \in Nat /\ installs <= installs'
      BY <1>2, <2>1
    <2>3. \A t \in Stub : Listed(t)' \cap untold \subseteq Listed(t)
      BY <2>1, <2>2
    <2>. QED
      BY <1>1, <2>2, <2>3, UntoldKept
  <1>5. ASSUME NEW s \in Stub, Drop(s)
        PROVE  UntoldOfClosed'
    <2>1. /\ Listed(s)' = {}
          /\ \A t \in Stub : t # s => Listed(t)' = Listed(t)
      BY <1>5, ReleasedLists DEF Drop
    <2>2. \A t \in Stub : Listed(t)' \cap untold \subseteq Listed(t)
      BY <2>1
    <2>3. UNCHANGED installs
      BY <1>5 DEF Drop
    <2>. QED
      BY <1>1, <1>2, <2>2, <2>3, UntoldKept
  <1>. QED
    BY <1>3, <1>4, <1>5

\* What was not told at the close of its connection is not told later: only the
\* stubs of a connection that fails are gone through, and that one is not closed.
LEMMA UntoldStep == IInv /\ [Next]_vars => UntoldOfClosed'
  <1> SUFFICES ASSUME IInv, [Next]_vars
               PROVE  UntoldOfClosed'
    OBVIOUS
  <1>0. /\ socket \in [Connection -> SocketState] /\ installs \in Nat
        /\ \A c \in Connection : Range(stubs[c]) \subseteq Stub
    BY RangeFacts DEF IInv, Types
  <1>1. ASSUME UNCHANGED <<running, called, handlers, installs, untold>>,
               \A c \in Connection : socket[c] = "closed" => socket'[c] = "closed"
        PROVE  UntoldOfClosed'
    BY <1>0, <1>1, UntoldKept DEF Told, Waiting, Listed
  <1>2. ASSUME NEW c \in Connection, Connect(c) \/ Opened(c) \/ ConnectFails(c)
        PROVE  UntoldOfClosed'
    BY <1>0, <1>1, <1>2 DEF Connect, Opened, ConnectFails, handlerVars
  <1>3. ASSUME NEW c \in Connection, OnError(c)
        PROVE  UntoldOfClosed'
    <2>1. /\ running = Idle /\ running'.handlers = <<>>
          /\ UNCHANGED <<called, handlers, installs, untold>>
          /\ socket' = [socket EXCEPT ![c] = "closing"] /\ socket[c] = "open"
      BY <1>3 DEF OnError, ConnectionClose
    <2>2. Told' = Told /\ Waiting' = {} /\ \A s \in Stub : Listed(s)' = Listed(s)
      BY <2>1 DEF Told, Waiting, Ids, Listed
    <2>. QED
      BY <1>0, <2>1, <2>2, UntoldKept
  <1>4. ASSUME NEW c \in Connection, OnClose(c)
        PROVE  UntoldOfClosed'
    <2>1. /\ running = Idle
          /\ UNCHANGED <<running, called, handlers, installs>>
          /\ socket' = [socket EXCEPT ![c] = "closed"]
          /\ untold' = untold \/ untold' = untold \cup HandlersOf(c)
      BY <1>4 DEF OnClose
    <2>2. CASE untold' = untold
      BY <1>0, <1>1, <2>1, <2>2
    <2>3. CASE untold' = untold \cup HandlersOf(c)
      <3>1. \A n \in HandlersOf(c) : \E s \in Range(stubs[c]) : n \in Listed(s)
        BY DEF HandlersOf, Listed
      <3>2. Told' = Told /\ Waiting' = {} /\ \A s \in Stub : Listed(s)' = Listed(s)
        BY <2>1 DEF Told, Waiting, Ids, Listed, Idle
      <3>3. HandlersOf(c) \cap Told = {}
        BY <1>0, <3>1 DEF IInv, HandlerInv, NotYetCalled
      <3>4. \A n \in HandlersOf(c) : n \in Nat /\ n <= installs
        <4>1. \A s \in Stub : Listed(s) \subseteq Nat
          BY IdsFacts DEF IInv, Types, Listed
        <4>. QED
          BY <1>0, <3>1, <4>1 DEF IInv, HandlerInv, Counted
      <3>5. ASSUME NEW s \in Stub, Listed(s) \cap HandlersOf(c) # {}
            PROVE  s[1] = c
        <4>1. s \in Range(stubs[c])
          BY <1>0, <3>1, <3>5 DEF IInv, HandlerInv, ListedOnce
        <4>. QED
          BY <4>1 DEF IInv, StubsOfConnection
      <3>6. ASSUME NEW s \in Stub, Listed(s) \cap untold' # {}
            PROVE  socket'[s[1]] = "closed"
        BY <1>0, <2>1, <2>3, <3>5, <3>6, BrowserAssumption DEF IInv, UntoldOfClosed
      <3>7. /\ untold' \cap Told = {}
            /\ \A n \in untold' : n \in Nat /\ n <= installs
        BY <2>3, <3>3, <3>4 DEF IInv, UntoldOfClosed
      <3>. QED
        BY <2>1, <3>2, <3>6, <3>7 DEF UntoldOfClosed
    <2>. QED
      BY <2>1, <2>2, <2>3
  <1>5. CASE Shutdown
    BY <1>0, <1>1, <1>5 DEF Shutdown, handlerVars
  <1>6. ASSUME NEW s \in Stub, ReceiveStub(s)
        PROVE  UntoldOfClosed'
    BY <1>1, <1>6 DEF ReceiveStub, handlerVars
  <1>7. ASSUME NEW s \in Stub, Release(s)
        PROVE  UntoldOfClosed'
    <2>1. Progress /\ Drop(s) /\ UNCHANGED <<socket, untold>>
      BY <1>7 DEF Progress, Drop, Release, networkVars
    <2>. QED
      BY <2>1, UntoldByHandlers
  <1>8. ASSUME NEW s \in Stub, NEW b \in Behaviour, InstallSystemExceptionHandler(s, b)
        PROVE  UntoldOfClosed'
    <2>1. Progress /\ Install(s, b) /\ UNCHANGED <<socket, untold>>
      BY <1>8 DEF Progress, Install, InstallSystemExceptionHandler, networkVars
    <2>. QED
      BY <2>1, UntoldByHandlers
  <1>9. CASE NextStub
    <2>1. PICK s \in Stub : s = Head(running.stubs)
      BY <1>9, RangeFacts DEF NextStub, IInv, Types
    <2>2. /\ running.handlers = <<>> /\ running.stubs # <<>>
          /\ running'.handlers = handlers[s]
          /\ handlers' = ReleaseObject(handlers, s)
          /\ UNCHANGED <<socket, called, installs, untold>>
      BY <1>9, <2>1 DEF NextStub, TakeHandlers, ReleaseObject, networkVars
    <2>3. socket[s[1]] = "closing"
      <3>1. s \in Range(running.stubs)
        BY <2>1, <2>2, RangeFacts DEF IInv, Types
      <3>. QED
        BY <3>1 DEF IInv, StubsOfConnection
    <2>4. Listed(s) \cap untold = {}
      BY <2>3 DEF IInv, UntoldOfClosed
    <2>5. /\ Listed(s)' = {}
          /\ \A t \in Stub : t # s => Listed(t)' = Listed(t)
      BY <2>2, ReleasedLists
    <2>6. Waiting' = Listed(s) /\ Told' = Told
      BY <2>2 DEF Waiting, Listed, Told
    <2>. QED
      BY <2>2, <2>4, <2>5, <2>6 DEF IInv, UntoldOfClosed
  <1>10. CASE CallHandler
    <2>1. /\ UNCHANGED <<socket, untold>>
          /\ Progress \/ Throw
          /\ \/ NoChange \/ Throw
             \/ \E s \in Stub : \E b \in Behaviour : Install(s, b)
             \/ \E s \in Stub : Drop(s)
      BY <1>10, CallHandlerCases DEF IInv, Progress, Behaviour
    <2>. QED
      BY <2>1, UntoldByHandlers
  <1>11. ASSUME NEW l \in Listener,
                AddEventListener(l) \/ RemoveEventListener(l) \/ SetOnclose(l)
         PROVE  UntoldOfClosed'
    BY <1>1, <1>11
    DEF AddEventListener, RemoveEventListener, SetOnclose, handlerVars, networkVars
  <1>12. UNCHANGED vars => UntoldOfClosed'
    BY <1>1 DEF vars, handlerVars, networkVars
  <1>. QED
    BY <1>2, <1>3, <1>4, <1>5, <1>6, <1>7, <1>8, <1>9, <1>10, <1>11, <1>12 DEF Next

LEMMA InvStep == IInv /\ [Next]_vars => IInv'
  BY TypesStep, ListedStep, StubsStep, HandlerStep, LateStep, UntoldStep DEF IInv

(***************************************************************************)
(* The invariant holds in every state, for all connections, stubs and      *)
(* handlers, whatever the order in which sockets fail and close            *)
(* (browser.ts:107-132, orb.ts:237-247, orb.ts:718).                       *)
(***************************************************************************)
THEOREM InvHolds == Spec => []IInv
  BY InitInv, InvStep, PTL DEF Spec

-----------------------------------------------------------------------------
(***************************************************************************)
(* When the event of a connection that failed has been handled, whoever    *)
(* had asked to hear of it has been told, has been released, or is lost to *)
(* the throw of another (orb.ts:237-247); and whoever had asked to hear of *)
(* a connection that the other side then closed is never told, neither by  *)
(* that event nor by a later one (browser.ts:132).                         *)
(***************************************************************************)
THEOREM EveryHandlerIsTold == Spec => []AllTold
  <1>1. IInv => AllTold
    <2>1. IInv /\ running = Idle => old \subseteq Told \cup gone
      BY DEF IInv, HandlerInv, StillToBeTold, Idle, Waiting, Ids, Range
    <2>2. IInv => untold \cap Told = {}
      BY DEF IInv, UntoldOfClosed
    <2>. QED
      BY <2>1, <2>2 DEF AllTold, Told
  <1>. QED
    BY <1>1, InvHolds, PTL

(***************************************************************************)
(* No handler is called twice, and none after its object was released,     *)
(* except those that a handler of their own object releases while they     *)
(* wait for their turn: these are called, or a throw costs them their call *)
(* (orb.ts:240-244, orb.ts:789-791).                                       *)
(***************************************************************************)
THEOREM HandlersCalledOnce == Spec => []CalledOnce
  <1>1. IInv => CalledOnce
    <2>1. IInv => CalledAtMostOnce
      BY DEF IInv, HandlerInv
    <2>2. IInv /\ running = Idle => late \subseteq Told \cup gone
      BY DEF IInv, LateTold, Idle, Waiting, Ids
    <2>. QED
      BY <2>1, <2>2 DEF CalledOnce, CalledAtMostOnce, Told
  <1>. QED
    BY <1>1, InvHolds, PTL

(***************************************************************************)
(* What a lookup finds in the ORB's list is not closed (orb.ts:718,        *)
(* browser.ts:107-132).                                                    *)
(***************************************************************************)
THEOREM ListHasNoClosed == Spec => []ListedNotClosed
  <1>1. IInv => ListedNotClosed
    BY DEF IInv
  <1>. QED
    BY <1>1, InvHolds, PTL

=============================================================================
