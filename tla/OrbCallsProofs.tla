--------------------------- MODULE OrbCallsProofs ---------------------------
(***************************************************************************)
(* The call path keeps its promises for any set of calls and of servants,  *)
(* over either kind of transport, and however often connections are lost:  *)
(* proofs of the invariants of OrbCalls and of its refinement.             *)
(***************************************************************************)
EXTENDS OrbCalls, TLAPS

\* Every id handed out is below the counter, and no two calls of a side share
\* one.
Numbered ==
    /\ \A c \in Call : promise[c] # "none" =>
           NextRequestId(id[c]) <= requestId[c.caller]
    /\ \A c, d \in Call : /\ promise[c] # "none" /\ promise[d] # "none"
                          /\ c.caller = d.caller
                          /\ id[c] = id[d]
                          => c = d

IdsTaken ==
    /\ Numbered
    /\ \A c \in Call : promise[c] = "none" => finished[c] = "no"

\* A handler belongs to the call of its side that was given its id.
HandlersOK ==
    \A s \in Side : \A i \in DOMAIN pendingReplies[s] :
        LET c == pendingReplies[s][i] IN
        c.caller = s /\ c.twoway /\ id[c] = i /\ promise[c] # "none"

\* What the caller believes of a call that is still on its way.
Waiting(c) == promise[c] = IF c.twoway THEN "pending" ELSE "oneway"

RequestsOK ==
    \A s \in Side : \A k \in DOMAIN channel[s] :
        LET m == channel[s][k] IN m.type = "REQUEST" =>
            /\ m.call.caller = s
            /\ m.id = WireId(id[m.call])
            /\ m.responseExpected = m.call.twoway
            /\ Waiting(m.call)
            /\ finished[m.call] = "no"

RunningOK ==
    \A s \in Side : \A a \in running[s] :
        /\ a.call.caller = Peer(s)
        /\ a.call.method \in {"operation", "setter"}
        /\ a.id = WireId(id[a.call])
        /\ a.responseExpected = a.call.twoway
        /\ Waiting(a.call)
        /\ finished[a.call] # "no"

RepliesOK ==
    \A s \in Side : \A k \in DOMAIN channel[s] :
        LET m == channel[s][k] IN m.type = "REPLY" =>
            /\ m.call.caller = Peer(s)
            /\ m.id = WireId(id[m.call])
            /\ m.call.twoway \/ m.call.method = "_is_a"
            /\ Waiting(m.call)
            /\ m.result = "value" => Remote!Successful(m.call)
            /\ m.result = "exception" => Remote!Unsuccessful(m.call)

\* A call is at one place at a time: in one message, or in one activation.
OneMessage ==
    \A s \in Side : \A j, k \in DOMAIN channel[s] :
        channel[s][j].call = channel[s][k].call => j = k

ReplyAlone ==
    \A s \in Side : \A k \in DOMAIN channel[s] : channel[s][k].type = "REPLY" =>
        /\ \A a \in running[s] : a.call # channel[s][k].call
        /\ \A j \in DOMAIN channel[Peer(s)] :
               channel[Peer(s)][j].call # channel[s][k].call

RunningOnce ==
    \A s \in Side : \A a, b \in running[s] : a.call = b.call => a = b

\* What callers know agrees with what happened.
KnownOK ==
    \A c \in Call :
        /\ executed[c] = IF finished[c] \in {"no", "badArguments"} THEN 0 ELSE 1
        /\ promise[c] = "resolved" => Remote!Successful(c)
        /\ promise[c] = "rejected" => Remote!Unsuccessful(c)

\* What HandlerKept rests on, also once ids have outgrown the wire.
HandlerInv == Numbered /\ HandlersOK /\ HandlerKept

IInv ==
    /\ IdsTaken
    /\ HandlersOK
    /\ HandlerKept
    /\ RequestsOK
    /\ RunningOK
    /\ RepliesOK
    /\ OneMessage
    /\ ReplyAlone
    /\ RunningOnce
    /\ KnownOK

-----------------------------------------------------------------------------
LEMMA PeerFacts ==
    \A s \in Side : Peer(s) \in Side /\ Peer(s) # s /\ Peer(Peer(s)) = s
  BY DEF Side, Peer

LEMMA MessageType ==
    ASSUME NEW n \in Nat, NEW e \in BOOLEAN, NEW c \in Call,
           NEW r \in {"value", "exception"}
    PROVE  /\ [type |-> "REQUEST", id |-> n, responseExpected |-> e, call |-> c]
                  \in Request \cup Reply
           /\ [type |-> "REPLY", id |-> n, result |-> r, call |-> c]
                  \in Request \cup Reply
  BY DEF Request, Reply

\* What is left of a channel after an event are the messages behind the first n.
LEMMA UnreadFacts ==
    ASSUME TypeOK, NEW s \in Side, NEW n \in 1 .. Len(Incoming(s))
    PROVE  /\ Incoming(s) = channel[Peer(s)]
           /\ Incoming(s) \in Seq(Request \cup Reply)
           /\ Unread(s, n) \in Seq(Request \cup Reply)
           /\ Head(Incoming(s)) = Incoming(s)[1]
           /\ Head(Incoming(s)) \in Request \cup Reply
           /\ 1 \in DOMAIN Incoming(s)
           /\ \A k \in DOMAIN Unread(s, n) :
                  /\ k + n \in DOMAIN Incoming(s)
                  /\ k + n # 1
                  /\ Unread(s, n)[k] = Incoming(s)[k + n]
  <1>1. Peer(s) \in Side
    BY PeerFacts
  <1>2. Incoming(s) \in Seq(Request \cup Reply)
    BY <1>1 DEF TypeOK, Incoming
  <1>. QED
    BY <1>1, <1>2 DEF Incoming, Unread

-----------------------------------------------------------------------------
(***************************************************************************)
(* Type correctness.                                                       *)
(***************************************************************************)
LEMMA SentType ==
    ASSUME TypeOK, NEW s \in Side, NEW m \in Request \cup Reply
    PROVE  Sent(s, m) \in [Side -> Seq(Request \cup Reply)]
  BY DEF TypeOK, Sent

LEMMA AnsweredType ==
    ASSUME TypeOK, NEW s \in Side, NEW n \in 1 .. Len(Incoming(s)),
           NEW m \in Request \cup Reply
    PROVE  /\ Answered(s, n, m) \in [Side -> Seq(Request \cup Reply)]
           /\ Consumed(s, n) \in [Side -> Seq(Request \cup Reply)]
  <1>1. Unread(s, n) \in Seq(Request \cup Reply)
    BY UnreadFacts
  <1>2. Peer(s) \in Side /\ Peer(s) # s
    BY PeerFacts
  <1>3. Append(channel[s], m) \in Seq(Request \cup Reply)
    BY DEF TypeOK
  <1>4. channel \in [Side -> Seq(Request \cup Reply)]
    BY DEF TypeOK
  <1>. QED
    BY <1>1, <1>2, <1>3, <1>4, Zenon DEF Answered, Consumed

LEMMA InitType == Init => TypeOK
  BY CallAssumption, OrbAssumption
  DEF Init, TypeOK, InitialRequestId, Side

LEMMA TypeStep == TypeOK /\ [Next]_vars => TypeOK'
  <1> SUFFICES ASSUME TypeOK, [Next]_vars
               PROVE  TypeOK'
    OBVIOUS
  <1> USE CallAssumption, OrbAssumption
  <1>wire. \A i \in Nat : WireId(i) \in Nat
    BY DEF WireId
  <1>1. ASSUME NEW c \in Call, NEW p \in Call \cup {NoCall}, TwowayCall(c, p)
        PROVE  TypeOK'
    <2>1. requestId[c.caller] \in Nat /\ c.caller \in Side
      BY DEF TypeOK
    <2>2. RequestOf(c) \in Request \cup Reply
      BY <1>wire, <2>1 DEF RequestOf, Request
    <2>3. channel' \in [Side -> Seq(Request \cup Reply)]
      BY <1>1, <2>1, <2>2, SentType DEF TwowayCall, TypeOK
    <2>4. requestId' \in [Side -> Nat] /\ id' \in [Call -> Nat]
      BY <1>1, <2>1 DEF TwowayCall, TakeRequestId, NextRequestId, TypeOK
    <2>5. \A s \in Side : /\ DOMAIN pendingReplies'[s] \subseteq Nat
                          /\ \A i \in DOMAIN pendingReplies'[s] :
                                 pendingReplies'[s][i] \in Call
      BY <1>1, <2>1 DEF TwowayCall, MapSet, TypeOK
    <2>. QED
      BY <1>1, <2>3, <2>4, <2>5, Zenon DEF TwowayCall, TypeOK
  <1>2. ASSUME NEW c \in Call, OnewayCall(c)
        PROVE  TypeOK'
    <2>1. requestId[c.caller] \in Nat /\ c.caller \in Side
      BY DEF TypeOK
    <2>2. RequestOf(c) \in Request \cup Reply
      BY <1>wire, <2>1 DEF RequestOf, Request
    <2>3. channel' \in [Side -> Seq(Request \cup Reply)]
      BY <1>2, <2>1, <2>2, SentType DEF OnewayCall, TypeOK
    <2>4. requestId' \in [Side -> Nat] /\ id' \in [Call -> Nat]
      BY <1>2, <2>1 DEF OnewayCall, TakeRequestId, NextRequestId, TypeOK
    <2>. QED
      BY <1>2, <2>3, <2>4, Zenon DEF OnewayCall, TypeOK
  <1>3. ASSUME NEW s \in Side, NEW o \in Object, UnregisterServant(s, o)
        PROVE  TypeOK'
    BY <1>3 DEF UnregisterServant, TypeOK
  <1>4. ASSUME NEW s \in Side, SocketClosed(s) \/ SocketError(s)
        PROVE  TypeOK'
    <2>1. <<>> \in Seq(Request \cup Reply)
      OBVIOUS
    <2>2. channel' \in [Side -> Seq(Request \cup Reply)]
      BY <1>4, <2>1, ZenonT(40) DEF SocketClosed, SocketError, Abort, TypeOK
    <2>3. socket' \in [Side -> {"open", "closed", "crashed"}]
      BY <1>4, Zenon DEF SocketClosed, SocketError, Abort, TypeOK
    <2>. QED
      BY <1>4, <2>2, <2>3 DEF SocketClosed, SocketError, TypeOK
  <1>5. ASSUME NEW c \in Call, ImplementationDone(c)
        PROVE  TypeOK'
    BY <1>5 DEF ImplementationDone, TypeOK
  <1>9. ASSUME NEW c \in Call, UnhandledRejection(c)
        PROVE  TypeOK'
    <2>1. channel' \in [Side -> Seq(Request \cup Reply)]
      <3>1. <<>> \in Seq(Request \cup Reply)
        OBVIOUS
      <3>. QED
        BY <1>9, <3>1, Zenon DEF UnhandledRejection, Abort, TypeOK
    <2>2. socket' \in [Side -> {"open", "closed", "crashed"}]
      BY <1>9, Zenon DEF UnhandledRejection, Abort, TypeOK
    <2>. QED
      BY <1>9, <2>1, <2>2 DEF UnhandledRejection, TypeOK
  <1>6. ASSUME NEW s \in Side, NEW a \in running[s],
               MethodResolves(s, a) \/ MethodRejects(s, a)
        PROVE  TypeOK'
    <2>1. PICK result \in {"value", "exception"} : Complete(s, a, result)
      BY <1>6 DEF MethodResolves, MethodRejects
    <2>2. a \in Activation
      BY DEF TypeOK
    <2>3. ReplyTo(a, result) \in Request \cup Reply
      BY <2>2 DEF ReplyTo, Activation, Reply
    <2>4. channel' \in [Side -> Seq(Request \cup Reply)]
      BY <2>1, <2>3, SentType, Zenon DEF Complete, TypeOK
    <2>. QED
      BY <2>1, <2>4 DEF Complete, TypeOK
  <1>7. ASSUME NEW s \in Side, SocketRcvd(s)
        PROVE  TypeOK'
    <2> PICK n \in 1 .. Len(Incoming(s)) :
            \/ ObjectNotExist(s, n) \/ NoPermission(s, n)
            \/ BadOperation(s, n) \/ IsA(s, n) \/ Dispatch(s, n)
            \/ ReceiveReply(s, n) \/ UnexpectedReply(s, n)
      BY <1>7 DEF SocketRcvd
    <2> DEFINE m == Head(Incoming(s))
    <2>1. m \in Request \cup Reply
      BY UnreadFacts
    <2>2. /\ m.id \in Nat /\ m.call \in Call
          /\ m.type = "REQUEST" => m.responseExpected \in BOOLEAN
      BY <2>1 DEF Request, Reply
    <2>3. \A r \in {"value", "exception"} : ReplyTo(m, r) \in Request \cup Reply
      BY <2>2 DEF ReplyTo, Reply
    <2>4. Consumed(s, n) \in [Side -> Seq(Request \cup Reply)]
      BY <2>1, AnsweredType
    <2>5. \A r \in {"value", "exception"} :
              Answered(s, n, ReplyTo(m, r)) \in [Side -> Seq(Request \cup Reply)]
      BY <2>3, AnsweredType
    <2>lost. swallowed' \in SUBSET Call
      <3>1. swallowed' = swallowed \cup {Incoming(s)[k].call : k \in 2 .. n}
        BY DEF ObjectNotExist, NoPermission, BadOperation, IsA, Dispatch, ReceiveReply,
               UnexpectedReply, Asks, DataEvent
      <3>2. \A k \in 2 .. n : Incoming(s)[k].call \in Call
        <4>1. Incoming(s) \in Seq(Request \cup Reply)
          BY UnreadFacts
        <4>2. \A k \in 2 .. n : Incoming(s)[k] \in Request \cup Reply
          BY <4>1
        <4>. QED
          BY <4>2 DEF Request, Reply
      <3>. QED
        BY <3>1, <3>2 DEF TypeOK
    <2>6. CASE Refuse(s, n)
      <3>1. channel' \in [Side -> Seq(Request \cup Reply)]
        BY <2>4, <2>5, <2>6 DEF Refuse
      <3>. QED
        BY <2>lost, <2>6, <3>1, Zenon DEF Refuse, TypeOK
    <2>7. CASE IsA(s, n)
      BY <2>lost, <2>5, <2>7, Zenon DEF IsA, TypeOK
    <2>8. CASE Dispatch(s, n)
      <3>1. PICK call \in Call :
               /\ Asks(s, n, call)
               /\ running' = [running EXCEPT ![s] = @ \cup
                      {[id |-> m.id, responseExpected |-> m.responseExpected,
                        call |-> call]}]
               /\ \/ /\ executed' = [executed EXCEPT ![call] = @ + 1]
                     /\ finished' = [finished EXCEPT ![call] = "running"]
                  \/ /\ finished' = [finished EXCEPT ![call] = "badArguments"]
                     /\ UNCHANGED executed
        BY <2>8, Zenon DEF Dispatch
      <3>2. m.responseExpected \in BOOLEAN
        BY <2>2, <3>1 DEF Asks, DataEvent
      <3>3. running' \in [Side -> SUBSET Activation]
        BY <2>2, <3>1, <3>2 DEF Activation, TypeOK
      <3>4. /\ executed' \in [Call -> Nat]
            /\ finished' \in [Call -> {"no", "running", "returned", "threw",
                                      "badArguments"}]
        <4>1. executed \in [Call -> Nat] /\ executed[call] + 1 \in Nat
          BY DEF TypeOK
        <4>2. finished \in [Call -> {"no", "running", "returned", "threw",
                                    "badArguments"}]
          BY DEF TypeOK
        <4>3. executed' \in [Call -> Nat]
          BY <3>1, <4>1
        <4>. QED
          BY <3>1, <4>2, <4>3
      <3>. QED
        BY <2>lost, <2>4, <2>8, <3>3, <3>4, SMTT(30) DEF Dispatch, TypeOK
    <2>9. CASE ReceiveReply(s, n)
      <3>1. pendingReplies[s][m.id] \in Call
        BY <2>9 DEF ReceiveReply, TypeOK
      <3>2. promise' \in [Call -> {"none", "pending", "oneway", "resolved",
                                  "rejected", "failed"}]
        <4>1. PICK as \in {"resolved", "failed", "rejected"} :
                 promise' = Settled(pendingReplies[s][m.id], as)
          BY <2>9, Zenon DEF ReceiveReply
        <4>. QED
          BY <3>1, <4>1, Zenon DEF Settled, TypeOK
      <3>3. \A t \in Side : /\ DOMAIN pendingReplies'[t] \subseteq Nat
                            /\ \A i \in DOMAIN pendingReplies'[t] :
                                   pendingReplies'[t][i] \in Call
        BY <2>9 DEF ReceiveReply, MapDelete, TypeOK
      <3>. QED
        BY <2>lost, <2>4, <2>9, <3>2, <3>3, Zenon DEF ReceiveReply, TypeOK
    <2>10. CASE UnexpectedReply(s, n)
      BY <2>lost, <2>4, <2>10, Zenon DEF UnexpectedReply, TypeOK
    <2>. QED
      BY <2>6, <2>7, <2>8, <2>9, <2>10 DEF ObjectNotExist, NoPermission, BadOperation
  <1>8. CASE UNCHANGED vars
    BY <1>8 DEF vars, TypeOK
  <1>. QED
    BY <1>1, <1>2, <1>3, <1>4, <1>5, <1>6, <1>7, <1>8, <1>9
    DEF Next, Application, Network, MethodSettles

THEOREM TypeCorrect == Spec => []TypeOK
  BY InitType, TypeStep, PTL DEF Spec

-----------------------------------------------------------------------------
(***************************************************************************)
(* The inductive invariant.  A step drops drop[t] messages from the front  *)
(* of the channel of side t and appends at most one, m, to that of s.      *)
(***************************************************************************)
Moved(drop, s, m) ==
    \A t \in Side : \A k \in DOMAIN channel'[t] :
        \/ /\ k + drop[t] \in DOMAIN channel[t]
           /\ channel'[t][k] = channel[t][k + drop[t]]
        \/ /\ t = s
           /\ k + drop[t] = Len(channel[t]) + 1
           /\ channel'[t][k] = m

Dropped(drop) ==
    \A t \in Side : \A k \in DOMAIN channel'[t] :
        /\ k + drop[t] \in DOMAIN channel[t]
        /\ channel'[t][k] = channel[t][k + drop[t]]

NoDrop == [t \in Side |-> 0]
DropFor(s, n) == [t \in Side |-> IF t = Peer(s) THEN n ELSE 0]

LEMMA SentMoves ==
    ASSUME TypeOK, NEW s \in Side, NEW m, channel' = Sent(s, m)
    PROVE  Moved(NoDrop, s, m)
  <1> SUFFICES ASSUME NEW t \in Side, NEW k \in DOMAIN channel'[t]
               PROVE  \/ k \in DOMAIN channel[t] /\ channel'[t][k] = channel[t][k]
                      \/ t = s /\ k = Len(channel[t]) + 1 /\ channel'[t][k] = m
    BY DEF Moved, NoDrop, TypeOK
  <1>1. channel[t] \in Seq(Request \cup Reply)
    BY DEF TypeOK
  <1>2. channel'[t] = channel[t] \/ (t = s /\ channel'[t] = Append(channel[t], m))
    BY DEF Sent, TypeOK
  <1>. QED
    BY <1>1, <1>2

LEMMA AnsweredMoves ==
    ASSUME TypeOK, NEW s \in Side, NEW n \in 1 .. Len(Incoming(s)), NEW m,
           channel' = Answered(s, n, m)
    PROVE  Moved(DropFor(s, n), s, m)
  <1> SUFFICES ASSUME NEW t \in Side, NEW k \in DOMAIN channel'[t]
               PROVE  \/ /\ k + DropFor(s, n)[t] \in DOMAIN channel[t]
                         /\ channel'[t][k] = channel[t][k + DropFor(s, n)[t]]
                      \/ /\ t = s /\ k + DropFor(s, n)[t] = Len(channel[t]) + 1
                         /\ channel'[t][k] = m
    BY DEF Moved
  <1>1. channel[t] \in Seq(Request \cup Reply)
    BY DEF TypeOK
  <1>2. Peer(s) \in Side /\ Peer(s) # s
    BY PeerFacts
  <1>3. CASE t = Peer(s)
    <2>1. channel'[t] = Unread(s, n) /\ DropFor(s, n)[t] = n
      BY <1>2, <1>3 DEF Answered, DropFor, TypeOK
    <2>. QED
      BY <1>3, <2>1, UnreadFacts
  <1>4. CASE t # Peer(s)
    <2>1. t = s
      BY <1>4 DEF Side, Peer
    <2>2. channel'[t] = Append(channel[t], m) /\ DropFor(s, n)[t] = 0
      BY <1>2, <2>1 DEF Answered, DropFor, TypeOK
    <2>. QED
      BY <1>1, <2>1, <2>2
  <1>. QED
    BY <1>3, <1>4

LEMMA ConsumedMoves ==
    ASSUME TypeOK, NEW s \in Side, NEW n \in 1 .. Len(Incoming(s)),
           channel' = Consumed(s, n)
    PROVE  Dropped(DropFor(s, n))
  <1> SUFFICES ASSUME NEW t \in Side, NEW k \in DOMAIN channel'[t]
               PROVE  /\ k + DropFor(s, n)[t] \in DOMAIN channel[t]
                      /\ channel'[t][k] = channel[t][k + DropFor(s, n)[t]]
    BY DEF Dropped
  <1>1. channel[t] \in Seq(Request \cup Reply)
    BY DEF TypeOK
  <1>2. Peer(s) \in Side
    BY PeerFacts
  <1>3. CASE t = Peer(s)
    <2>1. channel'[t] = Unread(s, n) /\ DropFor(s, n)[t] = n
      BY <1>2, <1>3 DEF Consumed, DropFor, TypeOK
    <2>. QED
      BY <1>3, <2>1, UnreadFacts
  <1>4. CASE t # Peer(s)
    <2>1. channel'[t] = channel[t] /\ DropFor(s, n)[t] = 0
      BY <1>2, <1>4 DEF Consumed, DropFor, TypeOK
    <2>. QED
      BY <1>1, <2>1
  <1>. QED
    BY <1>3, <1>4

\* Any message is a request or a reply, and its call is still under way.
LEMMA UnderWay ==
    ASSUME TypeOK, IInv, NEW t \in Side, NEW k \in DOMAIN channel[t]
    PROVE  /\ channel[t][k].type \in {"REQUEST", "REPLY"}
           /\ channel[t][k].call \in Call
           /\ Waiting(channel[t][k].call)
           /\ channel[t][k].call.caller \in Side
  <1>1. channel[t][k] \in Request \cup Reply
    BY DEF TypeOK
  <1>. QED
    BY <1>1, CallAssumption DEF Request, Reply, IInv, RequestsOK, RepliesOK

LEMMA InitInv == Init => IInv
  BY CallAssumption DEF Init, IInv, IdsTaken, Numbered, HandlersOK, HandlerKept, RequestsOK,
     RunningOK, RepliesOK, OneMessage, ReplyAlone, RunningOnce, KnownOK

\* Messages and activations may vanish.
LEMMA DropKeeps ==
    ASSUME TypeOK, TypeOK', IInv, NEW drop \in [Side -> Nat], Dropped(drop),
           \A s \in Side : running'[s] \subseteq running[s],
           UNCHANGED <<requestId, pendingReplies, id, promise, executed, finished>>
    PROVE  IInv'
  <1>1. IdsTaken' /\ HandlersOK' /\ HandlerKept' /\ KnownOK'
    BY DEF IInv, IdsTaken, Numbered, HandlersOK, HandlerKept, KnownOK,
       Remote!Successful, Remote!Unsuccessful
  <1>2. RequestsOK' /\ RepliesOK'
    BY DEF IInv, RequestsOK, RepliesOK, Dropped, Waiting,
       Remote!Successful, Remote!Unsuccessful
  <1>3. RunningOK' /\ RunningOnce'
    BY DEF IInv, RunningOK, RunningOnce, Waiting
  <1>4. OneMessage'
    <2> SUFFICES ASSUME NEW t \in Side,
                        NEW j \in DOMAIN channel'[t], NEW k \in DOMAIN channel'[t],
                        channel'[t][j].call = channel'[t][k].call
                 PROVE  j = k
      BY DEF OneMessage
    <2>1. j + drop[t] = k + drop[t]
      BY DEF IInv, OneMessage, Dropped
    <2>2. channel'[t] \in Seq(Request \cup Reply)
      BY DEF TypeOK
    <2>. QED
      BY <2>1, <2>2
  <1>5. ReplyAlone'
    BY PeerFacts DEF IInv, ReplyAlone, Dropped
  <1>. QED
    BY <1>1, <1>2, <1>3, <1>4, <1>5 DEF IInv

\* A reply to a call that was under way, and is in no other message, may join.
LEMMA ReplyKeeps ==
    ASSUME TypeOK, TypeOK', IInv, NEW drop \in [Side -> Nat],
           NEW s \in Side, NEW m \in Reply, Moved(drop, s, m),
           m.call.caller = Peer(s),
           m.id = WireId(id[m.call]),
           m.call.twoway \/ m.call.method = "_is_a",
           Waiting(m.call),
           m.result = "value" => Remote!Successful(m.call),
           m.result = "exception" => Remote!Unsuccessful(m.call),
           \A a \in running'[s] : a.call # m.call,
           \A t \in Side : \A k \in DOMAIN channel'[t] :
               k + drop[t] \in DOMAIN channel[t] =>
                   channel[t][k + drop[t]].call # m.call,
           \A t \in Side : running'[t] \subseteq running[t],
           UNCHANGED <<requestId, pendingReplies, id, promise, executed, finished>>
    PROVE  IInv'
  <1>1. IdsTaken' /\ HandlersOK' /\ HandlerKept' /\ KnownOK'
    BY DEF IInv, IdsTaken, Numbered, HandlersOK, HandlerKept, KnownOK,
       Remote!Successful, Remote!Unsuccessful
  <1>2. RequestsOK'
    BY DEF IInv, RequestsOK, Moved, Waiting, Reply
  <1>3. RepliesOK'
    BY DEF IInv, RepliesOK, Moved, Waiting,
       Remote!Successful, Remote!Unsuccessful
  <1>4. RunningOK' /\ RunningOnce'
    BY DEF IInv, RunningOK, RunningOnce, Waiting
  <1>5. OneMessage'
    <2> SUFFICES ASSUME NEW t \in Side,
                        NEW j \in DOMAIN channel'[t], NEW k \in DOMAIN channel'[t],
                        channel'[t][j].call = channel'[t][k].call
                 PROVE  j = k
      BY DEF OneMessage
    <2>1. channel'[t] \in Seq(Request \cup Reply)
      BY DEF TypeOK
    <2>2. channel[t] \in Seq(Request \cup Reply)
      BY DEF TypeOK
    <2>3. j + drop[t] = k + drop[t]
      BY <2>2 DEF IInv, OneMessage, Moved
    <2>. QED
      BY <2>1, <2>3
  <1>6. ReplyAlone'
    <2> SUFFICES ASSUME NEW t \in Side, NEW k \in DOMAIN channel'[t],
                        channel'[t][k].type = "REPLY"
                 PROVE  /\ \A a \in running'[t] : a.call # channel'[t][k].call
                        /\ \A j \in DOMAIN channel'[Peer(t)] :
                               channel'[Peer(t)][j].call # channel'[t][k].call
      BY DEF ReplyAlone
    <2>1. Peer(t) \in Side /\ Peer(t) # t
      BY PeerFacts
    <2>2. CASE k + drop[t] \in DOMAIN channel[t] /\ channel'[t][k] = channel[t][k + drop[t]]
      BY <2>1, <2>2 DEF IInv, ReplyAlone, Moved
    <2>3. CASE t = s /\ channel'[t][k] = m
      BY <2>1, <2>3 DEF Moved
    <2>. QED
      BY <2>2, <2>3 DEF Moved
  <1>. QED
    BY <1>1, <1>2, <1>3, <1>4, <1>5, <1>6 DEF IInv

\* Making a call: a new id, below the counter, with a handler of its own.
LEMMA IssueHandlers ==
    ASSUME TypeOK, TypeOK', HandlerInv, NEW c \in Call,
           promise[c] = "none",
           TakeRequestId(c),
           \/ /\ pendingReplies' = [pendingReplies EXCEPT
                     ![c.caller] = MapSet(@, requestId[c.caller], c)]
              /\ c.twoway
           \/ pendingReplies' = pendingReplies /\ ~c.twoway,
           NEW p \in {"pending", "oneway", "failed"},
           p = "pending" => c.twoway,
           promise' = [promise EXCEPT ![c] = p]
    PROVE  HandlerInv'
  <1> DEFINE s == c.caller
  <1>1. s \in Side
    BY CallAssumption
  <1>2. /\ id'[c] = requestId[s]
        /\ \A d \in Call : d # c => id'[d] = id[d] /\ promise'[d] = promise[d]
        /\ requestId'[s] = NextRequestId(requestId[s])
        /\ \A t \in Side : requestId'[t] >= requestId[t]
        /\ promise'[c] = p
    BY <1>1 DEF TakeRequestId, NextRequestId, TypeOK
  <1>3. \A d \in Call : promise[d] # "none" /\ d.caller = s => id[d] # requestId[s]
    BY DEF HandlerInv, Numbered, NextRequestId, TypeOK
  <1>4. \A t \in Side : \A i \in DOMAIN pendingReplies[t] :
           pendingReplies[t][i] \in Call \ {c}
    BY DEF HandlerInv, HandlersOK, TypeOK
  <1>5. Numbered'
    <2>1. \A d \in Call : promise'[d] # "none" =>
             NextRequestId(id'[d]) <= requestId'[d.caller]
      <3> SUFFICES ASSUME NEW d \in Call, promise'[d] # "none"
                   PROVE  NextRequestId(id'[d]) <= requestId'[d.caller]
        OBVIOUS
      <3>1. CASE d = c
        BY <1>1, <1>2, <3>1 DEF NextRequestId, TypeOK
      <3>2. CASE d # c
        <4>1. NextRequestId(id[d]) <= requestId[d.caller] /\ d.caller \in Side
          BY <1>2, <3>2, CallAssumption DEF HandlerInv, Numbered
        <4>2. requestId'[d.caller] >= requestId[d.caller] /\ id'[d] = id[d]
          BY <1>2, <3>2, <4>1
        <4>3. id[d] \in Nat /\ requestId[d.caller] \in Nat /\ requestId'[d.caller] \in Nat
          BY <4>1 DEF TypeOK
        <4>. QED
          BY <4>1, <4>2, <4>3 DEF NextRequestId
      <3>. QED
        BY <3>1, <3>2
    <2>2. \A d, e \in Call : /\ promise'[d] # "none" /\ promise'[e] # "none"
                            /\ d.caller = e.caller
                            /\ id'[d] = id'[e]
                            => d = e
      BY <1>2, <1>3 DEF HandlerInv, Numbered
    <2>. QED
      BY <2>1, <2>2 DEF Numbered
  <1>6. \A t \in Side : \A i \in DOMAIN pendingReplies'[t] :
           \/ /\ i \in DOMAIN pendingReplies[t]
              /\ pendingReplies'[t][i] = pendingReplies[t][i]
           \/ t = s /\ i = requestId[s] /\ pendingReplies'[t][i] = c /\ c.twoway
    <2> SUFFICES ASSUME NEW t \in Side, NEW i \in DOMAIN pendingReplies'[t]
                 PROVE  \/ /\ i \in DOMAIN pendingReplies[t]
                           /\ pendingReplies'[t][i] = pendingReplies[t][i]
                        \/ /\ t = s /\ i = requestId[s]
                           /\ pendingReplies'[t][i] = c /\ c.twoway
      OBVIOUS
    <2>1. CASE pendingReplies' = pendingReplies
      BY <2>1
    <2>2. CASE pendingReplies' # pendingReplies
      <3>1. /\ c.twoway
            /\ pendingReplies'[s] = MapSet(pendingReplies[s], requestId[s], c)
            /\ t # s => pendingReplies'[t] = pendingReplies[t]
        BY <1>1, <2>2 DEF TypeOK
      <3>. QED
        BY <3>1 DEF MapSet
    <2>. QED
      BY <2>1, <2>2
  <1>7. \A t \in Side : \A i \in DOMAIN pendingReplies[t] :
           t # s \/ i # requestId[s] =>
               /\ i \in DOMAIN pendingReplies'[t]
               /\ pendingReplies'[t][i] = pendingReplies[t][i]
    <2>1. CASE pendingReplies' = pendingReplies
      BY <2>1
    <2>2. CASE pendingReplies' # pendingReplies
      <3>1. /\ pendingReplies'[s] = MapSet(pendingReplies[s], requestId[s], c)
            /\ \A t \in Side : t # s => pendingReplies'[t] = pendingReplies[t]
        BY <1>1, <2>2 DEF TypeOK
      <3>. QED
        BY <3>1 DEF MapSet
    <2>. QED
      BY <2>1, <2>2
  <1>8. c.twoway => /\ requestId[s] \in DOMAIN pendingReplies'[s]
                    /\ pendingReplies'[s][requestId[s]] = c
    BY <1>1 DEF MapSet, TypeOK
  <1>9. HandlersOK'
    BY <1>2, <1>4, <1>6 DEF HandlerInv, HandlersOK
  <1>10. HandlerKept'
    <2> SUFFICES ASSUME NEW d \in Call, promise'[d] = "pending"
                 PROVE  /\ id'[d] \in DOMAIN pendingReplies'[d.caller]
                        /\ pendingReplies'[d.caller][id'[d]] = d
      BY DEF HandlerKept
    <2>1. CASE d = c
      BY <1>2, <1>8, <2>1
    <2>2. CASE d # c
      <3>1. /\ id[d] \in DOMAIN pendingReplies[d.caller]
            /\ pendingReplies[d.caller][id[d]] = d
        BY <1>2, <2>2 DEF HandlerInv, HandlerKept
      <3>2. id'[d] = id[d] /\ (d.caller = s => id[d] # requestId[s])
        BY <1>2, <1>3, <2>2
      <3>3. d.caller \in Side
        BY CallAssumption
      <3>. QED
        BY <1>7, <3>1, <3>2, <3>3
    <2>. QED
      BY <2>1, <2>2
  <1>. QED
    BY <1>5, <1>9, <1>10 DEF HandlerInv

\* Making a call: a new id, and at most one message of a call nobody knew of.
LEMMA IssueKeeps ==
    ASSUME TypeOK, TypeOK', IInv, NEW c \in Call,
           promise[c] = "none",
           TakeRequestId(c),
           \/ /\ pendingReplies' = [pendingReplies EXCEPT
                     ![c.caller] = MapSet(@, requestId[c.caller], c)]
              /\ c.twoway
           \/ pendingReplies' = pendingReplies /\ ~c.twoway,
           \/ /\ channel' = Sent(c.caller, RequestOf(c))
              /\ promise' = [promise EXCEPT ![c] = IF c.twoway THEN "pending"
                                                               ELSE "oneway"]
           \/ /\ channel' = channel
              /\ promise' = [promise EXCEPT ![c] = "failed"],
           UNCHANGED <<running, executed, finished>>
    PROVE  IInv'
  <1> DEFINE s == c.caller
  <1>1. s \in Side /\ Peer(s) \in Side /\ Peer(s) # s /\ c.twoway \in BOOLEAN
    BY CallAssumption, PeerFacts
  <1>2. /\ id'[c] = requestId[s]
        /\ \A d \in Call : d # c => id'[d] = id[d] /\ promise'[d] = promise[d]
        /\ requestId'[s] = NextRequestId(requestId[s])
        /\ \A t \in Side : requestId'[t] >= requestId[t]
        /\ promise'[c] # "none"
        /\ promise'[c] \notin {"resolved", "rejected"}
        /\ promise'[c] = "pending" => c.twoway
    BY <1>1, SMTT(30) DEF TakeRequestId, NextRequestId, TypeOK
  <1>3. \A d \in Call : promise[d] # "none" /\ d.caller = s => id[d] # requestId[s]
    BY DEF IInv, IdsTaken, Numbered, NextRequestId, TypeOK
  <1>4. /\ \A t \in Side : \A k \in DOMAIN channel[t] : channel[t][k].call \in Call \ {c}
        /\ \A t \in Side : \A a \in running[t] : a.call \in Call \ {c}
        /\ \A t \in Side : \A i \in DOMAIN pendingReplies[t] :
               pendingReplies[t][i] \in Call \ {c}
    <2>1. \A t \in Side : \A k \in DOMAIN channel[t] : channel[t][k].call \in Call \ {c}
      BY UnderWay DEF Waiting
    <2>2. \A t \in Side : \A a \in running[t] : a.call \in Call \ {c}
      BY DEF IInv, RunningOK, Waiting, TypeOK, Activation
    <2>3. \A t \in Side : \A i \in DOMAIN pendingReplies[t] :
             pendingReplies[t][i] \in Call \ {c}
      BY DEF IInv, HandlersOK, TypeOK
    <2>. QED
      BY <2>1, <2>2, <2>3
  <1>5. HandlerInv'
    <2>1. PICK p \in {"pending", "oneway", "failed"} :
              /\ promise' = [promise EXCEPT ![c] = p]
              /\ p = "pending" => c.twoway
      OBVIOUS
    <2>. QED
      BY <2>1, IssueHandlers, Zenon DEF IInv, IdsTaken, HandlerInv
  <1>6. IdsTaken'
    BY <1>2, <1>5 DEF IInv, IdsTaken, HandlerInv
  <1>8. KnownOK'
    BY <1>2 DEF IInv, KnownOK, Remote!Successful, Remote!Unsuccessful
  <1>9. RunningOK' /\ RunningOnce'
    BY <1>2, <1>4 DEF IInv, RunningOK, RunningOnce, Waiting
  <1>11. \A t \in Side : \A k \in DOMAIN channel'[t] :
            \/ k \in DOMAIN channel[t] /\ channel'[t][k] = channel[t][k]
            \/ /\ t = s /\ k = Len(channel[t]) + 1 /\ channel'[t][k] = RequestOf(c)
               /\ promise'[c] = IF c.twoway THEN "pending" ELSE "oneway"
    <2>1. CASE channel' = channel
      BY <2>1
    <2>2. CASE channel' # channel
      <3>1. promise'[c] = IF c.twoway THEN "pending" ELSE "oneway"
        BY <2>2 DEF TypeOK
      <3>2. Moved(NoDrop, s, RequestOf(c))
        BY <1>1, <2>2, SentMoves
      <3>3. \A t \in Side : /\ channel'[t] \in Seq(Request \cup Reply)
                            /\ channel[t] \in Seq(Request \cup Reply)
        BY DEF TypeOK
      <3>. QED
        BY <3>1, <3>2, <3>3 DEF Moved, NoDrop
    <2>. QED
      BY <2>1, <2>2
  <1>12. RequestsOK'
    <2>1. finished[c] = "no"
      BY DEF IInv, IdsTaken, Numbered
    <2>2. /\ RequestOf(c).call = c /\ RequestOf(c).id = WireId(id'[c])
          /\ RequestOf(c).responseExpected = c.twoway
      BY <1>2 DEF RequestOf
    <2>. QED
      BY <1>2, <1>4, <1>11, <2>1, <2>2 DEF IInv, RequestsOK, Waiting
  <1>13. RepliesOK'
    BY <1>2, <1>4, <1>11
    DEF IInv, RepliesOK, Waiting, RequestOf, Remote!Successful, Remote!Unsuccessful
  <1>14. OneMessage'
    <2>1. \A t \in Side : channel[t] \in Seq(Request \cup Reply)
      BY DEF TypeOK
    <2>. QED
      BY <1>4, <1>11, <2>1 DEF IInv, OneMessage, RequestOf
  <1>15. ReplyAlone'
    BY <1>4, <1>11, PeerFacts DEF IInv, ReplyAlone, RequestOf
  <1>. QED
    BY <1>5, <1>6, <1>8, <1>9, <1>12, <1>13, <1>14, <1>15 DEF IInv, HandlerInv

\* The message at the head of a channel is all there is of its call.
LEMMA HeadAlone ==
    ASSUME TypeOK, IInv, NEW s \in Side, NEW n \in 1 .. Len(Incoming(s))
    PROVE  LET m == Head(Incoming(s)) IN
           /\ m.call \in Call /\ m.call.caller \in Side
           /\ Waiting(m.call)
           /\ m.id = WireId(id[m.call])
           /\ m.type = "REQUEST" => /\ m.call.caller = Peer(s)
                                    /\ m.responseExpected = m.call.twoway
                                    /\ finished[m.call] = "no"
           /\ m.type = "REPLY" =>
                  /\ m.call.caller = s
                  /\ m.call.twoway \/ m.call.method = "_is_a"
                  /\ m.result = "value" => Remote!Successful(m.call)
                  /\ m.result = "exception" => Remote!Unsuccessful(m.call)
           /\ \A k \in DOMAIN Incoming(s) : k # 1 => Incoming(s)[k].call # m.call
           /\ \A k \in DOMAIN channel[s] : channel[s][k].call # m.call
           /\ \A t \in Side : \A a \in running[t] : a.call # m.call
  <1> DEFINE m == Head(Incoming(s))
  <1>1. /\ Peer(s) \in Side /\ Peer(s) # s /\ Peer(Peer(s)) = s
        /\ m = channel[Peer(s)][1] /\ 1 \in DOMAIN channel[Peer(s)]
        /\ Incoming(s) = channel[Peer(s)]
    BY PeerFacts, UnreadFacts
  <1>2. /\ m.call \in Call /\ m.call.caller \in Side /\ Waiting(m.call)
        /\ m.type \in {"REQUEST", "REPLY"}
    BY <1>1, UnderWay
  <1>3. m.type = "REQUEST" => /\ m.call.caller = Peer(s)
                              /\ m.id = WireId(id[m.call])
                              /\ m.responseExpected = m.call.twoway
                              /\ finished[m.call] = "no"
    BY <1>1 DEF IInv, RequestsOK
  <1>4. m.type = "REPLY" =>
            /\ m.call.caller = s
            /\ m.id = WireId(id[m.call])
            /\ m.call.twoway \/ m.call.method = "_is_a"
            /\ m.result = "value" => Remote!Successful(m.call)
            /\ m.result = "exception" => Remote!Unsuccessful(m.call)
    BY <1>1 DEF IInv, RepliesOK
  <1>5. \A k \in DOMAIN Incoming(s) : k # 1 => Incoming(s)[k].call # m.call
    BY <1>1 DEF IInv, OneMessage
  <1>6. \A k \in DOMAIN channel[s] : channel[s][k].call # m.call
    <2> SUFFICES ASSUME NEW k \in DOMAIN channel[s], channel[s][k].call = m.call
                 PROVE  FALSE
      OBVIOUS
    <2>1. channel[s][k].type \in {"REQUEST", "REPLY"}
      BY UnderWay
    <2>2. CASE m.type = "REPLY"
      BY <1>1, <2>2 DEF IInv, ReplyAlone
    <2>3. CASE channel[s][k].type = "REPLY"
      BY <1>1, <2>3 DEF IInv, ReplyAlone
    <2>4. CASE m.type = "REQUEST" /\ channel[s][k].type = "REQUEST"
      BY <1>1, <1>3, <2>4 DEF IInv, RequestsOK
    <2>. QED
      BY <1>2, <2>1, <2>2, <2>3, <2>4
  <1>7. \A t \in Side : \A a \in running[t] : a.call # m.call
    <2> SUFFICES ASSUME NEW t \in Side, NEW a \in running[t], a.call = m.call
                 PROVE  FALSE
      OBVIOUS
    <2>1. CASE m.type = "REQUEST"
      BY <1>3, <2>1 DEF IInv, RunningOK
    <2>2. CASE m.type = "REPLY" /\ t = Peer(s)
      BY <1>1, <2>2 DEF IInv, ReplyAlone
    <2>3. CASE m.type = "REPLY" /\ t = s
      BY <1>1, <1>4, <2>3 DEF IInv, RunningOK
    <2>. QED
      BY <1>2, <2>1, <2>2, <2>3 DEF Side, Peer
  <1>. QED
    BY <1>2, <1>3, <1>4, <1>5, <1>6, <1>7

\* After an event, no channel holds a message of the call at its head.
LEMMA HeadGone ==
    ASSUME TypeOK, IInv, NEW s \in Side, NEW n \in 1 .. Len(Incoming(s)),
           NEW t \in Side, NEW k \in Nat \ {0},
           k + DropFor(s, n)[t] \in DOMAIN channel[t]
    PROVE  channel[t][k + DropFor(s, n)[t]].call # Head(Incoming(s)).call
  <1>1. CASE t = Peer(s)
    <2>1. k + n \in DOMAIN Incoming(s) /\ k + n # 1
      BY <1>1 DEF DropFor, Incoming
    <2>. QED
      BY <1>1, <2>1, HeadAlone DEF DropFor, Incoming
  <1>2. CASE t = s
    <2>1. Peer(s) # s /\ k \in DOMAIN channel[s]
      BY <1>2, PeerFacts DEF DropFor
    <2>. QED
      BY <1>2, <2>1, HeadAlone, PeerFacts DEF DropFor
  <1>. QED
    BY <1>1, <1>2 DEF Side, Peer

LEMMA RefuseKeeps ==
    ASSUME TypeOK, TypeOK', IInv, NEW s \in Side, NEW n \in 1 .. Len(Incoming(s)),
           DataEvent(s, n, "REQUEST"), Refuse(s, n)
    PROVE  IInv'
  <1> DEFINE m == Head(Incoming(s))
             drop == DropFor(s, n)
  <1>1. drop \in [Side -> Nat]
    BY DEF DropFor
  <1>2. m.type = "REQUEST"
    BY DEF DataEvent
  <1>3. CASE m.responseExpected
    <2> DEFINE r == ReplyTo(m, "exception")
    <2>1. m \in Request /\ r \in Reply
      BY <1>2, UnreadFacts DEF Request, Reply, ReplyTo
    <2>2. Moved(drop, s, r)
      BY <1>3, AnsweredMoves DEF Refuse
    <2>3. /\ r.call = m.call /\ r.call \in Call /\ r.id = m.id
          /\ r.result = "exception"
      BY <2>1, HeadAlone DEF ReplyTo
    <2>4. /\ r.call.caller = Peer(s) /\ r.id = WireId(id[r.call])
          /\ r.call.twoway /\ Waiting(r.call)
          /\ Remote!Unsuccessful(r.call)
      BY <1>2, <1>3, <2>3, HeadAlone DEF Remote!Unsuccessful
    <2>5. \A t \in Side : running'[t] = running[t]
      BY DEF Refuse
    <2>6. \A a \in running'[s] : a.call # r.call
      BY <2>3, <2>5, HeadAlone
    <2>7. \A t \in Side : \A k \in DOMAIN channel'[t] :
             k + drop[t] \in DOMAIN channel[t] =>
                 channel[t][k + drop[t]].call # r.call
      <3>1. \A t \in Side : \A k \in DOMAIN channel'[t] : k \in Nat \ {0}
        BY DEF TypeOK
      <3>. QED
        BY <2>3, <3>1, HeadGone
    <2>8. UNCHANGED <<requestId, pendingReplies, id, promise, executed, finished>>
      BY DEF Refuse
    <2>. QED
      BY <1>1, <2>1, <2>2, <2>3, <2>4, <2>5, <2>6, <2>7, <2>8, ReplyKeeps
  <1>4. CASE ~m.responseExpected
    <2>1. Dropped(drop)
      BY <1>4, ConsumedMoves DEF Refuse
    <2>. QED
      BY <1>1, <2>1, DropKeeps DEF Refuse
  <1>. QED
    BY <1>3, <1>4

LEMMA IsAKeeps ==
    ASSUME TypeOK, TypeOK', IInv, NEW s \in Side, NEW n \in 1 .. Len(Incoming(s)),
           IsA(s, n)
    PROVE  IInv'
  <1> DEFINE m == Head(Incoming(s))
             drop == DropFor(s, n)
             r == ReplyTo(m, "value")
  <1>1. drop \in [Side -> Nat]
    BY DEF DropFor
  <1>2. m.type = "REQUEST" /\ m.call.method = "_is_a"
    BY DEF IsA, Asks, DataEvent
  <1>3. m \in Request /\ r \in Reply
    BY <1>2, UnreadFacts DEF Request, Reply, ReplyTo
  <1>4. Moved(drop, s, r)
    BY AnsweredMoves DEF IsA
  <1>5. /\ r.call = m.call /\ r.call \in Call /\ r.id = m.id
        /\ r.result = "value"
    BY <1>3, HeadAlone DEF ReplyTo
  <1>6. /\ r.call.caller = Peer(s) /\ r.id = WireId(id[r.call])
        /\ r.call.method = "_is_a" /\ Waiting(r.call)
        /\ Remote!Successful(r.call)
    BY <1>2, <1>5, HeadAlone DEF Remote!Successful
  <1>7. \A t \in Side : running'[t] = running[t]
    BY DEF IsA
  <1>8. \A a \in running'[s] : a.call # r.call
    BY <1>5, <1>7, HeadAlone
  <1>9. \A t \in Side : \A k \in DOMAIN channel'[t] :
           k + drop[t] \in DOMAIN channel[t] =>
               channel[t][k + drop[t]].call # r.call
    <2>1. \A t \in Side : \A k \in DOMAIN channel'[t] : k \in Nat \ {0}
      BY DEF TypeOK
    <2>. QED
      BY <1>5, <2>1, HeadGone
  <1>10. UNCHANGED <<requestId, pendingReplies, id, promise, executed, finished>>
    BY DEF IsA
  <1>. QED
    BY <1>1, <1>3, <1>4, <1>5, <1>6, <1>7, <1>8, <1>9, <1>10, ReplyKeeps

LEMMA DispatchKeeps ==
    ASSUME TypeOK, TypeOK', IInv, NEW s \in Side, NEW n \in 1 .. Len(Incoming(s)),
           Dispatch(s, n)
    PROVE  IInv'
  <1> DEFINE m == Head(Incoming(s))
             drop == DropFor(s, n)
             c == m.call
             a == [id |-> m.id, responseExpected |-> m.responseExpected, call |-> c]
  <1>1. /\ drop \in [Side -> Nat]
        /\ Dropped(drop)
    BY ConsumedMoves DEF DropFor, Dispatch
  <1>2. /\ m.type = "REQUEST" /\ c \in Call
        /\ c.method \in {"operation", "setter"}
        /\ running' = [running EXCEPT ![s] = @ \cup {a}]
        /\ \/ /\ executed' = [executed EXCEPT ![c] = @ + 1]
              /\ finished' = [finished EXCEPT ![c] = "running"]
           \/ /\ finished' = [finished EXCEPT ![c] = "badArguments"]
              /\ UNCHANGED executed
        /\ UNCHANGED <<requestId, pendingReplies, id, promise>>
    BY DEF Dispatch, Asks, DataEvent
  <1>3. /\ Waiting(c) /\ c.caller = Peer(s) /\ finished[c] = "no"
        /\ m.id = WireId(id[c]) /\ m.responseExpected = c.twoway
        /\ \A t \in Side : \A b \in running[t] : b.call # c
    BY <1>2, HeadAlone
  <1>4. /\ finished'[c] \in {"running", "badArguments"}
        /\ \A d \in Call : d # c => finished'[d] = finished[d] /\ executed'[d] = executed[d]
        /\ executed'[c] = IF finished'[c] = "running" THEN 1 ELSE 0
    BY <1>2, <1>3 DEF IInv, KnownOK, TypeOK
  <1>5. \A t \in Side : \A k \in DOMAIN channel'[t] :
           /\ k + drop[t] \in DOMAIN channel[t]
           /\ channel'[t][k] = channel[t][k + drop[t]]
           /\ channel'[t][k].call \in Call \ {c}
    <2> SUFFICES ASSUME NEW t \in Side, NEW k \in DOMAIN channel'[t]
                 PROVE  /\ k + drop[t] \in DOMAIN channel[t]
                        /\ channel'[t][k] = channel[t][k + drop[t]]
                        /\ channel'[t][k].call \in Call \ {c}
      OBVIOUS
    <2>1. k \in Nat \ {0}
      BY DEF TypeOK
    <2>2. /\ k + drop[t] \in DOMAIN channel[t]
          /\ channel'[t][k] = channel[t][k + drop[t]]
      BY <1>1 DEF Dropped
    <2>. QED
      BY <2>1, <2>2, HeadGone, UnderWay
  <1>6. \A t \in Side : \A b \in running'[t] : b \in running[t] \/ (t = s /\ b = a)
    BY <1>2 DEF TypeOK
  <1>7. \A t \in Side : \A b \in running[t] : b.call \in Call
    BY DEF TypeOK, Activation
  <1>8. IdsTaken' /\ HandlersOK' /\ HandlerKept'
    BY <1>2, <1>3, <1>4 DEF IInv, IdsTaken, Numbered, HandlersOK, HandlerKept, Waiting
  <1>9. KnownOK'
    <2>1. promise[c] \notin {"resolved", "rejected"}
      BY <1>3 DEF Waiting
    <2>. QED
      BY <1>2, <1>4, <2>1 DEF IInv, KnownOK, Remote!Successful, Remote!Unsuccessful
  <1>10. RequestsOK' /\ RepliesOK'
    <2>1. ASSUME NEW t \in Side, NEW k \in DOMAIN channel'[t]
          PROVE  /\ k + drop[t] \in DOMAIN channel[t]
                 /\ channel'[t][k] = channel[t][k + drop[t]]
                 /\ channel'[t][k].call \in Call \ {c}
      BY <1>5
    <2>2. \A d \in Call \ {c} : finished'[d] = finished[d] /\ executed'[d] = executed[d]
                                /\ promise'[d] = promise[d] /\ id'[d] = id[d]
                                /\ (Waiting(d) <=> Waiting(d)')
      BY <1>2, <1>4 DEF Waiting
    <2> HIDE DEF drop
    <2>3. RequestsOK'
      BY <2>1, <2>2 DEF IInv, RequestsOK
    <2>4. RepliesOK'
      BY <2>1, <2>2 DEF IInv, RepliesOK, Remote!Successful, Remote!Unsuccessful
    <2>. QED
      BY <2>3, <2>4
  <1>11. RunningOK' /\ RunningOnce'
    <2>1. a.call = c /\ a.id = m.id /\ a.responseExpected = m.responseExpected
      OBVIOUS
    <2>. QED
      BY <1>2, <1>3, <1>4, <1>6, <1>7, <2>1 DEF IInv, RunningOK, RunningOnce, Waiting
  <1>12. OneMessage'
    <2> SUFFICES ASSUME NEW t \in Side,
                        NEW j \in DOMAIN channel'[t], NEW k \in DOMAIN channel'[t],
                        channel'[t][j].call = channel'[t][k].call
                 PROVE  j = k
      BY DEF OneMessage
    <2>1. j \in Nat /\ k \in Nat /\ drop[t] \in Nat
      BY <1>1 DEF TypeOK
    <2>2. /\ j + drop[t] \in DOMAIN channel[t] /\ k + drop[t] \in DOMAIN channel[t]
          /\ channel[t][j + drop[t]].call = channel[t][k + drop[t]].call
      BY <1>5
    <2>3. j + drop[t] = k + drop[t]
      BY <2>2 DEF IInv, OneMessage
    <2>. QED
      BY <2>1, <2>3
  <1>13. ReplyAlone'
    <2>1. a.call = c
      OBVIOUS
    <2>. QED
      BY <1>5, <1>6, <2>1, PeerFacts DEF IInv, ReplyAlone
  <1>. QED
    BY <1>8, <1>9, <1>10, <1>11, <1>12, <1>13 DEF IInv

LEMMA CompleteKeeps ==
    ASSUME TypeOK, TypeOK', IInv, NEW s \in Side, NEW a \in running[s],
           MethodResolves(s, a) \/ MethodRejects(s, a)
    PROVE  IInv'
  <1>1. PICK result \in {"value", "exception"} :
           /\ Complete(s, a, result)
           /\ result = "value" =>
                  IF Awaited(a.call) THEN finished[a.call] = "returned"
                  ELSE finished[a.call] \in {"running", "returned", "threw"}
           /\ result = "exception" =>
                  \/ finished[a.call] = "badArguments"
                  \/ Awaited(a.call) /\ finished[a.call] \in {"threw", "returned"}
    BY DEF MethodResolves, MethodRejects
  <1> DEFINE r == ReplyTo(a, result)
  <1>2. /\ a \in Activation /\ a.call \in Call
        /\ a.call.caller = Peer(s)
        /\ a.call.method \in {"operation", "setter"}
        /\ a.id = WireId(id[a.call])
        /\ a.responseExpected = a.call.twoway
        /\ Waiting(a.call)
        /\ finished[a.call] # "no"
    BY DEF IInv, RunningOK, TypeOK, Activation
  <1>3. /\ \A t \in Side : running'[t] \subseteq running[t]
        /\ \A b \in running'[s] : b \in running[s] /\ b # a
        /\ UNCHANGED <<requestId, pendingReplies, id, promise, executed, finished>>
    BY <1>1 DEF Complete, TypeOK
  <1>4. \A b \in running'[s] : b.call # a.call
    BY <1>3 DEF IInv, RunningOnce
  <1>5. /\ NoDrop \in [Side -> Nat]
        /\ \A t \in Side : \A k \in DOMAIN channel'[t] : k \in Nat /\ k + NoDrop[t] = k
    BY DEF NoDrop, TypeOK
  <1>6. CASE a.responseExpected
    <2>1. /\ r \in Reply /\ r.call = a.call /\ r.id = a.id /\ r.result = result
      BY <1>2 DEF ReplyTo, Reply, Activation
    <2>2. Moved(NoDrop, s, r)
      BY <1>1, <1>6, SentMoves DEF Complete
    <2>3. a.call.twoway
      BY <1>2, <1>6
    <2>4. result = "value" => Remote!Successful(a.call)
      <3>1. CASE a.call.method = "operation"
        <4>1. Awaited(a.call)
          BY <2>3, <3>1 DEF Awaited
        <4>2. result = "value" => finished[a.call] = "returned"
          BY <1>1, <4>1
        <4>. QED
          BY <2>3, <3>1, <4>2 DEF Remote!Successful, Remote!Awaited
      <3>2. CASE a.call.method = "setter"
        BY <1>1, <3>2 DEF Remote!Successful, Awaited
      <3>. QED
        BY <1>2, <3>1, <3>2
    <2>5. result = "exception" => Remote!Unsuccessful(a.call)
      BY <1>1, <1>2 DEF Remote!Unsuccessful, Awaited
    <2>6. \A t \in Side : \A k \in DOMAIN channel[t] : channel[t][k].call # a.call
      <3> SUFFICES ASSUME NEW t \in Side, NEW k \in DOMAIN channel[t],
                          channel[t][k].call = a.call
                   PROVE  FALSE
        OBVIOUS
      <3>1. channel[t][k].type \in {"REQUEST", "REPLY"}
        BY UnderWay
      <3>2. CASE channel[t][k].type = "REQUEST"
        BY <1>2, <3>2 DEF IInv, RequestsOK
      <3>3. CASE channel[t][k].type = "REPLY"
        <4>1. Peer(t) = Peer(s)
          BY <1>2, <3>3 DEF IInv, RepliesOK
        <4>2. t = s
          BY <4>1 DEF Side, Peer
        <4>. QED
          BY <3>3, <4>2 DEF IInv, ReplyAlone
      <3>. QED
        BY <3>1, <3>2, <3>3
    <2>. QED
      BY <1>2, <1>3, <1>4, <1>5, <2>1, <2>2, <2>3, <2>4, <2>5, <2>6, ReplyKeeps
  <1>7. CASE ~a.responseExpected
    <2>1. channel' = channel
      BY <1>1, <1>7 DEF Complete
    <2>2. Dropped(NoDrop)
      BY <1>5, <2>1 DEF Dropped
    <2>. QED
      BY <1>3, <1>5, <2>2, DropKeeps
  <1>. QED
    BY <1>6, <1>7

LEMMA DoneKeeps ==
    ASSUME TypeOK, IInv, NEW c \in Call,
           ImplementationDone(c) \/ UnhandledRejection(c)
    PROVE  IInv'
  <1>1. /\ finished[c] = "running"
        /\ finished'[c] \in {"returned", "threw"}
        /\ \A d \in Call : d # c => finished'[d] = finished[d]
        /\ UNCHANGED <<requestId, pendingReplies, running, id, promise, executed>>
    BY DEF ImplementationDone, UnhandledRejection, TypeOK
  <1>7. \A t \in Side : channel'[t] = channel[t] \/ channel'[t] = <<>>
    BY DEF ImplementationDone, UnhandledRejection, Abort, TypeOK
  <1>2. \A d \in Call : /\ Remote!Successful(d) => Remote!Successful(d)'
                        /\ Remote!Unsuccessful(d) => Remote!Unsuccessful(d)'
    BY <1>1 DEF Remote!Successful, Remote!Unsuccessful
  <1>3. IdsTaken' /\ HandlersOK' /\ HandlerKept' /\ KnownOK'
    BY <1>1, <1>2 DEF IInv, IdsTaken, Numbered, HandlersOK, HandlerKept, KnownOK
  <1>4. RequestsOK' /\ RunningOK'
    <2>1. \A t \in Side : \A k \in DOMAIN channel[t] : channel[t][k].call \in Call
      BY UnderWay
    <2>2. \A t \in Side : \A a \in running[t] : a.call \in Call
      BY DEF TypeOK, Activation
    <2>. QED
      BY <1>1, <1>7, <2>1, <2>2 DEF IInv, RequestsOK, RunningOK, Waiting
  <1>5. RepliesOK'
    <2>1. \A t \in Side : \A k \in DOMAIN channel[t] : channel[t][k].call \in Call
      BY UnderWay
    <2>. QED
      BY <1>1, <1>2, <1>7, <2>1 DEF IInv, RepliesOK, Waiting
  <1>6. OneMessage' /\ ReplyAlone' /\ RunningOnce'
    BY <1>1, <1>7, PeerFacts DEF IInv, OneMessage, ReplyAlone, RunningOnce
  <1>. QED
    BY <1>3, <1>4, <1>5, <1>6 DEF IInv

\* Where the ids must fit the wire: the id of a reply finds the handler of its
\* call, and the promise it settles is pending.
LEMMA HandlerFound ==
    ASSUME TypeOK, IInv, NoWrap, NEW s \in Side, NEW n \in 1 .. Len(Incoming(s)),
           Head(Incoming(s)).type = "REPLY",
           Head(Incoming(s)).id \in DOMAIN pendingReplies[s]
    PROVE  LET m == Head(Incoming(s)) IN
           /\ m.call \in Call /\ m.call.caller = s
           /\ m.id = id[m.call]
           /\ pendingReplies[s][m.id] = m.call
           /\ promise[m.call] = "pending"
  <1> DEFINE m == Head(Incoming(s))
             c == m.call
  <1>1. c \in Call /\ Waiting(c) /\ c.caller = s /\ m.id = WireId(id[c])
    BY HeadAlone
  <1>2. promise[c] # "none"
    BY <1>1 DEF Waiting
  <1>3. m.id = id[c]
    <2>1. id[c] \in Nat /\ requestId[s] \in Nat /\ IdModulus \in Nat \ {0}
      BY <1>1, OrbAssumption DEF TypeOK
    <2>2. id[c] < IdModulus
      BY <1>1, <1>2, <2>1 DEF NoWrap, IInv, IdsTaken, Numbered, NextRequestId
    <2>3. WireId(id[c]) = id[c]
      BY <2>1, <2>2, SMTT(30) DEF WireId
    <2>. QED
      BY <1>1, <2>3
  <1>4. pendingReplies[s][m.id] = c
    <2>1. pendingReplies[s][m.id] \in Call
      BY DEF TypeOK
    <2>. QED
      BY <1>1, <1>2, <1>3, <2>1 DEF IInv, HandlersOK, IdsTaken, Numbered
  <1>5. promise[c] = "pending"
    BY <1>1, <1>4 DEF IInv, HandlersOK, Waiting
  <1>. QED
    BY <1>1, <1>3, <1>4, <1>5

LEMMA ReceiveKeeps ==
    ASSUME TypeOK, TypeOK', IInv, NoWrap,
           NEW s \in Side, NEW n \in 1 .. Len(Incoming(s)), ReceiveReply(s, n)
    PROVE  IInv'
  <1> DEFINE m == Head(Incoming(s))
             drop == DropFor(s, n)
             c == m.call
  <1>1. /\ drop \in [Side -> Nat]
        /\ Dropped(drop)
    BY ConsumedMoves DEF DropFor, ReceiveReply
  <1>2. /\ m.type = "REPLY"
        /\ m.id \in DOMAIN pendingReplies[s]
        /\ UNCHANGED <<requestId, running, id, executed, finished>>
    BY DEF ReceiveReply, DataEvent
  <1>3. /\ c \in Call /\ Waiting(c) /\ c.caller = s /\ m.id = WireId(id[c])
        /\ m.result = "value" => Remote!Successful(c)
        /\ m.result = "exception" => Remote!Unsuccessful(c)
        /\ \A t \in Side : \A b \in running[t] : b.call # c
    BY <1>2, HeadAlone
  <1>4. m.id = id[c]
    BY <1>2, HandlerFound
  <1>5. pendingReplies[s][m.id] = c
    BY <1>2, HandlerFound
  <1>6. promise[c] = "pending"
    BY <1>2, HandlerFound
  <1>7. /\ promise'[c] \in {"resolved", "rejected", "failed"}
        /\ promise'[c] = "resolved" => m.result = "value"
        /\ promise'[c] = "rejected" => m.result = "exception"
        /\ \A d \in Call : d # c => promise'[d] = promise[d]
    <2>1. PICK as \in IF m.result = "value" THEN {"resolved", "failed"}
                                            ELSE {"rejected"} :
             promise' = Settled(c, as)
      BY <1>5, Zenon DEF ReceiveReply
    <2>2. promise' = [promise EXCEPT ![c] = as]
      BY <1>6, <2>1 DEF Settled
    <2>3. m.result \in {"value", "exception"}
      BY <1>2, UnreadFacts DEF Request, Reply
    <2>4. promise'[c] = as /\ \A d \in Call : d # c => promise'[d] = promise[d]
      BY <1>3, <2>2, Zenon DEF TypeOK
    <2>5. CASE m.result = "value"
      BY <2>1, <2>4, <2>5, Zenon
    <2>6. CASE m.result = "exception"
      BY <2>1, <2>4, <2>6, Zenon
    <2>. QED
      BY <2>3, <2>5, <2>6
  <1>8. \A t \in Side :
           /\ \A i \in DOMAIN pendingReplies'[t] :
                 /\ i \in DOMAIN pendingReplies[t]
                 /\ pendingReplies'[t][i] = pendingReplies[t][i]
           /\ \A i \in DOMAIN pendingReplies[t] :
                 i # m.id \/ t # s =>
                     /\ i \in DOMAIN pendingReplies'[t]
                     /\ pendingReplies'[t][i] = pendingReplies[t][i]
    <2> TAKE t \in Side
    <2>1. pendingReplies'[t] = IF t = s THEN MapDelete(pendingReplies[t], m.id)
                                       ELSE pendingReplies[t]
      BY DEF ReceiveReply, TypeOK
    <2>. QED
      BY <2>1 DEF MapDelete
  <1>9. \A t \in Side : \A k \in DOMAIN channel'[t] :
           /\ k + drop[t] \in DOMAIN channel[t]
           /\ channel'[t][k] = channel[t][k + drop[t]]
           /\ channel'[t][k].call \in Call \ {c}
    <2> SUFFICES ASSUME NEW t \in Side, NEW k \in DOMAIN channel'[t]
                 PROVE  /\ k + drop[t] \in DOMAIN channel[t]
                        /\ channel'[t][k] = channel[t][k + drop[t]]
                        /\ channel'[t][k].call \in Call \ {c}
      OBVIOUS
    <2>1. k \in Nat \ {0}
      BY DEF TypeOK
    <2>2. /\ k + drop[t] \in DOMAIN channel[t]
          /\ channel'[t][k] = channel[t][k + drop[t]]
      BY <1>1 DEF Dropped
    <2>. QED
      BY <2>1, <2>2, HeadGone, UnderWay
  <1>10. IdsTaken'
    BY <1>2, <1>3, <1>6, <1>7 DEF IInv, IdsTaken, Numbered
  <1>11. HandlersOK'
    <2>1. \A t \in Side : \A i \in DOMAIN pendingReplies[t] :
             pendingReplies[t][i] \in Call
      BY DEF TypeOK
    <2>2. \A d \in Call : promise[d] # "none" => promise'[d] # "none"
      BY <1>7
    <2>. QED
      BY <1>2, <1>8, <2>1, <2>2 DEF IInv, HandlersOK
  <1>12. HandlerKept'
    <2> SUFFICES ASSUME NEW d \in Call, promise'[d] = "pending"
                 PROVE  /\ id'[d] \in DOMAIN pendingReplies'[d.caller]
                        /\ pendingReplies'[d.caller][id'[d]] = d
      BY DEF HandlerKept
    <2>1. d # c /\ promise[d] = "pending" /\ d.caller \in Side
      BY <1>7, CallAssumption
    <2>2. d.caller = s => id[d] # m.id
      BY <1>3, <1>4, <1>6, <2>1 DEF IInv, IdsTaken, Numbered
    <2>. QED
      BY <1>2, <1>8, <2>1, <2>2 DEF IInv, HandlerKept
  <1>13. KnownOK'
    BY <1>2, <1>3, <1>7 DEF IInv, KnownOK, Remote!Successful, Remote!Unsuccessful
  <1>14. RequestsOK' /\ RepliesOK'
    BY <1>2, <1>7, <1>9
    DEF IInv, RequestsOK, RepliesOK, Waiting, Remote!Successful, Remote!Unsuccessful
  <1>15. RunningOK' /\ RunningOnce'
    <2>1. \A t \in Side : \A b \in running[t] : b.call \in Call
      BY DEF TypeOK, Activation
    <2>. QED
      BY <1>2, <1>3, <1>7, <2>1 DEF IInv, RunningOK, RunningOnce, Waiting
  <1>16. OneMessage'
    <2> SUFFICES ASSUME NEW t \in Side,
                        NEW j \in DOMAIN channel'[t], NEW k \in DOMAIN channel'[t],
                        channel'[t][j].call = channel'[t][k].call
                 PROVE  j = k
      BY DEF OneMessage
    <2>1. channel'[t] \in Seq(Request \cup Reply) /\ drop[t] \in Nat
      BY <1>1 DEF TypeOK
    <2>2. j + drop[t] = k + drop[t]
      BY <1>9 DEF IInv, OneMessage
    <2>. QED
      BY <2>1, <2>2
  <1>17. ReplyAlone'
    BY <1>2, <1>9, PeerFacts DEF IInv, ReplyAlone
  <1>. QED
    BY <1>10, <1>11, <1>12, <1>13, <1>14, <1>15, <1>16, <1>17 DEF IInv

LEMMA InvStep == TypeOK /\ TypeOK' /\ IInv /\ NoWrap /\ [Next]_vars => IInv'
  <1> SUFFICES ASSUME TypeOK, TypeOK', IInv, NoWrap, [Next]_vars
               PROVE  IInv'
    OBVIOUS
  <1>1. ASSUME NEW c \in Call, NEW p \in Call \cup {NoCall}, TwowayCall(c, p)
        PROVE  IInv'
    BY <1>1, IssueKeeps, Zenon DEF TwowayCall, MayIssue
  <1>2. ASSUME NEW c \in Call, OnewayCall(c)
        PROVE  IInv'
    BY <1>2, IssueKeeps DEF OnewayCall, MayIssue
  <1>3. ASSUME NEW s \in Side, NEW n \in 1 .. Len(Incoming(s)),
               \/ ObjectNotExist(s, n) \/ NoPermission(s, n) \/ BadOperation(s, n)
        PROVE  IInv'
    BY <1>3, RefuseKeeps DEF ObjectNotExist, NoPermission, BadOperation, Asks
  <1>4. ASSUME NEW s \in Side, NEW n \in 1 .. Len(Incoming(s)), UnexpectedReply(s, n)
        PROVE  IInv'
    <2>1. DropFor(s, n) \in [Side -> Nat]
      BY DEF DropFor
    <2>2. Dropped(DropFor(s, n))
      BY <1>4, ConsumedMoves DEF UnexpectedReply
    <2>. QED
      BY <1>4, <2>1, <2>2, DropKeeps DEF UnexpectedReply
  <1>5. ASSUME NEW s \in Side, SocketRcvd(s)
        PROVE  IInv'
    BY <1>3, <1>4, <1>5, IsAKeeps, DispatchKeeps, ReceiveKeeps DEF SocketRcvd
  <1>6. ASSUME NEW s \in Side, SocketClosed(s) \/ SocketError(s)
        PROVE  IInv'
    <2>1. NoDrop \in [Side -> Nat]
      BY DEF NoDrop
    <2>2. channel' = [channel EXCEPT ![Peer(s)] = <<>>]
      BY <1>6 DEF SocketClosed, SocketError, Abort
    <2>3. Dropped(NoDrop)
      BY <2>2 DEF Dropped, NoDrop, TypeOK
    <2>. QED
      BY <1>6, <2>1, <2>3, DropKeeps DEF SocketClosed, SocketError, Abort
  <1>7. ASSUME NEW s \in Side, NEW o \in Object, UnregisterServant(s, o)
        PROVE  IInv'
    <2>1. UNCHANGED <<requestId, pendingReplies, channel, running, id, promise,
                      executed, finished>>
      BY <1>7 DEF UnregisterServant
    <2>. QED
      BY <2>1 DEF IInv, IdsTaken, Numbered, HandlersOK, HandlerKept, RequestsOK, RunningOK,
         RepliesOK, OneMessage, ReplyAlone, RunningOnce, KnownOK, Waiting,
         Remote!Successful, Remote!Unsuccessful
  <1>8. CASE UNCHANGED vars
    BY <1>8 DEF vars, IInv, IdsTaken, Numbered, HandlersOK, HandlerKept, RequestsOK, RunningOK,
       RepliesOK, OneMessage, ReplyAlone, RunningOnce, KnownOK, Waiting,
       Remote!Successful, Remote!Unsuccessful
  <1>. QED
    BY <1>1, <1>2, <1>5, <1>6, <1>7, <1>8, CompleteKeeps, DoneKeeps
    DEF Next, Application, Network, MethodSettles

\* The counters only grow, so ids that fit now have always fitted.
LEMMA WrapIsForGood == TypeOK /\ TypeOK' /\ [Next]_vars /\ NoWrap' => NoWrap
  <1> SUFFICES ASSUME TypeOK, TypeOK', [Next]_vars, NoWrap', NEW s \in Side
               PROVE  requestId[s] < NextRequestId(IdModulus)
    BY DEF NoWrap
  <1>1. requestId'[s] >= requestId[s]
    <2>1. ASSUME NEW c \in Call, TakeRequestId(c)
          PROVE  requestId'[s] >= requestId[s]
      BY <2>1 DEF TakeRequestId, NextRequestId, TypeOK
    <2>2. CASE requestId' = requestId
      BY <2>2 DEF TypeOK
    <2>. QED
      BY <2>1, <2>2 DEF Next, Application, Network, TwowayCall, OnewayCall,
         UnregisterServant, SocketClosed, SocketError, SocketRcvd, ObjectNotExist,
         NoPermission, BadOperation, Refuse, IsA, Dispatch, ReceiveReply,
         UnexpectedReply, MethodSettles, MethodResolves, MethodRejects, Complete,
         ImplementationDone, UnhandledRejection, vars
  <1>. QED
    BY <1>1, OrbAssumption DEF NoWrap, NextRequestId, TypeOK

THEOREM Invariant == Spec => [](NoWrap => IInv)
  <1>1. Init => (NoWrap => IInv)
    BY InitInv
  <1>2. TypeOK /\ TypeOK' /\ (NoWrap => IInv) /\ [Next]_vars => (NoWrap => IInv)'
    BY InvStep, WrapIsForGood
  <1>. QED
    BY <1>1, <1>2, TypeCorrect, PTL DEF Spec

-----------------------------------------------------------------------------
(***************************************************************************)
(* What the invariant says about the ORB.                                  *)
(***************************************************************************)

\* For any number of overlapping calls in both directions, the handler that the
\* id of a reply finds in pendingReplies is the one of the call it answers.
THEOREM RepliesFindTheirCall == Spec => []Correlation
  <1>1. TypeOK /\ (NoWrap => IInv) => Correlation
    <2> SUFFICES ASSUME TypeOK, NoWrap, IInv, NEW s \in Side,
                        NEW k \in DOMAIN Incoming(s),
                        Incoming(s)[k].type = "REPLY"
                 PROVE  LET reply == Incoming(s)[k] IN
                        IF reply.call.twoway
                        THEN /\ reply.id \in DOMAIN pendingReplies[s]
                             /\ pendingReplies[s][reply.id] = reply.call
                        ELSE /\ reply.call.method = "_is_a"
                             /\ reply.id \notin DOMAIN pendingReplies[s]
      BY DEF Correlation
    <2> DEFINE m == Incoming(s)[k]
               c == m.call
    <2>1. Peer(s) \in Side /\ Peer(Peer(s)) = s
      BY PeerFacts
    <2>2. /\ c \in Call /\ Waiting(c)
          /\ c.caller = s
          /\ m.id = WireId(id[c])
          /\ c.twoway \/ c.method = "_is_a"
      BY <2>1, UnderWay DEF IInv, RepliesOK, Incoming
    <2>3. m.id = id[c]
      <3>1. id[c] \in Nat /\ requestId[s] \in Nat /\ IdModulus \in Nat \ {0}
        BY <2>2, OrbAssumption DEF TypeOK
      <3>2. id[c] < IdModulus
        BY <2>2, <3>1 DEF Waiting, NoWrap, IInv, IdsTaken, Numbered, NextRequestId
      <3>. QED
        BY <2>2, <3>1, <3>2 DEF WireId
    <2>4. CASE c.twoway
      BY <2>2, <2>3, <2>4 DEF Waiting, IInv, HandlerKept
    <2>5. CASE ~c.twoway
      <3>1. ASSUME m.id \in DOMAIN pendingReplies[s]
            PROVE  FALSE
        <4> DEFINE h == pendingReplies[s][m.id]
        <4>1. h \in Call
          BY <3>1 DEF TypeOK
        <4>2. h.caller = s /\ h.twoway /\ id[h] = m.id /\ promise[h] # "none"
          BY <3>1 DEF IInv, HandlersOK
        <4>3. h = c
          BY <2>2, <2>3, <4>1, <4>2 DEF Waiting, IInv, IdsTaken, Numbered
        <4>. QED
          BY <2>5, <4>2, <4>3
      <3>. QED
        BY <2>2, <2>5, <3>1
    <2>. QED
      BY <2>4, <2>5
  <1>. QED
    BY <1>1, TypeCorrect, Invariant, PTL

\* A step that neither makes a call nor receives a reply.
LEMMA OthersKeepHandlers ==
    ASSUME HandlerInv, UNCHANGED <<requestId, pendingReplies, id, promise>>
    PROVE  HandlerInv'
  BY DEF HandlerInv, Numbered, HandlersOK, HandlerKept

\* The handler that is removed is that of the promise that is settled, whether
\* or not the reply was meant for it.
LEMMA ReceiveKeepsHandlers ==
    ASSUME TypeOK, TypeOK', HandlerInv, NEW s \in Side,
           NEW n \in 1 .. Len(Incoming(s)), ReceiveReply(s, n)
    PROVE  HandlerInv'
  <1> DEFINE i == Head(Incoming(s)).id
             h == pendingReplies[s][i]
  <1>1. /\ i \in DOMAIN pendingReplies[s]
        /\ pendingReplies' = [pendingReplies EXCEPT ![s] = MapDelete(@, i)]
        /\ UNCHANGED <<requestId, id>>
    BY DEF ReceiveReply
  <1>2. h \in Call /\ h.caller = s /\ id[h] = i /\ promise[h] # "none"
    BY <1>1 DEF HandlerInv, HandlersOK, TypeOK
  <1>3. /\ promise'[h] \notin {"pending", "none"}
        /\ \A d \in Call : d # h => promise'[d] = promise[d]
    <2>1. PICK as \in {"resolved", "failed", "rejected"} : promise' = Settled(h, as)
      BY Zenon DEF ReceiveReply
    <2>. QED
      BY <1>2, <2>1, Zenon DEF Settled, TypeOK
  <1>4. \A t \in Side :
           /\ \A j \in DOMAIN pendingReplies'[t] :
                 /\ j \in DOMAIN pendingReplies[t]
                 /\ pendingReplies'[t][j] = pendingReplies[t][j]
           /\ \A j \in DOMAIN pendingReplies[t] :
                 j # i \/ t # s => /\ j \in DOMAIN pendingReplies'[t]
                                   /\ pendingReplies'[t][j] = pendingReplies[t][j]
    <2> TAKE t \in Side
    <2>1. pendingReplies'[t] = IF t = s THEN MapDelete(pendingReplies[t], i)
                                       ELSE pendingReplies[t]
      BY <1>1 DEF TypeOK
    <2>. QED
      BY <2>1 DEF MapDelete
  <1>5. Numbered'
    BY <1>1, <1>2, <1>3 DEF HandlerInv, Numbered
  <1>6. HandlersOK'
    <2>1. \A t \in Side : \A j \in DOMAIN pendingReplies[t] :
             pendingReplies[t][j] \in Call
      BY DEF TypeOK
    <2>2. \A d \in Call : promise[d] # "none" => promise'[d] # "none"
      BY <1>3
    <2>. QED
      BY <1>1, <1>4, <2>1, <2>2 DEF HandlerInv, HandlersOK
  <1>7. HandlerKept'
    <2> SUFFICES ASSUME NEW d \in Call, promise'[d] = "pending"
                 PROVE  /\ id'[d] \in DOMAIN pendingReplies'[d.caller]
                        /\ pendingReplies'[d.caller][id'[d]] = d
      BY DEF HandlerKept
    <2>1. d # h /\ promise[d] = "pending" /\ d.caller \in Side
      BY <1>3, CallAssumption
    <2>2. d.caller = s => id[d] # i
      BY <1>2, <2>1 DEF HandlerInv, Numbered
    <2>. QED
      BY <1>1, <1>4, <2>1, <2>2 DEF HandlerInv, HandlerKept
  <1>. QED
    BY <1>5, <1>6, <1>7 DEF HandlerInv

LEMMA HandlerStep == TypeOK /\ TypeOK' /\ HandlerInv /\ [Next]_vars => HandlerInv'
  <1> SUFFICES ASSUME TypeOK, TypeOK', HandlerInv, [Next]_vars
               PROVE  HandlerInv'
    OBVIOUS
  <1>1. ASSUME NEW c \in Call, NEW p \in Call \cup {NoCall}, TwowayCall(c, p)
        PROVE  HandlerInv'
    BY <1>1, IssueHandlers, Zenon DEF TwowayCall, MayIssue
  <1>2. ASSUME NEW c \in Call, OnewayCall(c)
        PROVE  HandlerInv'
    BY <1>2, IssueHandlers DEF OnewayCall, MayIssue
  <1>3. ASSUME NEW s \in Side, SocketRcvd(s)
        PROVE  HandlerInv'
    BY <1>3, ReceiveKeepsHandlers, OthersKeepHandlers
    DEF SocketRcvd, ObjectNotExist, NoPermission, BadOperation, Refuse, IsA, Dispatch,
        UnexpectedReply
  <1>4. ASSUME NEW s \in Side, NEW a \in running[s],
               MethodResolves(s, a) \/ MethodRejects(s, a)
        PROVE  HandlerInv'
    BY <1>4, OthersKeepHandlers DEF MethodResolves, MethodRejects, Complete
  <1>5. ASSUME NEW c \in Call, ImplementationDone(c) \/ UnhandledRejection(c)
        PROVE  HandlerInv'
    BY <1>5, OthersKeepHandlers DEF ImplementationDone, UnhandledRejection
  <1>6. ASSUME NEW s \in Side, SocketClosed(s) \/ SocketError(s)
        PROVE  HandlerInv'
    BY <1>6, OthersKeepHandlers DEF SocketClosed, SocketError
  <1>8. ASSUME NEW s \in Side, NEW o \in Object, UnregisterServant(s, o)
        PROVE  HandlerInv'
    BY <1>8, OthersKeepHandlers DEF UnregisterServant
  <1>7. CASE UNCHANGED vars
    BY <1>7, OthersKeepHandlers DEF vars
  <1>. QED
    BY <1>1, <1>2, <1>3, <1>4, <1>5, <1>6, <1>7, <1>8
    DEF Next, Application, Network, MethodSettles

\* A pending promise keeps its handler, however many calls are under way, also
\* after the ids have outgrown their 32 bits on the wire: a reply that finds the
\* handler of another call settles that call with it.
THEOREM HandlersStay == Spec => []HandlerKept
  <1>1. Init => HandlerInv
    BY CallAssumption
    DEF Init, HandlerInv, Numbered, HandlersOK, HandlerKept, InitialRequestId, Side
  <1>2. HandlerInv => HandlerKept
    BY DEF HandlerInv
  <1>. QED
    BY <1>1, <1>2, HandlerStep, TypeCorrect, PTL DEF Spec

\* An implementation is entered at most once per call, and what the caller was
\* told agrees with how it ended.
THEOREM AnswersAgree == Spec => []AnswerAgrees
  <1>1. (NoWrap => IInv) => AnswerAgrees
    <2> SUFFICES ASSUME NoWrap, IInv, NEW c \in Call
                 PROVE  /\ executed[c] = IF finished[c] \in {"no", "badArguments"}
                                         THEN 0 ELSE 1
                        /\ promise[c] = "resolved" =>
                               IF Awaited(c) THEN finished[c] = "returned"
                                             ELSE finished[c] # "badArguments"
                        /\ Awaited(c) /\ promise[c] = "rejected" =>
                               finished[c] # "running"
      BY Zenon DEF AnswerAgrees
    <2>1. promise[c] = "resolved" => Remote!Successful(c)
      BY DEF IInv, KnownOK
    <2>2. promise[c] = "rejected" => Remote!Unsuccessful(c)
      BY DEF IInv, KnownOK
    <2>3. Remote!Successful(c) => IF Awaited(c) THEN finished[c] = "returned"
                                                ELSE finished[c] # "badArguments"
      BY DEF Remote!Successful, Remote!Awaited, Awaited
    <2>4. Remote!Unsuccessful(c) /\ Awaited(c) => finished[c] # "running"
      BY DEF Remote!Unsuccessful, Awaited
    <2>. QED
      BY <2>1, <2>2, <2>3, <2>4 DEF IInv, KnownOK
  <1>. QED
    BY <1>1, Invariant, PTL
-----------------------------------------------------------------------------
(***************************************************************************)
(* The call path implements RemoteCalls, and it enters the calls of a side *)
(* in the order in which they were made.                                   *)
(***************************************************************************)
LEMMA RemoteInit == Init => Remote!Init
  BY DEF Init, Remote!Init

\* Every step of the ORBs is one step of one abstract call, or none.
LEMMA RemoteStep ==
    TypeOK /\ IInv /\ NoWrap /\ [Next]_vars => [Remote!Next]_(Remote!vars)
  <1> SUFFICES ASSUME TypeOK, IInv, NoWrap, [Next]_vars
               PROVE  \/ \E c \in Call : \/ Remote!Issue(c) \/ Remote!Start(c)
                                         \/ Remote!Misfit(c) \/ Remote!Finish(c)
                                         \/ Remote!Settle(c)
                      \/ UNCHANGED <<promise, executed, finished>>
    BY DEF Remote!Next, Remote!vars
  <1>1. ASSUME NEW c \in Call, NEW p \in Call \cup {NoCall}, TwowayCall(c, p)
        PROVE  Remote!Issue(c)
    BY <1>1 DEF TwowayCall, MayIssue, Remote!Issue
  <1>2. ASSUME NEW c \in Call, OnewayCall(c)
        PROVE  Remote!Issue(c)
    BY <1>2 DEF OnewayCall, MayIssue, Remote!Issue
  <1>3. ASSUME NEW s \in Side, NEW n \in 1 .. Len(Incoming(s)), Dispatch(s, n)
        PROVE  \E c \in Call : Remote!Start(c) \/ Remote!Misfit(c)
    <2> DEFINE m == Head(Incoming(s))
    <2>1. /\ m.type = "REQUEST" /\ m.call \in Call
          /\ \/ /\ executed' = [executed EXCEPT ![m.call] = @ + 1]
                /\ finished' = [finished EXCEPT ![m.call] = "running"]
             \/ /\ finished' = [finished EXCEPT ![m.call] = "badArguments"]
                /\ UNCHANGED executed
          /\ UNCHANGED promise
      BY <1>3 DEF Dispatch, Asks, DataEvent
    <2>2. promise[m.call] \in {"pending", "oneway"} /\ finished[m.call] = "no"
      BY <2>1, HeadAlone DEF Waiting
    <2>. QED
      BY <2>1, <2>2 DEF Remote!Start, Remote!Misfit
  <1>4. ASSUME NEW c \in Call, ImplementationDone(c) \/ UnhandledRejection(c)
        PROVE  Remote!Finish(c)
    BY <1>4 DEF ImplementationDone, UnhandledRejection, Remote!Finish
  <1>5. ASSUME NEW s \in Side, NEW n \in 1 .. Len(Incoming(s)), ReceiveReply(s, n)
        PROVE  \E c \in Call : Remote!Settle(c)
    <2> DEFINE m == Head(Incoming(s))
               c == pendingReplies[s][m.id]
    <2>1. /\ m.type = "REPLY" /\ m.id \in DOMAIN pendingReplies[s]
          /\ UNCHANGED <<executed, finished>>
      BY <1>5 DEF ReceiveReply, DataEvent
    <2>2. c = m.call /\ c \in Call /\ promise[c] = "pending"
      BY <2>1, HandlerFound
    <2>3. /\ m.result = "value" => Remote!Successful(c)
          /\ m.result = "exception" => Remote!Unsuccessful(c)
      BY <2>1, <2>2, HeadAlone
    <2>4. m.result \in {"value", "exception"}
      BY <2>1, UnreadFacts DEF Request, Reply
    <2>5. PICK as \in IF m.result = "value" THEN {"resolved", "failed"}
                                            ELSE {"rejected"} :
             promise' = Settled(c, as)
      BY <1>5, Zenon DEF ReceiveReply
    <2>6. promise' = [promise EXCEPT ![c] = as]
      BY <2>2, <2>5 DEF Settled
    <2>7. CASE m.result = "value"
      BY <2>1, <2>2, <2>3, <2>5, <2>6, <2>7, Zenon DEF Remote!Settle
    <2>8. CASE m.result = "exception"
      BY <2>1, <2>2, <2>3, <2>5, <2>6, <2>8, Zenon DEF Remote!Settle
    <2>. QED
      BY <2>4, <2>7, <2>8
  <1>6. ASSUME NEW s \in Side, SocketRcvd(s)
        PROVE  \/ \E c \in Call : Remote!Start(c) \/ Remote!Misfit(c) \/ Remote!Settle(c)
               \/ UNCHANGED <<promise, executed, finished>>
    BY <1>3, <1>5, <1>6 DEF SocketRcvd, ObjectNotExist, NoPermission, BadOperation,
       Refuse, IsA, UnexpectedReply
  <1>7. CASE UNCHANGED vars
    BY <1>7 DEF vars
  <1>. QED
    BY <1>1, <1>2, <1>4, <1>6, <1>7
    DEF Next, Application, Network, UnregisterServant, SocketClosed, SocketError,
        MethodSettles, MethodResolves, MethodRejects, Complete

\* While the ids fit the wire, two ORBs on a connection cannot be told from the
\* abstract calls: each runs at most once, is settled at most once, and its
\* caller learns what happened (orb.ts, twowayCall and socketRcvd).
THEOREM Refinement == Spec /\ []NoWrap => ImplementsRemoteCalls
  <1>1. TypeOK /\ (NoWrap => IInv) /\ NoWrap /\ [Next]_vars =>
            [Remote!Next]_(Remote!vars)
    BY RemoteStep
  <1>. QED
    BY <1>1, RemoteInit, TypeCorrect, Invariant, PTL
    DEF Spec, ImplementsRemoteCalls, Remote!Spec

-----------------------------------------------------------------------------
(***************************************************************************)
(* The order of calls.                                                     *)
(***************************************************************************)

\* The requests in a channel carry ascending ids.
Ascending ==
    \A s \in Side : \A j, k \in DOMAIN channel[s] :
        channel[s][j].type = "REQUEST" /\ channel[s][k].type = "REQUEST" /\ j < k =>
            id[channel[s][j].call] < id[channel[s][k].call]

InOrder == Ascending /\ StartInOrder

LEMMA InitInOrder == Init => InOrder
  BY DEF Init, InOrder, Ascending, StartInOrder

\* Dropping messages and appending replies disturbs no order.
LEMMA MovedKeepsOrder ==
    ASSUME TypeOK, TypeOK', InOrder, NEW drop \in [Side -> Nat], NEW s \in Side,
           NEW m, m.type = "REPLY" \/ Dropped(drop), Moved(drop, s, m),
           UNCHANGED <<id, executed>>
    PROVE  InOrder'
  <1>1. ASSUME NEW t \in Side, NEW k \in DOMAIN channel'[t],
               channel'[t][k].type = "REQUEST"
        PROVE  /\ k + drop[t] \in DOMAIN channel[t]
               /\ channel'[t][k] = channel[t][k + drop[t]]
    BY <1>1 DEF Moved, Dropped
  <1>2. Ascending'
    <2> SUFFICES ASSUME NEW t \in Side,
                        NEW j \in DOMAIN channel'[t], NEW k \in DOMAIN channel'[t],
                        channel'[t][j].type = "REQUEST",
                        channel'[t][k].type = "REQUEST", j < k
                 PROVE  id[channel'[t][j].call] < id[channel'[t][k].call]
      BY DEF Ascending
    <2>1. channel'[t] \in Seq(Request \cup Reply) /\ drop[t] \in Nat
      BY DEF TypeOK
    <2>2. j + drop[t] < k + drop[t]
      BY <2>1
    <2>. QED
      BY <1>1, <2>2 DEF InOrder, Ascending
  <1>3. StartInOrder'
    BY <1>1 DEF InOrder, StartInOrder
  <1>. QED
    BY <1>2, <1>3 DEF InOrder

\* A new call has the highest id of its side.
LEMMA IssueKeepsOrder ==
    ASSUME TypeOK, TypeOK', IInv, InOrder, NEW c \in Call, promise[c] = "none",
           TakeRequestId(c),
           channel' = Sent(c.caller, RequestOf(c)) \/ channel' = channel,
           UNCHANGED executed
    PROVE  InOrder'
  <1> DEFINE s == c.caller
  <1>1. s \in Side
    BY CallAssumption
  <1>2. /\ id'[c] = requestId[s]
        /\ \A d \in Call : d # c => id'[d] = id[d]
    BY DEF TakeRequestId, TypeOK
  <1>3. executed[c] = 0 /\ \A d \in Call : promise[d] = "none" => executed[d] = 0
    BY DEF IInv, IdsTaken, Numbered, KnownOK
  <1>4. \A d \in Call : promise[d] # "none" /\ d.caller = s => id[d] < requestId[s]
    BY <1>1 DEF IInv, IdsTaken, Numbered, NextRequestId, TypeOK
  <1>5. \A t \in Side : \A k \in DOMAIN channel'[t] :
           \/ /\ k \in DOMAIN channel[t] /\ channel'[t][k] = channel[t][k]
              /\ channel[t][k].call \in Call \ {c}
              /\ promise[channel[t][k].call] # "none"
           \/ t = s /\ k = Len(channel[t]) + 1 /\ channel'[t][k].call = c
    <2> SUFFICES ASSUME NEW t \in Side, NEW k \in DOMAIN channel'[t]
                 PROVE  \/ /\ k \in DOMAIN channel[t] /\ channel'[t][k] = channel[t][k]
                           /\ channel[t][k].call \in Call \ {c}
                           /\ promise[channel[t][k].call] # "none"
                        \/ t = s /\ k = Len(channel[t]) + 1 /\ channel'[t][k].call = c
      OBVIOUS
    <2>1. CASE k \in DOMAIN channel[t] /\ channel'[t][k] = channel[t][k]
      BY <2>1, UnderWay DEF Waiting
    <2>2. CASE channel' = Sent(c.caller, RequestOf(c))
      <3>1. \/ k + 0 \in DOMAIN channel[t] /\ channel'[t][k] = channel[t][k + 0]
            \/ /\ t = s /\ k + 0 = Len(channel[t]) + 1
               /\ channel'[t][k] = RequestOf(c)
        BY <1>1, <2>2, SentMoves DEF Moved, NoDrop
      <3>2. k + 0 = k
        BY DEF TypeOK
      <3>. QED
        BY <2>1, <3>1, <3>2 DEF RequestOf
    <2>. QED
      BY <2>1, <2>2
  <1>6. \A t \in Side : \A k \in DOMAIN channel[t] : k \in Nat /\ k <= Len(channel[t])
    BY DEF TypeOK
  <1>7. \A t \in Side : \A k \in DOMAIN channel[t] :
           channel[t][k].type = "REQUEST" => channel[t][k].call.caller = t
    BY DEF IInv, RequestsOK
  <1>8. Ascending'
    <2> SUFFICES ASSUME NEW t \in Side,
                        NEW j \in DOMAIN channel'[t], NEW k \in DOMAIN channel'[t],
                        channel'[t][j].type = "REQUEST",
                        channel'[t][k].type = "REQUEST", j < k
                 PROVE  id'[channel'[t][j].call] < id'[channel'[t][k].call]
      BY DEF Ascending
    <2>0. Len(channel[t]) \in Nat /\ j \in Nat /\ k \in Nat
      BY DEF TypeOK
    <2>1. CASE k \in DOMAIN channel[t] /\ channel'[t][k] = channel[t][k]
      <3>1. j \in DOMAIN channel[t] /\ channel'[t][j] = channel[t][j]
        BY <1>5, <1>6, <2>0, <2>1
      <3>2. id[channel[t][j].call] < id[channel[t][k].call]
        BY <2>1, <3>1 DEF InOrder, Ascending
      <3>3. channel[t][j].call \in Call \ {c} /\ channel[t][k].call \in Call \ {c}
        BY <2>1, <3>1, UnderWay DEF Waiting
      <3>. QED
        BY <1>2, <2>1, <3>1, <3>2, <3>3
    <2>2. CASE t = s /\ k = Len(channel[t]) + 1 /\ channel'[t][k].call = c
      <3>1. /\ j \in DOMAIN channel[t] /\ channel'[t][j] = channel[t][j]
            /\ channel[t][j].call \in Call \ {c}
            /\ promise[channel[t][j].call] # "none"
        BY <1>5, <2>0, <2>2
      <3>2. channel[t][j].call.caller = s
        BY <1>7, <2>2, <3>1
      <3>. QED
        BY <1>2, <1>4, <2>2, <3>1, <3>2
    <2>. QED
      BY <1>5, <2>1, <2>2
  <1>9. StartInOrder'
    <2> SUFFICES ASSUME NEW t \in Side, NEW k \in DOMAIN channel'[t],
                        channel'[t][k].type = "REQUEST",
                        NEW d \in Call, d.caller = t,
                        id'[d] > id'[channel'[t][k].call]
                 PROVE  executed[d] = 0
      BY DEF StartInOrder
    <2>1. CASE d = c \/ promise[d] = "none"
      BY <1>3, <2>1
    <2>2. CASE /\ d # c /\ k \in DOMAIN channel[t] /\ channel'[t][k] = channel[t][k]
               /\ channel[t][k].call \in Call \ {c}
      BY <1>2, <2>2 DEF InOrder, StartInOrder
    <2>3. CASE d # c /\ promise[d] # "none" /\ t = s /\ channel'[t][k].call = c
      <3>1. id[d] < requestId[s] /\ id'[d] = id[d] /\ id'[c] = requestId[s]
        BY <1>2, <1>4, <2>3
      <3>2. id[d] \in Nat /\ requestId[s] \in Nat
        BY <1>1 DEF TypeOK
      <3>. QED
        BY <2>3, <3>1, <3>2
    <2>. QED
      BY <1>5, <2>1, <2>2, <2>3
  <1>. QED
    BY <1>8, <1>9 DEF InOrder

\* What is entered is what was sent first.
LEMMA DispatchKeepsOrder ==
    ASSUME TypeOK, TypeOK', IInv, InOrder, NEW s \in Side,
           NEW n \in 1 .. Len(Incoming(s)), Dispatch(s, n)
    PROVE  InOrder'
  <1> DEFINE m == Head(Incoming(s))
             drop == DropFor(s, n)
  <1>1. drop \in [Side -> Nat] /\ Dropped(drop)
    BY ConsumedMoves DEF DropFor, Dispatch
  <1>2. /\ Peer(s) \in Side /\ Incoming(s) = channel[Peer(s)]
        /\ m = channel[Peer(s)][1] /\ 1 \in DOMAIN channel[Peer(s)]
    BY PeerFacts, UnreadFacts
  <1>3. /\ m.type = "REQUEST" /\ UNCHANGED id
        /\ \A d \in Call : d # m.call => executed'[d] = executed[d]
    BY DEF Dispatch, Asks, DataEvent, TypeOK
  <1>4. Ascending'
    <2> SUFFICES ASSUME NEW t \in Side,
                        NEW j \in DOMAIN channel'[t], NEW k \in DOMAIN channel'[t],
                        channel'[t][j].type = "REQUEST",
                        channel'[t][k].type = "REQUEST", j < k
                 PROVE  id'[channel'[t][j].call] < id'[channel'[t][k].call]
      BY DEF Ascending
    <2>1. channel'[t] \in Seq(Request \cup Reply) /\ drop[t] \in Nat
      BY <1>1 DEF TypeOK
    <2>2. j + drop[t] < k + drop[t]
      BY <2>1
    <2>. QED
      BY <1>1, <1>3, <2>2 DEF InOrder, Ascending, Dropped
  <1>5. StartInOrder'
    <2> SUFFICES ASSUME NEW t \in Side, NEW k \in DOMAIN channel'[t],
                        channel'[t][k].type = "REQUEST",
                        NEW d \in Call, d.caller = t,
                        id'[d] > id'[channel'[t][k].call]
                 PROVE  executed'[d] = 0
      BY DEF StartInOrder
    <2>1. /\ k + drop[t] \in DOMAIN channel[t]
          /\ channel'[t][k] = channel[t][k + drop[t]]
          /\ channel[t][k + drop[t]].call \in Call
      BY <1>1, UnderWay DEF Dropped
    <2>2. CASE d # m.call
      BY <1>3, <2>1, <2>2 DEF InOrder, StartInOrder
    <2>3. CASE d = m.call
      <3>1. t = Peer(s)
        BY <1>3, <2>3, HeadAlone
      <3>2. k \in Nat \ {0} /\ drop[t] = n /\ 1 < k + drop[t]
        <4>1. channel'[t] \in Seq(Request \cup Reply)
          BY Zenon DEF TypeOK
        <4>2. k \in Nat \ {0}
          BY <4>1
        <4>3. Incoming(s) \in Seq(Request \cup Reply)
          BY UnreadFacts
        <4>4. n \in Nat \ {0}
          BY <4>3
        <4>5. drop[t] = n
          BY <3>1 DEF DropFor
        <4>. QED
          BY <4>2, <4>4, <4>5
      <3>3. id[m.call] < id[channel[t][k + drop[t]].call]
        BY <1>2, <1>3, <2>1, <3>1, <3>2 DEF InOrder, Ascending
      <3>4. id[m.call] \in Nat /\ id[channel[t][k + drop[t]].call] \in Nat
        BY <2>1, <2>3, Zenon DEF TypeOK
      <3>. QED
        BY <1>3, <2>1, <2>3, <3>3, <3>4
    <2>. QED
      BY <2>2, <2>3
  <1>. QED
    BY <1>4, <1>5 DEF InOrder

LEMMA StepInOrder ==
    TypeOK /\ TypeOK' /\ IInv /\ InOrder /\ [Next]_vars => InOrder'
  <1> SUFFICES ASSUME TypeOK, TypeOK', IInv, InOrder, [Next]_vars
               PROVE  InOrder'
    OBVIOUS
  <1>1. ASSUME NEW c \in Call, NEW p \in Call \cup {NoCall},
               TwowayCall(c, p) \/ OnewayCall(c)
        PROVE  InOrder'
    BY <1>1, IssueKeepsOrder DEF TwowayCall, OnewayCall, MayIssue
  <1>2. ASSUME NEW drop \in [Side -> Nat], Dropped(drop), UNCHANGED <<id, executed>>
        PROVE  InOrder'
    <2>1. "initiator" \in Side /\ Moved(drop, "initiator", 0)
      BY <1>2 DEF Side, Moved, Dropped
    <2>. QED
      BY <1>2, <2>1, MovedKeepsOrder
  <1>3. NoDrop \in [Side -> Nat] /\ \A s \in Side, n \in Nat : DropFor(s, n) \in [Side -> Nat]
    BY DEF NoDrop, DropFor
  <1>4. ASSUME NEW s \in Side, NEW n \in 1 .. Len(Incoming(s)), NEW r,
               \/ channel' = Answered(s, n, ReplyTo(Head(Incoming(s)), r))
               \/ channel' = Consumed(s, n),
               UNCHANGED <<id, executed>>
        PROVE  InOrder'
    <2>1. CASE channel' = Answered(s, n, ReplyTo(Head(Incoming(s)), r))
      <3>1. Moved(DropFor(s, n), s, ReplyTo(Head(Incoming(s)), r))
        BY <2>1, AnsweredMoves
      <3>2. ReplyTo(Head(Incoming(s)), r).type = "REPLY"
        BY DEF ReplyTo
      <3>3. DropFor(s, n) \in [Side -> Nat]
        BY DEF DropFor
      <3>. QED
        BY <1>4, <3>1, <3>2, <3>3, MovedKeepsOrder
    <2>2. CASE channel' = Consumed(s, n)
      BY <1>2, <1>3, <1>4, <2>2, ConsumedMoves
    <2>. QED
      BY <1>4, <2>1, <2>2
  <1>5. ASSUME NEW s \in Side, SocketRcvd(s)
        PROVE  InOrder'
    BY <1>4, <1>5, DispatchKeepsOrder, Zenon
    DEF SocketRcvd, ObjectNotExist, NoPermission, BadOperation, Refuse, IsA,
        ReceiveReply, UnexpectedReply
  <1>6. ASSUME NEW s \in Side, NEW a \in running[s],
               MethodResolves(s, a) \/ MethodRejects(s, a)
        PROVE  InOrder'
    <2>1. PICK r : Complete(s, a, r)
      BY <1>6 DEF MethodResolves, MethodRejects
    <2>2. CASE channel' = Sent(s, ReplyTo(a, r))
      <3>1. Moved(NoDrop, s, ReplyTo(a, r)) /\ ReplyTo(a, r).type = "REPLY"
        BY <2>2, SentMoves DEF ReplyTo
      <3>. QED
        BY <1>3, <2>1, <3>1, MovedKeepsOrder, Zenon DEF Complete
    <2>3. CASE channel' = channel
      BY <2>1, <2>3 DEF Complete, InOrder, Ascending, StartInOrder
    <2>. QED
      BY <2>1, <2>2, <2>3 DEF Complete
  <1>7. ASSUME NEW s \in Side, SocketClosed(s) \/ SocketError(s)
        PROVE  InOrder'
    <2>1. channel' = [channel EXCEPT ![Peer(s)] = <<>>] /\ UNCHANGED <<id, executed>>
      BY <1>7 DEF SocketClosed, SocketError, Abort
    <2>2. Dropped(NoDrop)
      BY <2>1 DEF Dropped, NoDrop, TypeOK
    <2>. QED
      BY <1>2, <1>3, <2>1, <2>2
  <1>9. ASSUME NEW c \in Call, UnhandledRejection(c)
        PROVE  InOrder'
    <2>1. UNCHANGED <<id, executed>>
      BY <1>9 DEF UnhandledRejection
    <2>2. Dropped(NoDrop)
      BY <1>9 DEF UnhandledRejection, Abort, Dropped, NoDrop, TypeOK
    <2>. QED
      BY <1>2, <1>3, <2>1, <2>2
  <1>8. CASE UNCHANGED <<channel, id, executed>>
    BY <1>8 DEF InOrder, Ascending, StartInOrder
  <1>. QED
    BY <1>1, <1>5, <1>6, <1>7, <1>8, <1>9
    DEF Next, Application, Network, UnregisterServant, MethodSettles,
        ImplementationDone, vars

\* No call is entered while an earlier one of its caller is still on its way.
THEOREM CallsStartInOrder == Spec => [](NoWrap => StartInOrder)
  <1>1. Init => (NoWrap => InOrder)
    BY InitInOrder
  <1>2. /\ TypeOK /\ TypeOK' /\ (NoWrap => IInv) /\ (NoWrap => InOrder) /\ [Next]_vars
        => (NoWrap => InOrder)'
    BY StepInOrder, WrapIsForGood
  <1>3. InOrder => StartInOrder
    BY DEF InOrder
  <1>. QED
    BY <1>1, <1>2, <1>3, TypeCorrect, Invariant, PTL DEF Spec
=============================================================================
