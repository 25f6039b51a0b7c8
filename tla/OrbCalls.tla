------------------------------ MODULE OrbCalls ------------------------------
(***************************************************************************)
(* The call path of the ORB: twowayCall and onewayCall on the way out,     *)
(* socketRcvd with its REQUEST and REPLY branches on the way in, and the   *)
(* completion of the servants' methods in between, for both ends of one    *)
(* bidirectional connection.                                               *)
(*                                                                         *)
(* Both ends run on an event loop: a handler is one action.  What may      *)
(* interleave are the handlers, and the methods, which are suspended while *)
(* they await.                                                             *)
(***************************************************************************)
EXTENDS Calls, Integers, Sequences

CONSTANTS
    NameService,     \* key of the root naming context, exempt from authentication
    Authenticating,  \* the sides with an incomingAuthenticator
    IdModulus,       \* a request id is a 32 bit number on the wire: 2^32
    Framed           \* WebSocket: one message per event; TCP, TLS: one or more

ASSUME OrbAssumption ==
    /\ NameService \in Object
    /\ Authenticating \subseteq Side
    /\ IdModulus \in Nat \ {0}
    /\ Framed \in BOOLEAN

(***************************************************************************)
(* Definitions named Bad... are mutated forms of the definition that       *)
(* follows them: slips the properties are expected to notice.  No run uses *)
(* them.                                                                   *)
(***************************************************************************)

VARIABLES
    requestId,       \* Connection.requestId of either side
    pendingReplies,  \* Connection.pendingReplies of either side: id -> call
    channel,         \* what a side has sent and its peer has not processed yet
    servants,        \* ORB.servants of either side: the registered keys
    running,         \* the _orb_ methods of either side's servants under way
    socket,          \* "open", "closed", or "crashed" with the whole process
    id,              \* history: the request id a call was given
    promise,         \* what the caller knows of a call
    parent,          \* the running method that awaits the call, or NoCall
    executed,        \* history: how often the implementation was entered
    finished,        \* what the implementation did
    swallowed        \* history: the calls a message of which was never looked at

vars == <<requestId, pendingReplies, channel, servants, running, socket,
          id, promise, parent, executed, finished, swallowed>>

(***************************************************************************)
(* Messages.  The call a message belongs to stands for its contents: the   *)
(* object key and operation of a request, the values of either.  The code  *)
(* finds the caller of a reply by the id alone.                            *)
(***************************************************************************)
Request == [type : {"REQUEST"}, id : Nat, responseExpected : BOOLEAN, call : Call]
Reply == [type : {"REPLY"}, id : Nat, result : {"value", "exception"}, call : Call]

\* A Skeleton method under way, with what the reply will need.
Activation == [id : Nat, responseExpected : BOOLEAN, call : Call]

-----------------------------------------------------------------------------
\* Map.set and Map.delete of pendingReplies.
MapSet(map, key, value) ==
    [k \in DOMAIN map \cup {key} |-> IF k = key THEN value ELSE map[k]]

MapDelete(map, key) == [k \in DOMAIN map \ {key} |-> map[k]]

\* Starts below zero.
BadInitialRequestId(s) == IF s = "initiator" THEN 0 ELSE -1

InitialRequestId(s) == IF s = "initiator" THEN 0 ELSE 1

\* Forgets to count.
BadNextRequestId(n) == n

NextRequestId(n) == n + 2

\* Loses one more bit.
BadWireId(n) == n % (IdModulus \div 2)

\* CDR's ulong keeps 32 bits of the number the connection counts in.
WireId(n) == n % IdModulus

Init ==
    /\ requestId = [s \in Side |-> InitialRequestId(s)]
    /\ pendingReplies = [s \in Side |-> [i \in {} |-> NoCall]]
    /\ channel = [s \in Side |-> <<>>]
    /\ servants \in [Side -> {O \in SUBSET Object : NameService \in O}]
    /\ running = [s \in Side |-> {}]
    /\ socket = [s \in Side |-> "open"]
    /\ id = [c \in Call |-> 0]
    /\ promise = [c \in Call |-> "none"]
    /\ parent = [c \in Call |-> NoCall]
    /\ executed = [c \in Call |-> 0]
    /\ finished = [c \in Call |-> "no"]
    /\ swallowed = {}

-----------------------------------------------------------------------------
\* Network out.  A write to a socket that is closed is lost without an error.
BadSent(s, message) ==      \* overtakes what was sent before
    IF socket[s] = "open" THEN [channel EXCEPT ![s] = <<message>> \o @]
                          ELSE channel

Sent(s, message) ==
    IF socket[s] = "open" THEN [channel EXCEPT ![s] = Append(@, message)]
                          ELSE channel

\* A call is made by the application, or by a method running for the peer that
\* will await it.
MayIssue(c, p) ==
    /\ promise[c] = "none"
    /\ socket[c.caller] # "crashed"
    /\ p # NoCall => /\ p.caller = Servant(c)
                     /\ finished[p] = "running"

\* The id is taken before anything else happens.
TakeRequestId(c) ==
    /\ id' = [id EXCEPT ![c] = requestId[c.caller]]
    /\ requestId' = [requestId EXCEPT ![c.caller] = NextRequestId(@)]

RequestOf(c) == [type |-> "REQUEST", id |-> WireId(requestId[c.caller]),
                 responseExpected |-> c.twoway, call |-> c]

\* ORB.twowayCall.  The second disjunct is encode throwing: the promise is
\* rejected, the handler stays in pendingReplies.
TwowayCall(c, p) ==
    /\ c.twoway
    /\ MayIssue(c, p)
    /\ TakeRequestId(c)
    /\ pendingReplies' = [pendingReplies EXCEPT
           ![c.caller] = MapSet(@, requestId[c.caller], c)]
    /\ parent' = [parent EXCEPT ![c] = p]
    /\ \/ /\ channel' = Sent(c.caller, RequestOf(c))
          /\ promise' = [promise EXCEPT ![c] = "pending"]
       \/ /\ promise' = [promise EXCEPT ![c] = "failed"]
          /\ UNCHANGED channel
    /\ UNCHANGED <<servants, running, socket, executed, finished, swallowed>>

\* ORB.onewayCall.  When encode throws, so does onewayCall.
OnewayCall(c) ==
    /\ ~c.twoway
    /\ MayIssue(c, NoCall)
    /\ TakeRequestId(c)
    /\ \/ /\ channel' = Sent(c.caller, RequestOf(c))
          /\ promise' = [promise EXCEPT ![c] = "oneway"]
       \/ /\ promise' = [promise EXCEPT ![c] = "failed"]
          /\ UNCHANGED channel
    /\ UNCHANGED <<pendingReplies, servants, running, socket, parent,
                   executed, finished, swallowed>>

-----------------------------------------------------------------------------
\* Network in.
Incoming(s) == channel[Peer(s)]

\* A "data" event of s, made of the next n messages of its peer.  socketRcvd
\* decodes the first one and never looks at the rest of the buffer.
DataEvent(s, n, type) ==
    /\ socket[s] = "open"
    /\ n \in 1 .. Len(Incoming(s))
    /\ Framed => n = 1
    /\ Head(Incoming(s)).type = type
    /\ swallowed' = swallowed \cup {Incoming(s)[k].call : k \in 2 .. n}

\* Leaves the message it has processed in the channel.
BadUnread(s, n) == SubSeq(Incoming(s), n, Len(Incoming(s)))

Unread(s, n) == SubSeq(Incoming(s), n + 1, Len(Incoming(s)))

Consumed(s, n) == [channel EXCEPT ![Peer(s)] = Unread(s, n)]

\* The message is processed and, in the same handler, answered.
Answered(s, n, reply) ==
    [channel EXCEPT ![Peer(s)] = Unread(s, n), ![s] = Append(@, reply)]

\* Whatever has happened, the caller is told of success.
BadReplyTo(request, result) ==
    [type |-> "REPLY", id |-> request.id, result |-> "value", call |-> request.call]

ReplyTo(request, result) ==
    [type |-> "REPLY", id |-> request.id, result |-> result, call |-> request.call]

\* Answers a oneway request, too.
BadRefuse(s, n) ==
    /\ channel' = Answered(s, n, ReplyTo(Head(Incoming(s)), "exception"))
    /\ UNCHANGED <<requestId, pendingReplies, servants, running, socket,
                   id, promise, parent, executed, finished>>

\* The ORB turns a request down with a system exception of its own.
Refuse(s, n) ==
    LET request == Head(Incoming(s)) IN
    /\ channel' = IF request.responseExpected
                  THEN Answered(s, n, ReplyTo(request, "exception"))
                  ELSE Consumed(s, n)
    /\ UNCHANGED <<requestId, pendingReplies, servants, running, socket,
                   id, promise, parent, executed, finished>>

\* The call a request asks s for, once its servant has been found.
Asks(s, n, call) ==
    /\ DataEvent(s, n, "REQUEST")
    /\ call = Head(Incoming(s)).call
    /\ call.object \in servants[s]

ObjectNotExist(s, n) ==
    /\ DataEvent(s, n, "REQUEST")
    /\ Head(Incoming(s)).call.object \notin servants[s]
    /\ Refuse(s, n)

\* Whether a request carries credentials and whether they are accepted is the
\* applications' business: either may happen.
NoPermission(s, n) ==
    /\ s \in Authenticating
    /\ \E call \in Call : Asks(s, n, call) /\ call.object # NameService
    /\ Refuse(s, n)

BadOperation(s, n) ==
    /\ \E call \in Call : Asks(s, n, call) /\ call.method = "unknown"
    /\ Refuse(s, n)

\* _is_a is answered whether or not a response is expected.
IsA(s, n) ==
    /\ \E call \in Call : Asks(s, n, call) /\ call.method = "_is_a"
    /\ channel' = Answered(s, n, ReplyTo(Head(Incoming(s)), "value"))
    /\ UNCHANGED <<requestId, pendingReplies, servants, running, socket,
                   id, promise, parent, executed, finished>>

\* method.call(servant, decoder, encoder): the _orb_ method decodes its
\* arguments and enters the implementation, up to its first await.
Dispatch(s, n) ==
    LET request == Head(Incoming(s)) IN
    \E call \in Call :
        /\ Asks(s, n, call)
        /\ call.method \in {"operation", "setter"}
        /\ running' = [running EXCEPT ![s] = @ \cup
               {[id |-> request.id, responseExpected |-> request.responseExpected,
                 call |-> call]}]
        /\ \/ /\ executed' = [executed EXCEPT ![call] = @ + 1]
              /\ finished' = [finished EXCEPT ![call] = "running"]
           \/ /\ finished' = [finished EXCEPT ![call] = "badArguments"]
              /\ UNCHANGED executed
        /\ channel' = Consumed(s, n)
        /\ UNCHANGED <<requestId, pendingReplies, servants, socket,
                       id, promise, parent>>

\* The application's implementation completes.  It does not before the calls it
\* awaits are settled.
ImplementationDone(c) ==
    /\ finished[c] = "running"
    /\ socket[Servant(c)] # "crashed"
    /\ \A d \in Call : parent[d] = c => promise[d] # "pending"
    /\ \E how \in {"returned", "threw"} :
           finished' = [finished EXCEPT ![c] = how]
    /\ UNCHANGED <<requestId, pendingReplies, channel, servants, running, socket,
                   id, promise, parent, executed, swallowed>>

\* The process of s ends, and with it what it had not read yet.
Abort(s) ==
    /\ socket' = [socket EXCEPT ![s] = "crashed"]
    /\ channel' = [channel EXCEPT ![Peer(s)] = <<>>]

\* An implementation that nobody awaits rejects its promise.  Node ends the
\* process for it; a browser does not (ImplementationDone).
UnhandledRejection(c) ==
    /\ finished[c] = "running"
    /\ ~Awaited(c)
    /\ socket[Servant(c)] # "crashed"
    /\ \A d \in Call : parent[d] = c => promise[d] # "pending"
    /\ finished' = [finished EXCEPT ![c] = "threw"]
    /\ Abort(Servant(c))
    /\ UNCHANGED <<requestId, pendingReplies, servants, running, id, promise,
                   parent, executed, swallowed>>

\* The promise of the _orb_ method settles and the reply, if one is expected,
\* goes out.
Complete(s, a, result) ==
    /\ running' = [running EXCEPT ![s] = @ \ {a}]
    /\ channel' = IF a.responseExpected THEN Sent(s, ReplyTo(a, result))
                                        ELSE channel
    /\ UNCHANGED <<requestId, pendingReplies, servants, socket,
                   id, promise, parent, executed, finished, swallowed>>

\* The skeleton never awaits.
BadMethodResolves(s, a) ==
    /\ a \in running[s] /\ socket[s] # "crashed"
    /\ finished[a.call] \in {"running", "returned", "threw"}
    /\ Complete(s, a, "value")

\* .then(): the implementation has returned, or the skeleton did not await it.
MethodResolves(s, a) ==
    /\ a \in running[s] /\ socket[s] # "crashed"
    /\ IF Awaited(a.call) THEN finished[a.call] = "returned"
                          ELSE finished[a.call] \in {"running", "returned", "threw"}
    /\ Complete(s, a, "value")

\* The exception is swallowed.
BadMethodRejects(s, a) ==
    /\ a \in running[s] /\ socket[s] # "crashed"
    /\ finished[a.call] \in {"badArguments", "threw"}
    /\ running' = [running EXCEPT ![s] = @ \ {a}]
    /\ UNCHANGED <<requestId, pendingReplies, channel, servants, socket,
                   id, promise, parent, executed, finished, swallowed>>

\* .catch(): the arguments did not decode, the awaited implementation threw, or
\* its result does not encode.
MethodRejects(s, a) ==
    /\ a \in running[s] /\ socket[s] # "crashed"
    /\ \/ finished[a.call] = "badArguments"
       \/ Awaited(a.call) /\ finished[a.call] \in {"threw", "returned"}
    /\ Complete(s, a, "exception")

\* Resolving or rejecting a promise that is settled changes nothing.
Settled(c, as) ==
    IF promise[c] = "pending" THEN [promise EXCEPT ![c] = as] ELSE promise

\* The handler registered for the id of a reply is removed and called; when it
\* cannot decode the result the promise is rejected.
ReceiveReply(s, n) ==
    /\ DataEvent(s, n, "REPLY")
    /\ LET reply == Head(Incoming(s)) IN
       /\ reply.id \in DOMAIN pendingReplies[s]
       /\ pendingReplies' = [pendingReplies EXCEPT ![s] = MapDelete(@, reply.id)]
       /\ \E as \in IF reply.result = "value" THEN {"resolved", "failed"}
                                              ELSE {"rejected"} :
              promise' = Settled(pendingReplies[s][reply.id], as)
    /\ channel' = Consumed(s, n)
    /\ UNCHANGED <<requestId, servants, running, socket, id, parent,
                   executed, finished>>

UnexpectedReply(s, n) ==
    /\ DataEvent(s, n, "REPLY")
    /\ Head(Incoming(s)).id \notin DOMAIN pendingReplies[s]
    /\ channel' = Consumed(s, n)
    /\ UNCHANGED <<requestId, pendingReplies, servants, running, socket, id,
                   promise, parent, executed, finished>>

-----------------------------------------------------------------------------
\* The socket's "close" event, whoever closed it: what the peer sent and s has
\* not read is gone.  pendingReplies stays as it is.
SocketClosed(s) ==
    /\ socket[s] = "open"
    /\ socket' = [socket EXCEPT ![s] = "closed"]
    /\ channel' = [channel EXCEPT ![Peer(s)] = <<>>]
    /\ UNCHANGED <<requestId, pendingReplies, servants, running, id, promise,
                   parent, executed, finished, swallowed>>

\* socketError throws out of the event handler, which ends the process.
SocketError(s) ==
    /\ socket[s] = "open"
    /\ Abort(s)
    /\ UNCHANGED <<requestId, pendingReplies, servants, running, id, promise,
                   parent, executed, finished, swallowed>>

UnregisterServant(s, o) ==
    /\ socket[s] # "crashed"
    /\ o \in servants[s] \ {NameService}
    /\ servants' = [servants EXCEPT ![s] = @ \ {o}]
    /\ UNCHANGED <<requestId, pendingReplies, channel, running, socket, id,
                   promise, parent, executed, finished, swallowed>>

-----------------------------------------------------------------------------
\* socketRcvd: one data event of s.
SocketRcvd(s) ==
    \E n \in 1 .. Len(Incoming(s)) :
        \/ ObjectNotExist(s, n)
        \/ NoPermission(s, n)
        \/ BadOperation(s, n)
        \/ IsA(s, n)
        \/ Dispatch(s, n)
        \/ ReceiveReply(s, n)
        \/ UnexpectedReply(s, n)

MethodSettles(s) == \E a \in running[s] : MethodResolves(s, a) \/ MethodRejects(s, a)

Application ==
    \/ \E c \in Call : \/ \E p \in Call \cup {NoCall} : TwowayCall(c, p)
                       \/ OnewayCall(c)
    \/ \E s \in Side, o \in Object : UnregisterServant(s, o)

Network == \E s \in Side : SocketClosed(s) \/ SocketError(s)

Next ==
    \/ Application
    \/ Network
    \/ \E s \in Side : SocketRcvd(s) \/ MethodSettles(s)
    \/ \E c \in Call : ImplementationDone(c) \/ UnhandledRejection(c)

Spec == Init /\ [][Next]_vars

(***************************************************************************)
(* The event loop hands what has arrived to socketRcvd, though not each    *)
(* message in an event of its own, and runs the continuation of settled    *)
(* promises; implementations are assumed to come to an end.                *)
(***************************************************************************)
FairSpec ==
    /\ Spec
    /\ \A s \in Side : WF_vars(SocketRcvd(s)) /\ WF_vars(MethodSettles(s))
    /\ \A c \in Call : WF_vars(ImplementationDone(c))

-----------------------------------------------------------------------------
(***************************************************************************)
(* Properties.                                                             *)
(***************************************************************************)

TypeOK ==
    /\ requestId \in [Side -> Nat]
    /\ DOMAIN pendingReplies = Side
    /\ \A s \in Side : /\ DOMAIN pendingReplies[s] \subseteq Nat
                       /\ \A i \in DOMAIN pendingReplies[s] :
                              pendingReplies[s][i] \in Call
    /\ channel \in [Side -> Seq(Request \cup Reply)]
    /\ servants \in [Side -> SUBSET Object]
    /\ running \in [Side -> SUBSET Activation]
    /\ socket \in [Side -> {"open", "closed", "crashed"}]
    /\ id \in [Call -> Nat]
    /\ promise \in [Call -> {"none", "pending", "oneway", "resolved",
                            "rejected", "failed"}]
    /\ parent \in [Call -> Call \cup {NoCall}]
    /\ executed \in [Call -> Nat]
    /\ finished \in [Call -> {"no", "running", "returned", "threw", "badArguments"}]
    /\ swallowed \in SUBSET Call

\* No request id has outgrown the 32 bits it has on the wire yet.
NoWrap == \A s \in Side : requestId[s] < NextRequestId(IdModulus)

(***************************************************************************)
(* A promise that is pending can still be settled: its handler is          *)
(* registered, for the id its request was given, and no later call took    *)
(* its place (orb.ts, twowayCall and the REPLY branch of socketRcvd).      *)
(***************************************************************************)
HandlerKept ==
    \A c \in Call : promise[c] = "pending" =>
        /\ id[c] \in DOMAIN pendingReplies[c.caller]
        /\ pendingReplies[c.caller][id[c]] = c

(***************************************************************************)
(* The handler that the id of a reply under way finds is the one of the    *)
(* call that the reply answers, however many calls of both sides overlap   *)
(* and in whatever order the servants' methods complete; and no reply is   *)
(* under way that nobody waits for, but for a oneway _is_a.  Holds as long *)
(* as the ids fit the wire (orb.ts, REPLY branch of socketRcvd).           *)
(***************************************************************************)
Correlation ==
    NoWrap => \A s \in Side : \A k \in DOMAIN Incoming(s) :
        LET reply == Incoming(s)[k] IN reply.type = "REPLY" =>
            IF reply.call.twoway
            THEN /\ reply.id \in DOMAIN pendingReplies[s]
                 /\ pendingReplies[s][reply.id] = reply.call
            ELSE /\ reply.call.method = "_is_a"
                 /\ reply.id \notin DOMAIN pendingReplies[s]

(***************************************************************************)
(* An implementation is entered at most once for a call, and only while    *)
(* its request is not on its way any more; what the caller has been told   *)
(* agrees with how the implementation ended: success of an awaited         *)
(* operation means it returned, and no caller has an answer while the      *)
(* operation it awaits still runs (orb.ts, REQUEST branch of socketRcvd).  *)
(***************************************************************************)
AnswerAgrees ==
    NoWrap => \A c \in Call :
        /\ executed[c] = IF finished[c] \in {"no", "badArguments"} THEN 0 ELSE 1
        /\ promise[c] = "resolved" =>
               IF Awaited(c) THEN finished[c] = "returned"
                             ELSE finished[c] # "badArguments"
        /\ Awaited(c) /\ promise[c] = "rejected" => finished[c] # "running"

(***************************************************************************)
(* Calls of one side are entered in the order in which they were made:     *)
(* none is entered while an earlier one of its caller is still under way   *)
(* (FIFO transport, and socketRcvd enters the method synchronously).       *)
(***************************************************************************)
StartInOrder ==
    \A s \in Side : \A k \in DOMAIN channel[s] :
        channel[s][k].type = "REQUEST" =>
            \A c \in Call : c.caller = s /\ id[c] > id[channel[s][k].call] =>
                executed[c] = 0

(***************************************************************************)
(* The call path implements RemoteCalls: ids, messages, interleavings and  *)
(* lost connections cannot be told from the abstract calls.                *)
(***************************************************************************)
Remote == INSTANCE RemoteCalls
ImplementsRemoteCalls == Remote!Spec

\* What the messages swallowed keep waiting: their own calls, and those whose
\* methods await one of these.
HeldUp(c) ==
    \A S \in SUBSET Call :
        /\ swallowed \subseteq S
        /\ \A d \in S : parent[d] \in S \cup {NoCall}
        => c \in S

(***************************************************************************)
(* A two-way call is settled, also the calls back that a method makes, and *)
(* awaits, while its own caller waits for it: awaiting blocks neither      *)
(* event loop.  Two things can keep a call pending for ever, and nothing   *)
(* else does: the connection is lost, which rejects no promise             *)
(* (orb.ts:718), or a message of this call, or of one its method awaits,   *)
(* shared a data event with an earlier one (orb.ts:487-488).               *)
(***************************************************************************)
EveryCallSettles ==
    \A c \in Call :
        promise[c] = "pending" ~>
            \/ promise[c] # "pending"
            \/ HeldUp(c)
            \/ \E s \in Side : socket[s] # "open"
=============================================================================
