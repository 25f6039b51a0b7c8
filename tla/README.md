# A formal model of corba.js

corba.js is a CORBA object request broker (ORB) for Node and the browser, with
an IDL compiler that generates the stubs and skeletons.  This directory holds
TLA+ modules that model it, the TLC configurations that check them on small
instances, and theorems whose proofs TLAPS checks for instances of any size.
Line numbers refer to the files below `src/src/`.

    tlc -config callbacks.cfg MCOrbCalls     # one run; PROJECT.json lists them all
    tlapm OrbCallsProofs.tla                 # the proofs of one module

## 1. The system

| Component | State | Operations | Talks to |
|---|---|---|---|
| Call path (`orb/orb.ts` 427-722, the generated stubs and skeletons) | per connection `requestId`, `pendingReplies`; per ORB `servants` | `twowayCall`, `onewayCall`, `socketRcvd`, `socketError` | transports (send, data events), encoder and decoder, implementations (awaited promises) |
| Connection management (`orb/orb.ts` 273-425) | `connections`, `stubsById` of each connection, `protocols` | `getConnection`, `stringToObject`, `iorToObject`, `shutdown`, `replaceAllConnections`, `socketClosed` | transports (connect, close, events), the naming service of the peer (an awaited call) |
| Transports (`net/tcp.ts`, `tls.ts`, `ws.ts`, `browser.ts`) | the socket, `serverSocket` | `connect`, `listen`, `close`, `send`, the socket's callbacks | the ORB: `addConnection`, `socketRcvd`, `socketError`, `socketClosed` |
| Exception handlers and events (`orb.ts` 217-247, 724-770) | a map of handlers, `listeners` | `installSystemExceptionHandler`, `connectionClose`, `addEventListener`, `dispatchEvent` | the browser transport, the application |
| References and naming (`orb.ts` 772-843, 900-999; `giop.ts` 670-785, 1490-1527) | `servants`, `stubsByName`, `stubsById`, the bindings | `registerServant`, `bind`, `resolve_str`, encoding and decoding a reference | all of the above |
| Authentication (`orb.ts` 525-552, 870-897) | authenticators, ACL | `setIncomingAuthenticator`, `aclAdd`, `release` | the call path |
| GIOP and CDR (`giop.ts`, `asn1.ts`, `ior.ts`) | offset, byte order, stacks of encapsulations, tables of the objects and ids already seen | one per CDR type, headers, service contexts, encapsulations, references, values, ASN.1 | the call path, generated code |
| URLs (`url.ts`) | the parser's position | `parse`, `toString` | `stringToObject` |
| IDL compiler (`idl/`) | lexer state, tokens put back, symbol scopes | scan, parse, write TypeScript or C++ | files |

**What is hard here.**  JavaScript runs handlers one at a time, so the state of
an ORB is only ever torn where the code awaits.  But it awaits in the middle of
lookups and of `replaceAllConnections`; methods of servants are suspended while
others run, and call back into the peer that is waiting for them; both ends
count request ids on the same connection; a promise of a call lives in a map
that only a matching reply clears; sockets close or fail between any two steps,
and nobody tells the calls and the lookups that depend on them; exception
handlers run inside the event that lost the connection and change what it is
going through.  On the wire, two independent implementations of one format have
to agree: encoder and decoder compute the padding in different ways, sizes are
filled in afterwards, encapsulations change the byte order, and values refer
back by offsets.  The IDL parser tries productions and puts their tokens back.
PROJECT.json lists these hazards with the line at which each bites, and the
properties that cover it.

**What makes each part correct.**

* Call path: a reply finds the call it answers; a call is entered at most once;
  what its caller is told agrees with how it ended; calls start in order; calls
  and call backs settle unless the connection is lost, or a message they wait for
  shares a data event with another one, which swallows it.
* Connection management: the list agrees with the sockets; an object has one
  stub per connection; a lookup returns the object that was asked for, and ends if
  the name service's answer reaches it.
* Transports: a connection can be used after `connect` returned; messages are
  delivered in order; a lost connection is reported.
* Events: every handler installed for a stub is called when its connection
  fails, once, whatever the other handlers do.
* References: passing an object on does not change what it denotes.
* GIOP and CDR: what is encoded is decoded again, with any alignment and in either
  byte order; of values a tree is decoded, and no graph as another one.
* URLs: a location is parsed to what it means, and its text to it again.
* IDL compiler: the lexer's tokens and the parser's tree are those of the text,
  names are resolved to the declarations in scope, everything else is refused.

## 2. Modules

| Module | What it is |
|---|---|
| `Calls` | what a remote call is: caller, servant, kind |
| `RemoteCalls` | abstract specification of calls: no ids, messages, connections |
| `OrbCalls` | the code of the call path, both ends of one connection |
| `Connections` | the connections of one ORB, lookups and stubs |
| `BrowserConnections` | connections in a browser, exception handlers, events |
| `Denotations` | abstract specification of references: who has, and who is sent, what |
| `References` | references between ORBs as they are written and taken |
| `Cdr`, `Asn1`, `GiopHeaders`, `Iors` | operators of the encoder and decoder: CDR; ASN.1 on top of it; headers and service contexts; object references |
| `CdrStream` | a message of items written by one ORB and read by another (extends `Iors`) |
| `GiopMessages` | a request and its reply octet by octet (extends `GiopHeaders`) |
| `ValueGraphs` | graphs of value types, encoded and built again (extends `Cdr`) |
| `Urls` | object URLs, parsed and written |
| `IdlLexer`, `IdlParser` | operators: `lex()`, and one for each production |
| `IdlTexts` | texts that somebody writes, edits, lays out or types (extends both) |
| `MC...` | constants of the small instances |
| `OrbCallsProofs` | theorems of the call path and its refinement |
| `ConnectionsProofs` | theorems of the list of connections, and of stubs |
| `BrowserConnectionsProofs` | theorems of exception handlers and of the browser's list |
| `ReferencesProofs` | theorems of references, and their refinement |
| `FoldFacts` | what a fold over a sequence keeps, for any operator |
| `CdrProofs` | theorems of the encoder's and the decoder's operators (extends `Iors`) |
| `GiopMessagesProofs` | theorems of requests and their replies (extends `GiopMessages`, `CdrProofs`) |
| `CdrStreamProofs` | theorems of the encoder's buffer and of what is read back (extends `CdrStream`, `CdrProofs`) |

The call path, connection management, the browser's connections and references
are four modules, as each needs another part of an ORB's state in detail: one
connection between two ORBs, all connections of one ORB, the sockets with their
handlers, the servants and stubs of several ORBs.  They meet in
`stubsById`, which `Connections` fills and `References` gives its meaning, and
in the messages: `OrbCalls` takes it for granted that a message is read as it
was written, which `GiopMessages`, `CdrStream` and `ValueGraphs` check.

### OrbCalls

The state is that of `Connection` and `ORB`: `requestId`, `pendingReplies`,
`servants`; `channel` is what one side has written and the other not read,
`running` the promises that `method.call(...)` returned and that have not settled.
`id`, `parent`, `executed` and `swallowed` are history: they are read by no guard
but for `parent`, which says which running method awaits a call.  `swallowed` holds
the calls whose request or reply a data event has dropped.

| Action | Code |
|---|---|
| `TwowayCall`, `OnewayCall` | `orb.ts` 431-480.  The id is taken and the handler registered before the arguments are encoded; the second disjunct is the encoder throwing |
| `Dispatch` | `socketRcvd`, REQUEST 506-592: `method.call` decodes the arguments and enters the implementation up to its first await |
| `ObjectNotExist`, `NoPermission`, `BadOperation`, `IsA` | the other ends of the REQUEST branch, with their replies; `_is_a` is answered even to a oneway request |
| `ImplementationDone` | the application's code, external |
| `MethodResolves`, `MethodRejects` | `.then` and `.catch` 592-631 and the skeletons' awaits: a twoway operation is awaited, an attribute's setter and a oneway operation are not |
| `ReceiveReply`, `UnexpectedReply` | REPLY 634-705 |
| `SocketClosed`, `SocketError`, `UnhandledRejection` | the transport's events; `socketError` throws and ends the process, and so does, in Node, the rejection of an implementation nobody awaits |
| `UnregisterServant` | 781-783 |

A message is a record with the id and the flags the code reads; `call` stands
for its contents.  `ReceiveReply` uses the id alone to find the handler.  A data
event holds one message (WebSocket, `Framed`), or any number of those that are
waiting (TCP, TLS), of which `socketRcvd` decodes the first and drops the
others (488).  Whether credentials are accepted, whether a decoder throws and how
an implementation ends are nondeterministic.  `IdModulus` is 2^32 in the
program; `WireId` is the conversion of `GIOPEncoder.ulong`.

**RemoteCalls** has `Issue`, `Start`, `Misfit` (the arguments do not decode),
`Finish`, `Settle`.  `Settle` says what may be reported: success of an operation
only after it has returned, success of a setter as soon as it has been entered,
failure never of an operation that is still running.  `OrbCalls` maps to it with
the identity on `promise`, `executed` and `finished`.

### Connections

One ORB.  A lookup is a process of up to three awaits (`pc`): a connection to
the name service, its answer, a connection to the object.  Between them
anything may happen: other lookups, references in messages, sockets that
connect, fail, are accepted, end and close, `shutdown`, and
`replaceAllConnections`, which awaits once for every connection.

| Action | Code |
|---|---|
| `Begin`, `Resolve`, `Answer`, `NotFound`, `Return`, `Reject` | `stringToObject` 365-408, `iorToObject` 410-425, split at their awaits |
| `AnswerSwallowed` | `socketRcvd` 486-488: the name service's answer shares a data event with a message in front of it, and is dropped; the lookup then waits for ever |
| `GetConnection` | 333-361 up to the await: the first listed connection with that remote address, or the first protocol's `connect` |
| `ReceiveReference` | `giop.ts` 1490-1527 |
| `Connected`, `ConnectFails`, `Accept`, `SocketClosed` | the callbacks in `tcp.ts` 48-79, `orb.ts` 718-722 |
| `Shutdown`, `ShutdownThrows` | 301-309, `tcp.ts` 81-86.  One step: what it awaits are microtasks, the sockets' events come later |
| `ReplaceAllConnections`, `ReplaceNext`, `ReplaceMove`, `ReplaceDone`, `ReplaceFails` | 312-331, split at the await |

The address of a connection is what its socket reports: `Resolved(host)` while
it is open and `Undefined` once it is destroyed.  `Sought` is `getConnection`'s
"::1" that becomes "localhost".  A key is a sequence of bytes, because
`Uint8Map.unhex` (modelled by `Unhex`) moves bytes.  Ports are part of `Host`:
an element of `Host` stands for a host and its port.  `PeerEnds` stands for the
time in which a socket's peer has closed it and "close" has not been
dispatched; a socket that is shut down by this ORB is `destroyed` meanwhile.
The application calls `replaceAllConnections` only after the last call has
returned.  `ReceiveReference` brings servants, never the root naming context.

### BrowserConnections

| Action | Code |
|---|---|
| `Connect`, `Opened`, `ConnectFails` | `net/browser.ts` 34-78.  `onopen` resolves the promise and `addConnection` follows in the same turn |
| `OnError` | 107-109: `connectionClose` begins |
| `NextStub`, `CallHandler` | `orb.ts` 237-247: the list of a stub's handlers is taken out of the map, then gone through; a handler may install another, release a stub, or throw, which ends both loops |
| `OnClose` | `browser.ts` 132-134, `socketClosed` 718-722 |
| `Shutdown` | 301-309 |
| `InstallSystemExceptionHandler`, `Release` | 229-236, 789-791 |
| `AddEventListener`, `RemoveEventListener`, `SetOnclose`; `DispatchEvent` | 724-770 |
| `ReceiveStub` | `giop.ts` 1512-1526 |

While handlers run (`running`), nothing but they may happen: they are called
synchronously.  `called`, `installs`, `old`, `untold`, `gone`, `late`, `told` and
`lost` are history; `installs` numbers the handlers.  `old` has those installed before
their connection failed, `untold` those installed before the other side closed it,
`gone` those whose stub was released before they were taken out of the map, or that a
throw has cost, `late` those whose stub was released after that (a handler knows the
stub it was installed `of`).  The code that would reconnect is disabled
(browser.ts:111).

### References and Denotations

An end of a connection reports an address for itself and one for its peer
(`Local`, `Remote`: functions of the instance).  `Reference` is what
`GIOPEncoder.reference` writes: for a servant the own address, for a stub the
peer's, with the object's id.  `Receive` is `GIOPDecoder.object` 1490-1527: a
servant of the own ORB if the address is the own one and the id is found, else
the end's stub of that id, else a new stub, or an error when its class is
not registered (`ObjectAdapter`).  `Bind` and `Resolve` are the naming service
(`orb.ts` 968-998); `RegisterServant`, `UnregisterServant` and
`RegisterStubClass` 772-787.  A field `x` of a message is history: the object
it was made from.

**Denotations** knows no ids and no addresses: `Create` an object, `Pass` one
that one has to another ORB, `Receive` it, `Drop` it.  The mapping takes a stub
to its peer's servant of the same id.

### Cdr, Asn1, GiopHeaders, Iors

Pure operators: an encoder or decoder is a record, an operation takes it to the
record behind.  Octets are kept as they are; a number is its octets from the
most significant on.  `Put...` are the operations of `GIOPEncoder`, `Get...` and
`Scan...` those of `GIOPDecoder`, each with its own computation of the padding
(`Aligned` 811-836 against `AlignedTo` 1813-1818), its own stack of
encapsulations, and an exception where the code's `DataView` throws (`Throw`).
The buffer starts with `InitialSize` octets and is doubled as in
`alignAndReserveVarying` 838-850.

| Operators | Code |
|---|---|
| `Reserve`, `ReserveVarying`, `Put...`, `FillinSize`, `PutBeginEncapsulation`, ... | `giop.ts` 446-472, 787-969 |
| `GetNumber`, `GetString`, `GetSequence...`, `GetBeginEncapsulation`, ... | 1055-1071, 1532-1684, 1813-1818 |
| `PutAsn1...`, `GetAsn1...`, `Asn1Expect...` | 975-1026, 1686-1808 |
| `PutRequest`, `PutReply`, `PutLocateReply`, `SetGIOPHeader`, `SkipReplyHeader` | 477-556, 641-643 |
| `PutServiceContext`, `PutEstablishSecurityContext`, `GetServiceContext`, `GetSecurityAttributes` | 559-631, 184-285, 1198-1259 |
| `ScanGIOPHeader`, `ScanRequestHeader`, `ScanReplyHeader`, `ScanLocate...` | 1073-1195 |
| `PutReference`, `PutNilReference`, `GetReference`, `GetProfile`, `Miscounted` | 670-736, 1261-1377 |
| `PutPeerReference`, `PutProfile`, `PutPeerContext` | other ORBs, external |

### CdrStream, GiopMessages, ValueGraphs

`CdrStream`: a `plan` says what the message is made of; `Write`, `Open` and
`Close` use the encoder as generated code does, `Send` cuts the buffer to its
offset, `Read`, `Enter`, `Leave` and `LeaveEarly` use the decoder, on a platform
of either byte order (`sequenceFloat` and `sequenceDouble` read with the
platform's).  `LeaveEarly` is what `serviceContext` and `reference` do with what
they do not know: they go to the end of the encapsulation.

`GiopMessages`: `CallCore` writes a request as `callCore` does, `FirstPiece` takes a
prefix of it for the message as `socketRcvd` would, `ReceiveRequest`,
`MethodResolves`, `MethodRejects`, `Refuse`, `AnswerLocate` and `ReceiveReply` are
`socketRcvd` 486-705 with its encoder for the reply, which is used again when the
result does not encode.  `PeerReplies` and `PeerLocates` are other ORBs.

`ValueGraphs`: the recursion of `GIOPEncoder.object` (717-785) and
`GIOPDecoder.object` (1380-1488) as a stack of frames, one action for each visit
of a field: null, an indirection, a value with its repository id, with an
indirection to one or with none, an octet.  `built` are the receiver's objects;
`objectPosition`, `Here` and `There` are the encoder's table and what either side has
registered.  A class has three names, as in the code: `Name`, its qualified name, in
its repository id and in the table that `lookupValueType` (816-825) reads;
`Identifier`, without its modules, which the generated decoders pass for a formal type
(`typeIDLtoGIOPTS.ts` 17); and `Constructor`, which `object()` (773) compares to find
out whether an object is of the class it is sent as.  corba.js always writes a
repository id; `bare` is history: the objects of another ORB that has left it out.

### Urls

A text is a sequence of pieces.  One operator for each method of `UrlParser` and
`UrlLexer`; `WriteDown` writes a location as the CORBA specification has it and
`Meant` says what it means, `Type` types anything, `ParseString` parses what
`toString()` makes of the result.  `getc()` behind the end of the text throws,
as in the code (`WhileGetc`).

### IdlLexer, IdlParser, IdlTexts

`lex` goes through the states of `Lexer.lex` (`Start`, `Escaped`, `InWord`,
`AfterSlash`, `LineComment`, `InComment`, `AfterStar`, `AfterColon`) character by
character, with `Getc` and `GetcUngetc` for line and column; the more than
sixty keywords are the set `Reserved`.  `IdlParser` has one operator for
each production of `idl-parser.ts`, in its order of trial; tokens that are put
back are tokens not taken.  `IdlTexts` compares the tree with the text by writing
the tree down again (`TextOf`), so that nothing of it may be lost or moved.

## 3. Runs

| Run | Instance | Question |
|---|---|---|
| `callbacks` | two overlapping calls one way, a call back the other way; TCP data events; ids 0, 2 and 1 modulo 4 | do overlapping calls keep their handlers, ids, order and answers, and which settle? |
| `kinds` | setter, oneway, oneway `_is_a`, unknown operation; TCP data events | does the call path implement `RemoteCalls`; do answers to setters and oneways agree with how they ended? |
| `lookups` | two lookups with different ways to one object, two hosts, three connections | one stub per object and connection, and the right one? |
| `replace` | two lookups, one of a host by its address, one by a name; `replaceAllConnections`, two connections, a protocol that only connects | does the list agree with the sockets, and which lookups end? |
| `browser` | two connections, three stubs, three handlers, one listener | which handlers are called, and how often; is the list clean? |
| `references` | two ORBs, two connections between them, a servant each, one name | do references denote what they were made from? |
| `stream` | six plans: three items of 11 kinds; three in two levels of encapsulations; ASN.1; long tags; three references; single references with all profiles | is everything read as it was written, in step? |
| `messages` | four requests, three versions, four senders, five sets of contexts, two byte orders, all first pieces of one request | are requests and replies scanned as they were sent? |
| `values` | trees of up to three objects; seven classes: derived, in modules, of the same name, not registered, beginning with a value; all graphs of two of them; one or two arguments | is the graph built that was sent? |
| `urls` | 738 locations, 22 224 typed texts | are locations parsed to what they mean, and their strings to them? |
| `idl` | 19 definitions, up to three in a text, two with an edit or a layout; more than 2000 typed texts | are texts lexed, parsed or refused as written? |
| `cycles` | as `values` | violated: a graph that refers to an object twice is refused |

**Bounds.**  A call is made once, so the number of calls bounds everything in
`OrbCalls`; three are enough for two overlapping ones of one side and one that
runs against them, or a chain of call backs.  The modulus of 4 holds the ids of three
calls: no run lets an id outgrow its width, as 2^31 calls do in the program, and
`Correlation` and the refinement say nothing of what follows (`NoWrap`).  Both runs of
`OrbCalls` have TCP's data events; a WebSocket's, with one message each, are among them, and
swallow none.  In
`Connections` the connections there may ever be are a set; two lookups need at
most two at once, the third allows one to be lost and replaced.  In `replace` the host
that is looked up by its address is found again in the list, and the lookup uses the
connection that is there; the one looked up by a name never is, as a connection reports
an address, and opens one of its own.  `MaxInstalls`
bounds the handlers: two of one stub and one of another, or one that is installed by a
handler.  `MaxId` bounds the servants of an ORB: with one each, every id means
two objects, which is what a reference may be confused with.  In `CdrStream` the
padding depends on the offset modulo 8 and the size of the buffer: three items
of any width reach every residue, and a buffer that starts with three octets has to
grow for nearly every item.  The names in `GiopMessages` and `CdrStream` have every length
modulo four.  Three objects make every shape of a second reference: from a member,
an ancestor, the object itself.  The classes of `values` are there for their names and
layouts: one whose first field is a value, whose child begins where a second reference
to its parent is looked for; one in a module that is called like one outside; and one
that is not registered but called like the one it derives from.  Definitions of IDL are read one after the other,
with a stack of scopes: two of them and a module around reach all lookups.  No
temporal property is checked with symmetry (`lookups` alone uses it).  All
configurations say CHECK_DEADLOCK FALSE: the application may have made all its
calls, every connection may have been used, a message has been read.

**Fairness.**  `OrbCalls!FairSpec`: the event loop delivers data that has
arrived and runs the continuations of settled promises (weak fairness of
`SocketRcvd` and `MethodSettles`), and an implementation whose calls have been
settled comes to an end, which the code has to assume of applications.  That data is
delivered does not make every message count: a data event may swallow some of its
messages.  Nothing makes the application call, nor a socket close.
`Connections!FairSpec`: a connect ends with one of its two events (the operating
system's timeout), the peer's name service answers while its connection stays open,
and its answer is either read or swallowed; and the event loop
continues what was awaited.  `BrowserConnections!Fairness`: a WebSocket that has
failed or was told to close dispatches "close", as its specification says, and
the loops over stubs and handlers go on; nothing makes an open socket close.
`replace`'s and `browser`'s properties would be false without it, as a step may
always be left out.

## 4. What the checks show

**Calls.**  Every reply finds its call, for every interleaving of calls and call
backs, refusals, failing encoders, unregistered servants, closed sockets and
crashes, as long as no id has outgrown its 32 bits (`NoWrap`).  `pendingReplies`
counts on in JavaScript's numbers while the reply carries 32 bits, so after
2^31 calls on one connection no reply finds its handler.  Nothing a caller can
see distinguishes this from `RemoteCalls`; the setter of an attribute is weaker
than an operation: it is reported as done when it has begun.  `EveryCallSettles` says
which calls settle, and has two exceptions, both of which the run needs.  Nothing rejects
the calls of a connection that is lost: they stay pending for ever.  And over TCP or TLS a
data event with several messages swallows all but the first (orb.ts:487 has a FIXME):
the call whose request or reply is among them stays pending with its connection open,
and so do the calls whose methods wait for it.

**Connections.**  Lookups return the stub of the object asked for.  They never
end when the connection to the name service is lost while it is being asked, or its answer
shares a data event with a message in front of it: `LookupEnds` names the two states in
which a lookup stays.
`replaceAllConnections` leaves an old connection open, and listed nowhere,
when the new one fails (`ListAgrees` names this exception).

**In the browser.**  Handlers are called when a connection *fails*, each one once,
also when a handler of one stub installs or releases another; one that throws
costs those behind it.  When the *other side closes* the connection none is called, then
or later, though orb.ts:217 says that handlers are called when a stub's connection is
lost: `AllTold` states both.  A handler that is released is not called any more, with one
exception: those behind a handler that releases their own stub are called all the same, as
the list has been taken out of the map before (`CalledOnce`, its last part).

**Values.**  What is built is what was sent, for trees always, for graphs as far as they
are not refused (see the finding).  `GraphBuilt` and `TreesCanBeBuilt` name what they
except: values that another ORB has written without a repository id, of a class in a module
(they are looked up by the wrong name), or referred to twice while their first field is a value
(the second reference silently yields that value); and objects of a class that is
not registered but has the name of one that is.

**References** denote what they were made from if every ORB talks to one peer, the
two ends of a connection agree on their addresses, and no servant is
unregistered while it is referred to.  Each of the three is needed (below).

**On the wire** encoder and decoder agree for everything that they write
themselves, but for the deviations below.  A request of which only a piece has
arrived is never dispatched to another object or operation than its own: it
either throws or loses a part of its arguments or of its credentials.

**The IDL compiler** accepts what the pool's definitions say and refuses what
differs from them by a token, but for the deviations below, which are left out of the pool,
of the edits (`Replacement`) or of the typed texts.

**Finding** (the run that ends in a violation): `cycles`.  The project's
README.md:17 says data structures can be "trees or cyclic graphs".  A second
reference to an object is encoded as an indirection, and the decoder looks it
up four octets behind the key under which it has entered the object
(giop.ts:1474 against 1480-1483), and enters it only after its constructor has
decoded all its members (1473), too late for a cycle: MARSHAL is thrown.  The keys
being four octets off does worse where another ORB leaves out a repository id and the first
field of the object is a value: this one is entered just where the object is looked for,
and a second reference to the object becomes one to its first field, without an error.

**Other deviations from what one would expect**, met while modelling; the models
have them, and the properties name or leave out the case:

| Where | What |
|---|---|
| `orb.ts` 349 | two lookups at once open two connections to one peer (`Connections!OneConnectionPerPeer` does not hold) |
| `orb.ts` 303, `tcp.ts` 83 | `shutdown` throws "internal error" when a protocol never listened, and closes no connection (`NoInternalError` does not hold) |
| `uint8map.ts` 56 | `unhex` writes to `values[i]` with `i` counted in digits, so `replaceAllConnections` moves stubs to keys that are not theirs (`StubsStayFound` does not hold) |
| `orb.ts` 487-488 | of the messages in a data event all but the first are dropped: calls and lookups wait for them for ever |
| `browser.ts` 132 | a connection that the server closes is lost without its exception handlers being called |
| `orb.ts` 240-244 | a handler that releases its own stub does not keep the handlers behind it from being called |
| `orb.ts` 719, 729 | listeners register for "close", "closed" is dispatched |
| `giop.ts` 678 | a stub of a third ORB is encoded with the address of the connection it is sent over; the receiver takes it for its own object (`References` without `OnePeer`) |
| `giop.ts` 1506-1513 | a reference to a servant that was unregistered meanwhile is taken for the sender's object (`InUse`) |
| `browser.ts` 80-85 | a browser's own address is made up, so a call back object that comes home is taken for the server's (without `AddressesAgree`) |
| `giop.ts` 1474, 1480 | a second reference to an object that begins with a value and has no repository id yields that value (`Mistaken`) |
| `giop.ts` 773 | whether an object is of a registered class is asked of the name of its constructor: one of a derived class with the same name is sent as its base, without its own fields |
| `orb.ts` 816, `typeIDLtoGIOPTS.ts` 17 | the formal type of a value without a repository id is looked up by its identifier, without its modules: it is not found, or another class is (`Misnamed`) |
| `giop.ts` 1293 | the loop over components counts with the variable of the loop over profiles (`Miscounted`): profiles are left unread |
| `giop.ts` 1723, 1015 | ASN.1 tags of 31 and more and lengths of 128 and more are written in one encoding and read in another; credentials whose token has 256 octets or more are lost |
| `giop.ts` 1212 | the count of listen points is written and not read: host and port of a BiDir context are garbled |
| `url.ts` 292 | a location that ends in a host or port number throws, as `getc()` runs behind the end |
| `url.ts` 277 | a dot is no character of a key: `toString()` of a key with an escaped dot is not parsed to it |
| `idl-lexer.ts` 280 | a word, colon or slash at the very end of a text is dropped |
| `idl-lexer.ts` 147 | an escaped identifier ends at the first digit or underscore |
| `idl-lexer.ts` 76-80 | after a newline was put back the column is the position in the text |
| `idl-lexer.ts` 236 | a lone slash is returned again and again |
| `idl-parser.ts` 1347, 387-400, 1613-1636, 1263-1275, 116 and 129 | a second exception in `raises` and a second base of a value type are refused, as are a module's structs named from outside; missing parameters between commas, and any punctuation for an interface's braces, are accepted |

## 5. What is proved

From the named assumptions of the modules alone, for any number of calls,
servants, connections, lookups, keys, ORBs, names, handlers and items of a
message:

| Theorem | Says |
|---|---|
| `OrbCallsProofs!TypeCorrect` | `Spec => []TypeOK` |
| `Invariant` | `Spec => [](NoWrap => IInv)` |
| `RepliesFindTheirCall` | `Spec => []Correlation` |
| `HandlersStay` | `Spec => []HandlerKept` |
| `AnswersAgree` | `Spec => []AnswerAgrees` |
| `Refinement` | `Spec /\ []NoWrap => ImplementsRemoteCalls` |
| `CallsStartInOrder` | `Spec => [](NoWrap => StartInOrder)` |
| `ConnectionsTypeCorrect` | the same for `Connections` |
| `ListAgreesWithSockets` | `Spec => []ListAgrees` |
| `OneStubPerObject` | `Spec => []StubsFound`, if the application never replaces connections |
| `LookupsFindTheirObject` | `Spec => []RightObject`, if the application never replaces connections |
| `ReferencesProofs!TypeCorrect` | the same for `References` |
| `ReferencesWork` | `Works` implies `Spec => []TakenForItself` |
| `ImplementsDenotations` | `Works` implies `Spec => ReferencesDenote` |
| `EveryHandlerIsTold` | `Spec => []AllTold` of `BrowserConnections` |
| `HandlersCalledOnce` | `Spec => []CalledOnce` |
| `ListHasNoClosed` | `Spec => []ListedNotClosed` |
| `NeverBeyondTheBuffer` | `Spec => []Contained` of `CdrStream` |
| `WrittenIsRead` | `Spec /\ [](Plain /\ Small) => []ReadBack` |
| `ReaderInStep` | `Spec /\ [](Plain /\ Small) => []InStep` |
| `MessageSize`, `ReplySize` | what `SizeTellsLength` says, of every encoder with less than 2^32 octets |
| `MessagesHold` | `Spec /\ [](Len(wire) < UlongLimit) => []MessagesInv` of `GiopMessages`, if `UlongsFit` |
| `SizeIsTheLength` | in the same way `[]SizeTellsLength` |
| `NotMisdirected` | `[]CutNotMisdirected` |
| `ReplyIsTheReply` | `[]ReplyArrives` |

**The invariant of the call path.**  `Correlation` is about replies that are on
their way; to know it of the reply a step creates one has to know it of the
request, and of the running method, from which the reply's id is copied.  `IInv`
therefore follows an id along its whole way: ids that were taken are below
`requestId` and of the side's parity (`IdsTaken`); a handler is registered for
the id of its own call (`HandlersOK`); a request, an activation and a reply carry
their call's id (`RequestsOK`, `RunningOK`, `RepliesOK`); and a call is in at most
one of these places (`OneMessage`, `ReplyAlone`, `RunningOnce`), which makes it
run at most once and its handler survive until its reply.  `NoWrap` holds
for a prefix of every behaviour (`WrapIsForGood`), which is why it may stand as
the premise of an invariant.

**Refinement of calls.**  Each action of `OrbCalls` is one action of
`RemoteCalls` or a stutter: calls are `Issue`, `Dispatch` is `Start` or `Misfit`,
`ReceiveReply` is `Settle`, justified by what `IInv` knows of the reply.

**The invariants of Connections.**  `ListAgrees` is not inductive: opening a
connection could put one in the list that is there already, or that
`replaceAllConnections` holds in its snapshot.  `ListInv` adds that the connection being
replaced is not listed (`AtHand`) and that the snapshot holds no connection
that has yet to be opened (`Underway`); `Awaits` that what is awaited has been asked for.
For the stubs (`StubInv`): `stubs` and `stubsById` are inverse to each other
(`Registered`, `StubsFound`); no connection reports "localhost" (`Addressed`), so
that the one `getConnection` finds has the address asked for; the address of a connection
in use does not change (`UsedStubs`).  With `replaceAllConnections` neither
`StubsFound` nor `RightObject` is claimed, as `unhex` moves the stubs.

**References.**  The assumption `Works` is `OnePeer`, `AddressesAgree` and not
`InUse`.  `TakenForItself` is not inductive: a reference to a servant that is not
registered would be taken for another as soon as one with its id is.  `IInv`
adds that what is on its way is written with the address that tells the two
cases apart and refers to a registered servant (`WireDenotes`), and so does what an
application holds (`HeldRegistered`) and a name is bound to (`NamesRegistered`).
The refinement follows from it: `Receive` is `Denotations!Receive` of the same
object just because the reference is taken for itself.

**Handlers of calls.**  `HandlerKept` does not follow from `IInv`, which holds only
while ids fit the wire.  Its own invariant, `HandlerInv`, says less: ids that were taken
are below `requestId`, which counts in JavaScript's numbers and never wraps, no two
calls of a side have the same, and a handler belongs to a call of the side that waits
under its id.  A reply whose id has wrapped may find the handler of another call: it
settles that one, which is then no longer pending.

**Handlers of exceptions.**  That every handler is told and none twice depends on where
a handler can be: in the list of one stub, among those about to be called, called, or
gone (`ListedOnce`, `NotYetCalled`).  `CalledOnce` alone is not inductive, because
a throw leaves handlers behind in the lists of stubs that were still to come:
they are never called just because their connection is closing and fails only
once (`GoneOfLost`, `StubsOfConnection`).  `StillToBeTold` is the first part of `AllTold` in
the middle of the loops, `LateTold` the last one of `CalledOnce`.  That nobody is told later
of a connection which the other side has closed is `UntoldOfClosed`: those handlers stay in
the lists of stubs whose socket is closed, and only the stubs of a closing one are gone through.

**The encoder's buffer.**  `Encoders` is the invariant of an encoder: its offset lies in
its buffer, the places of its pending sizes are aligned.  Each operation is
shown to yield an encoder that is `Later`: it still has what was written before, so
that sizes can be filled in behind.  `DoubledIsEnough` says that doubling ends
with room for what was asked for, `AlignedUp` where it begins.  `EncInv`
adds to this that a size is filled in behind the encoder's offset, never beyond it,
and that there is a byte order to return to for each.  What `PlanAssumption` says of the
items (`IsItem`) is what the types of IDL and the signatures of the encoder's methods
allow: octets are octets, an octet of an object identifier holds its first two
numbers, a port is a ushort.

**The size of a message.**  A ulong is written as four quotients by powers of 256 and read
by Horner's rule (`NumberOfPattern`); reversing twice is nothing (`InOrderTwice`); the
header lies in the first twelve octets (`HeaderIsPut`); and the header of a
reply, which is put when the message is complete, begins at the tenth octet, is
aligned to the twelfth and so leaves the size alone (`PutBehindSize`).

**What is written is read.**  `Plain` says that the items are CDR's: octets, numbers, strings,
blobs, sequences, arrays of floats and of doubles.  `Small` says that the message has
less than 2^32 octets, which is as far as its size can count.  Neither bounds the number of items, the
depth of encapsulations, the alignment they begin at or the order in which they are left.
For an item, `ItemIsRead` says that a decoder whose buffer shows, from where the item was
written, the octets that were written, reads the item and ends where the encoder
ended: the buffer may have grown since, and a size in front of it may have been filled in.
For the message, the invariant `StreamInv` remembers of each thing written where, in which
byte order and how deep it was written (`Shape`).  An encapsulation that is still open has
exactly one opener (`OneOpened`), which knows the place of its size and the byte order to
return to (`Places`); what has been written can be read from any decoder with the same octets
(`ItemsRead`); what was opened begins with its type and byte order (`Opens`); and
the size of what was closed leads to where it was closed (`Closes`).  Filling in a size
disturbs nothing but that size (`FilledElsewhere`), as sizes are filled in where nothing else
was written.  Of the reader, `ReaderInv` says that it is where the next thing was written, and
that for each encapsulation it is in, its stack holds the end that the encoder noted
(`LeavesAt`), which is why leaving early loses nothing of what follows.

**Requests and replies.**  Three things are assumed.  `Len(wire) < UlongLimit` is as far as a
message's size can count.  `UlongsFit` says the same of the request ids and of the
result's ulongs: a number above 2^32 is written without its upper bits, and then the reply is
not what was sent.  Third, the named assumptions of `GiopMessages`, which are what the types allow:
keys, names and texts are octets, ports are ushorts, versions are 1.0 to 1.2, and the
encoder's first buffer, 65535 octets in the code, holds 24.  Nothing bounds the length of keys,
names, credentials or results, or the number of arguments and contexts.

`CutNotMisdirected` is about what has been scanned, so it needs to be known while the
message is on its way.  `MessagesInv` says of a request on the wire that every prefix of it, the
whole included, is scanned as the request that was called, or throws (`Shown`); of
what was scanned that it is the request (`Taken`); of a reply on the wire that
scanning it yields its id, status and values (`Answers`); and of what was
scanned of the reply that it is what was sent (`Arrived`).  `TellsLength` is
`SizeTellsLength` with the octets it is about.

For a request that is cut, the proof goes along its header.  A number that has
been cut throws; a blob or a string is silently shortened, and then ends at the
buffer's end, so that the number behind it throws.  Key and operation are both followed by
one in each version, the operation by the number of service contexts (1.2)
or by the length of the principal (1.0, 1.1): this is what the theorem rests on, not the
lengths of the fields themselves.  The service contexts in front of them (1.0, 1.1) are passed over
by their sizes: each is an encapsulation, and the decoder goes to its end, or
throws, whatever it has read in it.  The header of a reply is written last, into room
skipped at the start; the lemmas of `CdrProofs` show that it fills that room exactly and
disturbs neither the size nor the body behind.  `MethodRejects` has an encoder
that was used already: what is left behind in its buffer is overwritten or beyond its offset.

**Folds.**  The prover has no induction over data, and no rule for the community modules'
folds.  `FoldFacts` has both for an operator that is a constant of the module: from the
well-foundedness of the numbers it shows that a fold over a sequence is computed
by a function on its prefixes (`IterFolds`), and that what each step keeps, the fold
keeps (`FoldKeeps`), or reaches (`FoldReaches`).  `CdrProofs` instantiates it once for
each operator that is folded.

**Only model-checked**: liveness (`EveryCallSettles`, `LookupEnds`, `FailedLeaves`), as
fairness and ENABLED are out of the prover's reach; `ReadBack` and `InStep` for items of
ASN.1 and for references; the types of `CdrStream`'s variables; of a request that is
whole, that its credentials and its arguments arrive and that no exception is thrown
(`RequestArrives`), as this needs the ASN.1 of a token to be read as it was written, and it is so
only for tokens of less than 256 octets (section 4); graphs of value types (`GraphBuilt`, `TreesCanBeBuilt`), where a value is found
again by its position, so that the proof is an induction over the graph; and
`Urls` and `IdlTexts`, whose operators are recursive, which the prover does not
support at all.

## 6. What is not modelled, and the plan

* `typeParent` of the parser, which the generators read of enumerators and of
  natives whose names end in `_ptr`.
* Of `decodeURI` all escapes but one; the digits of an IOR's text.
* The access control list: it is written, and its check is commented out
  (`orb.ts` 554).
* Messages in several pieces beyond the first one: the rest is lost as a
  message of its own, with a header that is none.
* TLS's handshake and certificates, and that a failed TLS connect is an uncaught
  error; WebSocket's closing handshake in Node.
* The text that the TypeScript and C++ generators write, the command line, the
  test doubles; formatting and logging.

What is left of the plan are proofs: `Plain` extended to ASN.1's numbers, tags and object identifiers
and to references, and, from that, `RequestArrives`.
