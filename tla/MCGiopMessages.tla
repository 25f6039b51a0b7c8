--------------------------- MODULE MCGiopMessages ---------------------------
(***************************************************************************)
(* Small instances of GiopMessages for TLC.                                *)
(***************************************************************************)
EXTENDS GiopMessages

Text(n) == [i \in 1..n |-> 64 + (i % 26)]

TheRequest(id, expected, key, method) ==
    [id |-> id, expected |-> expected, key |-> key, method |-> method]

TheSender(credentials) ==
    [connected |-> TRUE, host |-> Text(3), port |-> 2809, credentials |-> credentials]

TheCredentials(user, password, target) ==
    [user |-> Text(user), password |-> Text(password), target |-> Text(target)]

\* Keys and operation names of every length modulo four, the two flags.
SomeRequests == {TheRequest(2, TRUE, Text(0), Text(1)), TheRequest(300, FALSE, Text(5), Text(2)),
                 TheRequest(4, TRUE, Text(6), Text(3)), TheRequest(6, TRUE, Text(7), Text(4))}

AnyPieces == {TheRequest(4, TRUE, Text(6), Text(3))}

\* Unit tests' encoders have no connection; then without and with credentials,
\* the longest of which make the GSS token longer than 127 octets.
Senders == {[TheSender(Absent) EXCEPT !.connected = FALSE], TheSender(Absent),
            TheSender(TheCredentials(8, 8, 0)), TheSender(TheCredentials(40, 41, 42))}

AllMinors == {0, 1, 2}

\* An argument whose alignment depends on that of the body.
SomeArguments == <<Field("octet", 7), Field("string", Text(2))>>
SomeResult == <<Field("ulong", 9), Field("string", Text(5)), Field("ushort", 3)>>

TheContext(service, fields) == [service |-> service, fields |-> fields]

\* Contexts of other ORBs: none, ones that are not known, and every kind of a
\* security context.
TheSecurity(type, fields) ==
    TheContext(ServiceId.SecurityAttributeService,
               <<Field("ulong", type), Field("number", <<0, 0, 0, 0, 0, 0, 0, 1>>)>> \o fields)

SomeContexts ==
    {<<>>,
     <<TheContext(ServiceId.CodeSets, <<Field("ulong", 66), Field("ulong", 67)>>),
       TheSecurity(SASType.CompleteEstablishContext, <<Field("octet", 1), Field("ulong", 0)>>),
       TheContext(99, <<Field("string", Text(3))>>)>>,
     <<TheSecurity(SASType.ContextError,
                   <<Field("ulong", 1), Field("ulong", 1), Field("blob", <<>>)>>),
       TheContext(ServiceId.SecurityAttributeService, <<Field("ulong", 3)>>)>>,
     <<TheSecurity(SASType.EstablishContext, <<>>)>>,
     <<TheSecurity(SASType.EstablishContext,
                   <<Field("ulong", 1), Field("ulong", 5), Field("blob", Text(3)),
                     Field("ulong", IdentityAbsent), Field("octet", 1),
                     Field("ulong", 4), Field("octet", 96), Field("octet", 0)>>)>>}
=============================================================================
