------------------------------- MODULE MCUrls -------------------------------
(***************************************************************************)
(* Small instances of Urls for TLC.                                        *)
(***************************************************************************)
EXTENDS Urls, FiniteSets

Digits == {"0", "1"}
Words == {"IOR", "corbaloc", "corbaname", "iiop", "rir", "NameService", "a"}

Address(short, version, host, port) ==
    [proto |-> "iiop", short |-> short, version |-> version, host |-> host, port |-> port]

Versions == {Unset, <<"1", "1">>}
\* Labels, digits with dots that might be a version, and an IPv6 address.
Hosts == {<<"a">>, <<"a", "-", "1", ".", "a">>, <<"1", "0", ".", "0", ".", "1">>,
          <<"1", ".", "a">>, <<"[", "1", ":", ":", "a", "]">>}
Ports == {Unset, <<"1", "0">>}

Addresses == {[proto |-> "rir"]}
             \cup {Address(s, v, h, p) : s \in BOOLEAN, v \in Versions, h \in Hosts, p \in Ports}

AddressLists ==
    {<<a>> : a \in Addresses}
    \cup {<<[proto |-> "rir"], a>> : a \in Addresses}
    \cup {<<a, Address(TRUE, Unset, <<"1", ".", "a">>, Unset)>> : a \in Addresses}

SomeGiven ==
    [addr : AddressLists,
     key : {Unset, <<"a">>, <<"a", "/", "a", Escape, "1">>},
     name : {Unset, <<"a", ",", "1">>}]

\* Everything of up to four chunks behind either scheme.
Chunks == {<<"a">>, <<"0", "1">>, <<":">>, <<".">>, <<"1", ".", "1", "@">>, <<",">>, <<"/">>,
           <<"#">>, <<"[", ":", "]">>, <<"rir", ":">>}
TypedTexts ==
    {s \o FlattenSeq(t) : s \in {<<"corbaloc", ":">>, <<"corbaname", ":">>},
                          t \in BoundedSeq(Chunks, 4)}
    \cup {<<"IOR", ":", "0", "1">>, <<"rir", ":">>}
=============================================================================
