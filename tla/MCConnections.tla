--------------------------- MODULE MCConnections ---------------------------
(***************************************************************************)
(* Small instances of Connections for TLC.                                 *)
(***************************************************************************)
EXTENDS Connections, TLC

\* Peers called by their address, or one of them called by its name as well.
Peers == {"10.0.0.1", "10.0.0.2"}
NameAndAddress == {"10.0.0.1", "localhost", "::1"}

\* The name service's key and that of a servant.
NameServiceKey == <<1>>
ServantKey == <<2, 3>>
Keys == {NameServiceKey, ServantKey}

TheLookup(name, via_, host, target, key) ==
    [name |-> name, via |-> via_, host |-> host, target |-> target, key |-> key]

\* The name service refers to an object elsewhere.
Elsewhere == {TheLookup("first", "name", "10.0.0.1", "10.0.0.2", ServantKey),
              TheLookup("second", "ior", "10.0.0.2", "10.0.0.2", ServantKey)}

\* One lookup finds the name service's own connection in the list.  The other's
\* server is called by its name, and has another address in references: the
\* connection to it is never found.
FoundOrNot == {TheLookup("first", "name", "10.0.0.1", "10.0.0.1", ServantKey),
               TheLookup("second", "name", "localhost", "::1", ServantKey)}

ServerOnly == <<TRUE>>
ClientAndServer == <<TRUE, FALSE>>

Alike == Permutations(Connection)
=============================================================================
