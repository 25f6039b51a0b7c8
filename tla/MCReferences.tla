---------------------------- MODULE MCReferences ----------------------------
(***************************************************************************)
(* Small instances of References for TLC.                                  *)
(***************************************************************************)
EXTENDS References, TLC

CONSTANTS o1, o2, n1

\* Ends are pairs of a connection and a side.
TwoOrbs == {o1, o2}

EndsOf(connections) == connections \X {1, 2}
PeerOf(ends) == [e \in ends |-> <<e[1], 3 - e[2]>>]

TwoConnections == EndsOf({1, 2})
TwoConnectionsPeer == PeerOf(TwoConnections)
TwoConnectionsOwner == [e \in TwoConnections |-> IF e[2] = 1 THEN o1 ELSE o2]

\* Each end has an address of its own, which its peer reports.
OwnLocal(ends) == [e \in ends |-> e]
TwoConnectionsLocal == OwnLocal(TwoConnections)
TwoConnectionsRemote == PeerOf(TwoConnections)

Named == {n1}
=============================================================================
