------------------------------- MODULE Calls -------------------------------
(***************************************************************************)
(* What a remote call is, shared by the specification of what an           *)
(* application may rely on (RemoteCalls) and the model of the code         *)
(* (OrbCalls).                                                             *)
(*                                                                         *)
(* Two ORBs talk over one bidirectional GIOP connection: the one that      *)
(* opened it and the one that accepted it.  Each of them may call objects  *)
(* of the other.  A call is a record of its static attributes; the         *)
(* constant Call holds every call either application may make.             *)
(***************************************************************************)
CONSTANTS
    Call,        \* the calls the two applications may make
    NoCall,      \* "not made from within a running method"
    Object       \* keys of the servants, the same names used on both sides

Side == {"initiator", "responder"}

Peer(s) == IF s = "initiator" THEN "responder" ELSE "initiator"

(***************************************************************************)
(* What the operation named in a request is to the servant's class:        *)
(*   operation  an IDL operation, its skeleton awaits the implementation   *)
(*              unless the operation is oneway                             *)
(*   setter     the _set_ half of an attribute, never awaited              *)
(*   _is_a      answered by the ORB itself                                 *)
(*   unknown    not a member of the servant's class                        *)
(***************************************************************************)
Method == {"operation", "setter", "_is_a", "unknown"}

ASSUME CallAssumption ==
    /\ NoCall \notin Call
    /\ \A c \in Call : /\ c.caller \in Side
                       /\ c.twoway \in BOOLEAN
                       /\ c.method \in Method
                       /\ c.object \in Object

\* The side whose servant the call is for.
Servant(c) == Peer(c.caller)

\* The skeleton waits for the implementation before it lets the ORB reply.
Awaited(c) == c.twoway /\ c.method = "operation"
=============================================================================
