----------------------------- MODULE MCOrbCalls -----------------------------
(***************************************************************************)
(* Small instances of OrbCalls for TLC.                                    *)
(***************************************************************************)
EXTENDS OrbCalls

Root == {"NameService"}
Keys == {"NameService", "account"}

TheCall(name, caller, twoway, method, object) ==
    [name |-> name, caller |-> caller, twoway |-> twoway, method |-> method,
     object |-> object]

\* Two overlapping calls one way and one the other way.  Each of them may also
\* be made by a method that another one runs: a call, its call back, and the
\* call back of the call back.
Callbacks == {TheCall("first", "initiator", TRUE, "operation", "NameService"),
              TheCall("second", "initiator", TRUE, "operation", "NameService"),
              TheCall("back", "responder", TRUE, "operation", "NameService")}

\* The other kinds of request: an attribute, a oneway, _is_a either way and an
\* operation the peer does not know.
Kinds == {TheCall("set", "initiator", TRUE, "setter", "account"),
          TheCall("oneway", "initiator", FALSE, "operation", "account"),
          TheCall("isA", "responder", FALSE, "_is_a", "account"),
          TheCall("bad", "initiator", TRUE, "unknown", "NameService")}
=============================================================================
