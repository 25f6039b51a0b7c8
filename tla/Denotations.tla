---------------------------- MODULE Denotations ----------------------------
(***************************************************************************)
(* What object references promise: a reference denotes one object from     *)
(* where it was made to wherever it is passed.  An ORB has an object only  *)
(* if the object is its own or was sent to it by an ORB that had it.       *)
(***************************************************************************)
CONSTANTS
    Orb,
    Object       \* an object belongs to an ORB for ever

VARIABLES
    has,         \* the objects each ORB has a reference to
    sent         \* references on their way: pairs of an ORB and an object

Init ==
    /\ has = [o \in Orb |-> {}]
    /\ sent = {}

Create(o, x) ==
    /\ has' = [has EXCEPT ![o] = @ \cup {x}]
    /\ UNCHANGED sent

Pass(o, p, x) ==
    /\ x \in has[o]
    /\ sent' = sent \cup {<<p, x>>}
    /\ UNCHANGED has

\* A reference may be refused, but it is not taken for another.
Receive(o, x) ==
    /\ <<o, x>> \in sent
    /\ has' \in {has, [has EXCEPT ![o] = @ \cup {x}]}
    /\ sent' \in {sent, sent \ {<<o, x>>}}

Drop(o, x) ==
    /\ has' = [has EXCEPT ![o] = @ \ {x}]
    /\ UNCHANGED sent

\* Only its own ORB makes an object.
Next ==
    \E o \in Orb :
        \/ \E x \in Object : x[1] = o /\ Create(o, x)
        \/ \E p \in Orb, x \in Object : Pass(o, p, x)
        \/ \E x \in Object : Receive(o, x) \/ Drop(o, x)

Spec == Init /\ [][Next]_<<has, sent>>
=============================================================================
