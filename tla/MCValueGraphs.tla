--------------------------- MODULE MCValueGraphs ---------------------------
(***************************************************************************)
(* Small instances of ValueGraphs for TLC.                                 *)
(***************************************************************************)
EXTENDS ValueGraphs, TLC

\* B, C, D and G derive from A.  E is another valuetype A, in a module.  The first
\* field of P is a value.
CONSTANTS A, B, C, D, E, G, P

Classes == {A, B, C, D, E, G, P}

Parents == [c \in Classes |-> IF c \in {B, C, D, G} THEN A ELSE Root]

\* Names whose repository ids leave the offset at different multiples.
Names == A :> <<65>> @@ B :> <<109, 46, 66>> @@ C :> <<67, 67>> @@ D :> <<68>>
      @@ E :> <<110, 46, 65>> @@ G :> <<>> @@ P :> <<80>>

\* B and E are declared in modules.
Identifiers == [Names EXCEPT ![B] = <<66>>, ![E] = Names[A]]

\* The application has called its own class G like the one it derives from.
Constructors == [Identifiers EXCEPT ![G] = Names[A]]

\* The inherited fields, then the own ones.
AllFields == A :> <<"octet", A>> @@ B :> <<"octet", A, "octet", B>>
          @@ C :> <<"octet", A, "octet">> @@ D :> <<"octet", A>>
          @@ E :> <<"octet", E>> @@ G :> <<"octet", A, "octet">> @@ P :> <<P, P>>

\* C and G are not registered at all, D not by the receiver.
SenderHas == {A, B, D, E, P}
ReceiverHas == {A, B, E, P}

\* The members an object may have: objects of the field's type, or none.
Members(classes, fields, Free(_)) ==
    {ms \in [DOMAIN fields -> DOMAIN classes \cup {Null}] :
        \A i \in DOMAIN fields :
            ms[i] # Null => /\ fields[i] \in Classes
                            /\ Derives(classes[ms[i]], fields[i])
                            /\ Free(ms[i])}

GraphsOf(nodes, classSet, Free(_, _)) ==
    UNION {{[n \in nodes |-> [class |-> classes[n], members |-> ms[n]]] :
               ms \in {f \in [nodes -> UNION {Members(classes, AllFields[c], LAMBDA m : TRUE) : c \in classSet}] :
                          \A n \in nodes :
                              f[n] \in Members(classes, AllFields[classes[n]], LAMBDA m : Free(n, m))}} :
           classes \in [nodes -> classSet]}

References(g) ==
    {<<n, i>> \in (DOMAIN g) \X (1..4) : i \in DOMAIN g[n].members /\ g[n].members[i] # Null}

\* No object is a member twice, and none of itself; object 1 is nobody's member.
Trees(nodes, classSet) ==
    {g \in GraphsOf(nodes, classSet, LAMBDA n, m : m > n) :
        \A p, q \in References(g) : g[p[1]].members[p[2]] = g[q[1]].members[q[2]] => p = q}

Graphs(nodes, classSet) == GraphsOf(nodes, classSet, LAMBDA n, m : TRUE)

TreesAndGraphs ==
    UNION {Trees(1..3, {A, B, C, D}), Trees(1..2, {A, B, E, G, P}),
           Graphs(1..3, {A}), Graphs(1..2, {P})}

GraphsOfOneClass == Graphs(1..3, {A})

OneOrTwo == {<<A>>, <<A, "octet", A>>, <<B>>, <<E>>, <<P>>, <<P, P>>}
Two == {<<A, "octet", A>>}
=============================================================================
