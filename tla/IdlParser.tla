----------------------------- MODULE IdlParser -----------------------------
(***************************************************************************)
(* The recursive descent parser of idl-parser.ts, one operator for each    *)
(* production it implements, with its scopes.                              *)
(*                                                                         *)
(* A token is a string, and an identifier one of Name.  The parser is a    *)
(* record of the tokens that lex() will return, those of unlex() included, *)
(* the stack of scopes, the children that modules have so far, what was    *)
(* returned last (v) and whether nothing was thrown (ok).                  *)
(***************************************************************************)
EXTENDS Integers, Sequences, SequencesExt, FiniteSets, Functions, TLC

CONSTANT Name

Punctuation == {"{", "}", "(", ")", "<", ">", ":", ";", ",", "=", "@"}

Node(type, text, child) == [type |-> type, text |-> text, child |-> child]
Leaf(type) == Node(type, "", <<>>)
Undefined == Leaf("undefined")

\* Declarations and what they are registered for: path is the module they are in.
Declaration(kind, path, name) == [kind |-> kind, path |-> path, name |-> name]
Reference(d) == Node(d.kind, d.name, [i \in DOMAIN d.path |-> Node("in", d.path[i], <<>>)])

NoTypes == [n \in {} |-> n]
Parser(tokens) ==
    [tokens |-> tokens, path |-> <<>>, scopes |-> <<NoTypes>>,
     modules |-> [m \in {} |-> m], v |-> Undefined, ok |-> TRUE]
-----------------------------------------------------------------------------
Peek(p) == IF p.tokens = <<>> THEN "end" ELSE p.tokens[1]
Peeks(p, tokens) == Len(p.tokens) >= Len(tokens) /\ SubSeq(p.tokens, 1, Len(tokens)) = tokens

Skip(p, n) == [p EXCEPT !.tokens = SubSeq(@, n + 1, Len(@))]
Return(p, v) == IF p.ok THEN [p EXCEPT !.v = v] ELSE p
Throw(p) == [p EXCEPT !.ok = FALSE, !.v = Undefined]
No(p) == Return(p, Undefined)

\* A node that was made of several tokens goes back as one.
Unlex(p, node) ==
    IF node = Undefined THEN p
    ELSE IF node.child # <<>> THEN Throw(p)
    ELSE [p EXCEPT !.tokens =
             <<IF node.type = "identifier" THEN node.text ELSE node.type>> \o @]

\* Goes on with what was returned; Must() throws if that is undefined.
Then(p, F(_, _)) == IF p.ok THEN F(p, p.v) ELSE p
If(p, F(_, _)) == IF p.ok /\ p.v # Undefined THEN F(p, p.v) ELSE p
Must(p, F(_, _)) == IF p.ok /\ p.v # Undefined THEN F(p, p.v) ELSE Throw(p)
Else(p, F(_)) == IF p.ok /\ p.v = Undefined THEN F(p) ELSE p

expect(p, text) == IF p.ok /\ Peek(p) = text THEN Skip(p, 1) ELSE Throw(p)

identifier(p) ==
    IF Peek(p) \in Name THEN Return(Skip(p, 1), Node("identifier", Peek(p), <<>>)) ELSE No(p)

Keyword(p, keywords) ==
    IF Peek(p) \in keywords THEN Return(Skip(p, 1), Leaf(Peek(p))) ELSE No(p)
-----------------------------------------------------------------------------
(***************************************************************************)
(* Scopes.                                                                 *)
(***************************************************************************)
addType(p, name, kind) ==
    IF ~p.ok \/ name \in DOMAIN Last(p.scopes) THEN Throw(p)
    ELSE [p EXCEPT !.scopes[Len(p.scopes)] =
             (name :> Declaration(kind, p.path, name)) @@ @]

Visible(p, name) == {i \in DOMAIN p.scopes : name \in DOMAIN p.scopes[i]}
BadGetType(p, name) ==                \* finds the outermost declaration
    p.scopes[CHOOSE i \in Visible(p, name) : \A j \in Visible(p, name) : j >= i][name]
getType(p, name) ==
    p.scopes[CHOOSE i \in Visible(p, name) : \A j \in Visible(p, name) : j <= i][name]

enterModule(p, name) ==
    LET q == addType(p, name, "module")
        path == Append(p.path, name)
    IN  [q EXCEPT !.path = path, !.scopes = Append(@, NoTypes),
                  !.modules = (path :> <<>>) @@ @]
leaveModule(p) == [p EXCEPT !.path = Front(@), !.scopes = Front(@)]

\* A definition becomes a child of the module that is open.
AppendChild(p, node) ==
    [p EXCEPT !.modules[p.path] = Append(@, [kind |-> node.type, name |-> node.text])]

\* 12: in a module only modules, valuetypes, natives and interfaces are found.
RECURSIVE resolve_module(_, _, _)
resolve_module(p, id, path) ==
    LET found == {c \in ToSet(p.modules[path]) :
                     /\ c.name = p.tokens[2]
                     /\ c.kind \in {"module", "native", "valuetype", "interface"}}
        child == CHOOSE c \in found : TRUE
        q == Return(Skip(p, 2), [id EXCEPT !.child =
                 Append(@, Reference(Declaration(child.kind, path, child.name)))])
    IN  IF Peek(p) # "::" \/ Len(p.tokens) < 2 \/ found = {} THEN Throw(p)
        ELSE IF child.kind = "module" THEN resolve_module(q, q.v, Append(path, child.name))
        ELSE q

scoped_name(p) ==
    IF Peek(p) = "::"
    THEN IF Peek(Skip(p, 1)) \in Name THEN Throw(p) ELSE No(p)
    ELSE If(identifier(p), LAMBDA q, id :
             IF Visible(q, id.text) = {} THEN Throw(q)
             ELSE LET d == getType(q, id.text)
                      r == [id EXCEPT !.child = <<Reference(d)>>]
                  IN  IF d.kind = "module" THEN resolve_module(q, r, Append(d.path, d.name))
                      ELSE Return(q, r))
-----------------------------------------------------------------------------
(***************************************************************************)
(* Types.                                                                  *)
(***************************************************************************)
RECURSIVE type_spec(_), simple_type_spec(_), struct_type(_), union_type(_),
          Members(_, _), Cases(_, _), Enumerators(_, _), Declarators(_, _)

IntegerTypes ==
    <<<<"short">>, <<"long", "long">>, <<"long">>, <<"unsigned", "short">>,
      <<"unsigned", "long", "long">>, <<"unsigned", "long">>>>
FloatingTypes == <<<<"float">>, <<"double">>, <<"long", "double">>>>
TypeName(tokens) ==
    IF Len(tokens) = 1 THEN tokens[1]
    ELSE IF Len(tokens) = 3 THEN "unsigned long long"
    ELSE CASE tokens = <<"long", "long">> -> "long long"
           [] tokens = <<"long", "double">> -> "long double"
           [] tokens = <<"unsigned", "short">> -> "unsigned short"
           [] tokens = <<"unsigned", "long">> -> "unsigned long"

\* The first of the types whose tokens are next.
OneOf(p, types) ==
    LET next == {i \in DOMAIN types : Peeks(p, types[i])}
        t == types[CHOOSE i \in next : \A j \in next : i <= j]
    IN  IF next = {} THEN No(p) ELSE Return(Skip(p, Len(t)), Leaf(TypeName(t)))

floating_pt_type(p) == OneOf(p, FloatingTypes)

BadIntegerType(p) ==                   \* tries long before long long
    Else(OneOf(p, <<IntegerTypes[1], IntegerTypes[3], IntegerTypes[4], IntegerTypes[6]>>),
         LAMBDA q : IF Peek(q) \in {"short", "long", "unsigned"} THEN Throw(q) ELSE q)
integer_type(p) ==
    Else(OneOf(p, IntegerTypes), LAMBDA q :
        IF Peek(q) \in {"short", "long", "unsigned"} THEN Throw(q) ELSE q)

base_type_spec(p) ==
    Else(Else(floating_pt_type(p), integer_type),
         LAMBDA q : Keyword(q, {"char", "wchar", "boolean", "octet", "any"}))

sequence_type(p) ==
    IF Peek(p) # "sequence" THEN No(p)
    ELSE Must(simple_type_spec(expect(Skip(p, 1), "<")), LAMBDA q, t :
             Return(expect(q, ">"), Node("sequence", "", <<t>>)))

template_type_spec(p) ==
    Else(sequence_type(p), LAMBDA q : Keyword(q, {"string", "wstring"}))

simple_type_spec(p) ==
    IF ~p.ok THEN p
    ELSE Else(Else(base_type_spec(p), template_type_spec), scoped_name)

\* Comma separated identifiers; undefined if there is none.
Declarators(p, ids) ==
    Then(identifier(p), LAMBDA q, id :
        IF id = Undefined THEN IF ids = <<>> THEN q ELSE Throw(q)
        ELSE IF Peek(q) = "," THEN Declarators(Skip(q, 1), Append(ids, id))
        ELSE Return(q, Node("declarators", "", Append(ids, id))))
declarators(p) == Declarators(p, <<>>)

BadMember(p) ==                        \* needs no semicolon
    If(type_spec(p), LAMBDA q, type : Must(declarators(q), LAMBDA r, ids :
        Return(IF Peek(r) = ";" THEN Skip(r, 1) ELSE r, Node("member", "", <<type, ids>>))))
member(p) ==
    If(type_spec(p), LAMBDA q, type : Must(declarators(q), LAMBDA r, ids :
        Return(expect(r, ";"), Node("member", "", <<type, ids>>))))

Members(p, members) ==
    Then(member(p), LAMBDA q, m :
        IF m = Undefined THEN Return(q, Node("members", "", members))
        ELSE Members(q, Append(members, m)))

\* What all type declarations begin with.
Named(p, keyword, F(_, _)) ==
    IF Peek(p) # keyword THEN No(p)
    ELSE Must(identifier(Skip(p, 1)), LAMBDA q, id : F(q, id.text))

struct_type(p) ==
    Named(p, "struct", LAMBDA q, name :
        Then(Members(expect(q, "{"), <<>>), LAMBDA r, members :
            IF members.child = <<>> THEN Throw(r)
            ELSE Return(addType(expect(r, "}"), name, "struct"),
                        Node("struct", name, members.child))))

except_dcl(p) ==
    Named(p, "exception", LAMBDA q, name :
        Then(Members(expect(q, "{"), <<>>), LAMBDA r, members :
            Return(addType(expect(r, "}"), name, "exception"),
                   Node("exception", name, members.child))))

Enumerators(p, ids) ==
    Must(identifier(p), LAMBDA q, id :
        LET r == addType(q, id.text, "enumerator")
        IN  IF ~r.ok THEN r
            ELSE IF Peek(r) = "}"
                 THEN Return(Skip(r, 1), Node("enumerators", "", Append(ids, id)))
            ELSE IF Peek(r) = "," THEN Enumerators(Skip(r, 1), Append(ids, id)) ELSE Throw(r))
enum_type(p) ==
    Named(p, "enum", LAMBDA q, name :
        Then(Enumerators(expect(q, "{"), <<>>), LAMBDA r, ids :
            Return(addType(r, name, "enum"), Node("enum", name, ids.child))))

\* Whose enumerator a label is the parser does not ask.
case_label(p) ==
    CASE Peek(p) = "case" ->
             Must(identifier(Skip(p, 1)), LAMBDA q, id :
                 IF Visible(q, id.text) = {} \/ getType(q, id.text).kind # "enumerator"
                 THEN Throw(q)
                 ELSE Return(expect(q, ":"),
                             Node("case", "", <<Reference(getType(q, id.text))>>)))
      [] Peek(p) = "default" -> Return(expect(Skip(p, 1), ":"), Leaf("default"))
      [] OTHER -> No(p)

_case(p) ==
    If(case_label(p), LAMBDA q, label : Must(type_spec(q), LAMBDA r, type :
        Must(identifier(r), LAMBDA s, id :
            Return(expect(s, ";"), [label EXCEPT !.child = @ \o <<type, id>>]))))

Cases(p, cases) ==
    Then(_case(p), LAMBDA q, c :
        IF c = Undefined THEN Return(q, Node("switch", "", cases))
        ELSE Cases(q, Append(cases, c)))

switch_type_spec(p) ==
    Else(Else(Else(integer_type(p), LAMBDA q : Keyword(q, {"char", "boolean"})), enum_type),
         scoped_name)

union_type(p) ==
    Named(p, "union", LAMBDA q, name :
        LET head == expect(expect(q, "switch"), "(")
        IN  IF ~head.ok THEN head
            ELSE Must(switch_type_spec(head), LAMBDA r, type :
                     Then(Cases(expect(expect(r, ")"), "{"), <<>>), LAMBDA s, body :
                         Return(addType(expect(s, "}"), name, "union"),
                                Node("union", name, <<type, body>>)))))

constr_type_spec(p) == Else(Else(struct_type(p), union_type), enum_type)
type_spec(p) == IF ~p.ok THEN p ELSE Else(simple_type_spec(p), constr_type_spec)

\* All the declarators are registered for the same type.
type_dcl(p) ==
    CASE Peek(p) = "typedef" ->
             Then(type_spec(Skip(p, 1)), LAMBDA q, type :
                 IF type = Undefined THEN No(p)
                 ELSE Must(declarators(q), LAMBDA r, ids :
                     Return(FoldLeft(LAMBDA s, id : addType(s, id.text, type.type), r, ids.child),
                            Node("typedef", "", <<type, ids>>))))
      [] Peek(p) = "native" ->
             Must(identifier(Skip(p, 1)), LAMBDA q, id :
                 Return(addType(q, id.text, "native"), Node("native", id.text, <<id>>)))
      [] OTHER -> constr_type_spec(p)
-----------------------------------------------------------------------------
(***************************************************************************)
(* Interfaces and valuetypes.                                              *)
(***************************************************************************)
RECURSIVE AnnotationParams(_, _), Params(_, _), Exports(_, _, _), Definitions(_, _),
          ValueNames(_, _)

AnnotationParams(p, params) ==
    Must(identifier(p), LAMBDA q, id : Must(identifier(expect(q, "=")), LAMBDA r, val :
        LET all == Append(params, [id EXCEPT !.child = <<val>>])
        IN  IF Peek(r) = "," THEN AnnotationParams(Skip(r, 1), all)
            ELSE Return(r, Node("annotation", "", all))))
annotation_appl(p) ==
    Named(p, "@", LAMBDA q, name :
        Then(AnnotationParams(expect(q, "("), <<>>), LAMBDA r, params :
            Return(expect(r, ")"), Node("annotation", name, params.child))))

Annotated(node, annotation) ==
    IF annotation = Undefined THEN node ELSE [node EXCEPT !.child = Append(@, annotation)]

\* An annotation without a type behind it is gone.
param_type_spec(p) ==
    Then(annotation_appl(p), LAMBDA q, annotation :
        If(Else(Else(base_type_spec(q), template_type_spec), scoped_name), LAMBDA r, type :
            Return(r, Annotated(type, annotation))))

param_dcl(p) ==
    Then(annotation_appl(p), LAMBDA q, annotation :
        If(Keyword(q, {"in", "out", "inout"}), LAMBDA r, attribute :
            Must(param_type_spec(r), LAMBDA s, type : Must(identifier(s), LAMBDA t, id :
                Return(t, Node("parameter", "",
                               <<attribute, Annotated(type, annotation), id>>))))))

\* Between and behind the commas a parameter may be missing.
Params(p, params) ==
    Then(param_dcl(p), LAMBDA q, param :
        LET all == IF param = Undefined THEN params ELSE Append(params, param)
        IN  CASE Peek(q) = ")" -> Return(Skip(q, 1), Node("parameters", "", all))
              [] Peek(q) = "," -> Params(Skip(q, 1), all)
              [] OTHER -> Throw(q))
parameter_dcls(p) == IF Peek(p) = "(" THEN Params(Skip(p, 1), <<>>) ELSE No(p)

\* The loop over further exceptions looks for its comma in the wrong token.
raises_expr(p) ==
    IF Peek(p) # "raises" THEN No(p)
    ELSE LET open == expect(Skip(p, 1), "(")
         IN  IF ~open.ok THEN open
             ELSE Must(scoped_name(open), LAMBDA q, id :
                      IF id.child[1].type # "exception" THEN Throw(q)
                      ELSE Return(expect(q, ")"), Node("raises", "", <<id>>)))

\* Puts everything back when there are no parameters.
op_dcl(p) ==
    LET oneway == Keyword(p, {"oneway"})
        Type(q) == Else(param_type_spec(q), LAMBDA r : Keyword(r, {"void"}))
    IN  Then(Type(oneway), LAMBDA q, type :
            IF type = Undefined THEN No(Unlex(q, oneway.v))
            ELSE Must(identifier(q), LAMBDA r, id : Then(parameter_dcls(r), LAMBDA s, params :
                IF params = Undefined THEN No(Unlex(Unlex(Unlex(s, id), type), oneway.v))
                ELSE Then(raises_expr(s), LAMBDA t, raises :
                         Return(t, Node("operation", "",
                                        <<oneway.v, type, id, params, raises>>))))))

attr_dcl(p) ==
    LET readonly == Peeks(p, <<"readonly", "attribute">>)
        Readonly == IF readonly THEN Leaf("readonly") ELSE Undefined
    IN  IF ~readonly /\ Peek(p) # "attribute" THEN No(p)
        ELSE Must(param_type_spec(Skip(p, IF readonly THEN 2 ELSE 1)), LAMBDA q, type :
                 Must(declarators(q), LAMBDA r, ids :
                     Return(r, Node("attribute", "", <<Readonly, type, ids>>))))

_export(p) ==
    If(Else(attr_dcl(p), op_dcl), LAMBDA q, export : Return(expect(q, ";"), export))

state_member(p) ==
    IF Peek(p) \notin {"public", "private"} THEN No(p)
    ELSE Then(type_spec(Skip(p, 1)), LAMBDA q, type :
             IF type = Undefined THEN No(p)
             ELSE Must(declarators(q), LAMBDA r, ids :
                      Return(expect(r, ";"),
                             Node("state_member", "", <<Leaf(Peek(p)), type, ids>>))))

\* Only the body of a valuetype has state members.
value_element(p, value) ==
    Else(_export(p), LAMBDA q : IF value THEN state_member(q) ELSE q)

Exports(p, exports, value) ==
    Then(IF p.ok THEN value_element(p, value) ELSE p, LAMBDA q, e :
        IF e = Undefined THEN Return(q, Node("body", "", exports))
        ELSE Exports(q, Append(exports, e), value))

interface_inheritance_spec(p) ==
    IF Peek(p) # ":" THEN No(p)
    ELSE Must(identifier(Skip(p, 1)), LAMBDA q, id :
             IF Peek(q) = "," \/ Visible(q, id.text) = {} THEN Throw(q)
             ELSE Return(q, [id EXCEPT !.child = <<Reference(getType(q, id.text))>>]))

\* Any punctuation opens and closes the body.
interface_dcl(p) ==
    LET kind == Keyword(p, {"abstract", "local"})
        Brace(q) == IF q.ok /\ Peek(q) \in Punctuation THEN Skip(q, 1) ELSE Throw(q)
    IN  IF Peek(kind) # "interface" THEN No(p)
        ELSE Must(identifier(Skip(kind, 1)), LAMBDA q, id :
            Then(interface_inheritance_spec(q), LAMBDA r, base :
                Then(Exports(addType(Brace(r), id.text, "interface"), <<>>, FALSE),
                     LAMBDA s, body :
                    Return(Brace(s), Node("interface", id.text,
                                          <<kind.v, id, base>> \o body.child)))))

\* Behind a comma one name is skipped, and another one has to follow.
ValueNames(p, names) ==
    Must(scoped_name(p), LAMBDA q, name :
        CASE Peek(q) = "end" -> Throw(q)
          [] Peek(q) = "," -> Must(scoped_name(Skip(q, 1)), LAMBDA r, skipped :
                                  ValueNames(r, Append(names, name)))
          [] OTHER -> Return(q, Node("inherits", "", Append(names, name))))

value_dcl(p) ==
    IF Peek(p) = "custom" THEN Throw(p)
    ELSE Named(p, "valuetype", LAMBDA q, name :
        Then(IF Peek(q) = ":" THEN ValueNames(Skip(q, 1), <<>>) ELSE No(q), LAMBDA r, bases :
            Then(Exports(addType(expect(r, "{"), name, "valuetype"), <<>>, TRUE),
                 LAMBDA s, body :
                Return(expect(s, "}"), Node("valuetype", name, <<bases>> \o body.child)))))
-----------------------------------------------------------------------------
(***************************************************************************)
(* Modules and specifications.                                             *)
(***************************************************************************)
RECURSIVE definition(_)

Definitions(p, nodes) ==
    Then(IF p.ok THEN definition(p) ELSE p, LAMBDA q, d :
        CASE d = Undefined -> Return(q, Node("definitions", "", nodes))
          [] q.path = <<>> -> Definitions(q, Append(nodes, d))
          [] d.type = "native" -> Throw(q)
          [] OTHER -> Definitions(AppendChild(q, d), Append(nodes, d)))

_module(p) ==
    Named(p, "module", LAMBDA q, name :
        LET open == expect(q, "{")
        IN  IF ~open.ok THEN open
            ELSE Then(Definitions(enterModule(open, name), <<>>), LAMBDA r, nodes :
                     Return(leaveModule(expect(r, "}")), Node("module", name, nodes.child))))

definition(p) ==
    If(Else(Else(Else(Else(type_dcl(p), except_dcl), interface_dcl), _module), value_dcl),
       LAMBDA q, d : Return(expect(q, ";"), d))

specification(tokens) ==
    Then(Definitions(Parser(tokens), <<>>), LAMBDA p, nodes :
        IF p.tokens = <<>> THEN p ELSE Throw(p))
=============================================================================
