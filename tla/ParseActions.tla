----------------------------- MODULE ParseActions -----------------------------
(***************************************************************************)
(* Reading a VRML97 file: the grammar (vrml97_grammar.h), which calls an   *)
(* action as soon as it has matched a part of the file, and the actions    *)
(* (local/parse_vrml.h), which build the scene's nodes on stacks of their  *)
(* own and must make a scene of what there is when the parse breaks off.   *)
(*                                                                         *)
(* A file is any sequence of statements that the grammar matches, up to    *)
(* MaxTokens of them besides their brackets; it may break off, or be       *)
(* wrong, at any place.                                                    *)
(***************************************************************************)
EXTENDS Naturals, Sequences, FiniteSetsExt, Functions

CONSTANTS
  Names,       \* node names
  Anonymous,   \* no name
  BuiltIn,     \* the interfaces of each node type of the profile
  Script,      \* the type of Script nodes
  TypeNames,   \* the names that PROTO and EXTERNPROTO give types
  Declared,    \* the interfaces that Script nodes and PROTOs may declare
  MaxTokens,   \* bound: the statements, and parts of statements, in a file
  MaxDepth     \* bound: the grammar's rules in progress

Interface == [id : STRING, type : {"eventIn", "eventOut", "exposedField", "field"},
              value : {"sfnode", "mfnode", "plain"}]

ASSUME ParseAssumption ==
  /\ Anonymous \notin Names
  /\ BuiltIn \in [DOMAIN BuiltIn -> SUBSET Interface]
  /\ Script \in DOMAIN BuiltIn
  \* Each name of an interface says something, and a type of the profile has it once.
  /\ \A t \in DOMAIN BuiltIn : \A i, j \in BuiltIn[t] : i.id # "" /\ (i.id = j.id => i = j)
  /\ TypeNames \subseteq STRING /\ Declared \subseteq Interface
  /\ MaxTokens \in Nat /\ MaxDepth \in Nat

VARIABLES
  rules,    \* the grammar's rules in progress
  scopes,   \* its scope_stack: the names and types of each scope, and what its PROTO declares
  ps,       \* the actions' parse scopes
  nodes,    \* the nodes, numbered in the order in which they start
  result,   \* nodes_: the nodes of the scene
  outcome,  \* parsing, done, invalid, or the place of the fault that stopped the program
  protos,   \* the is_map of each PROTO that was defined, and the ISs in it
  tokens,   \* the statements and parts of statements that were begun
  quirks       \* history: what is odd about the file

parser == <<rules, scopes, ps, nodes, result, outcome, protos>>
paVars == <<parser, tokens, quirks>>

-----------------------------------------------------------------------------
(* Helpers. *)

SELF == 0  \* node::self_tag
None == [id |-> "", type |-> "field", value |-> "plain"]

Inmost(s) == s[Len(s)]
Outer(s) == SubSeq(s, 1, Len(s) - 1)
SetInmost(s, x) == Append(Outer(s), x)
With(f, x, y) == [z \in DOMAIN f \cup {x} |-> IF z = x THEN y ELSE f[z]]

IsEvent(i) == i.type \in {"eventIn", "eventOut"}
HoldsNodes(i) == i.value # "plain"
Ids(interfaces) == {i.id : i \in interfaces}

\* node_interface_compare: an exposedField x and an event x are not the same (the first has
\* events of its own: no interface here is called set_x or x_changed, as these are).
Clash(i, j) ==
  i.id = j.id /\ ("exposedField" \in {i.type, j.type} => ~IsEvent(i) /\ ~IsEvent(j))

NoScope == [defs |-> << >>, types |-> << >>, proto |-> FALSE, declared |-> {}]
NoParseScope == [type |-> "", names |-> << >>, children |-> << >>, data |-> << >>,
                 routes |-> << >>, isMap |-> {}, said |-> {}, bodies |-> << >>]
NodeData(n, name) == [node |-> n, name |-> name, values |-> << >>, current |-> None, isMap |-> {}]

(* The parse at this point: what the rules and actions of one statement    *)
(* change, one after the other, until one of them fails.                   *)
Here == [rules |-> rules, scopes |-> scopes, ps |-> ps, nodes |-> nodes, result |-> result,
         fault |-> "parsing"]
Unless(condition, fault, s, next) ==
  IF s.fault # "parsing" THEN s
  ELSE IF condition THEN [s EXCEPT !.fault = fault] ELSE next

InProto == Inmost(scopes).proto
Rule == Inmost(rules)

\* find_node_type: the types of the scopes in progress.
TypesInScope == UNION {DOMAIN scopes[i].types : i \in DOMAIN scopes}
TypeOf(t) == LET i == CHOOSE i \in DOMAIN scopes : t \in DOMAIN scopes[i].types IN scopes[i].types[t]

-----------------------------------------------------------------------------
(* The actions. *)

\* on_field_start: a value of the field's type, and a list for the nodes in it.
FieldStart(s, i) ==
  LET p == Inmost(s.ps)
      d == Inmost(p.data)
      started == [p EXCEPT !.data = SetInmost(@, [d EXCEPT !.values = With(@, i.id, << >>),
                                                           !.current = i]),
                           !.children = IF HoldsNodes(i) THEN Append(@, << >>) ELSE @]
  IN Unless(i.id \in DOMAIN d.values, "field", s, [s EXCEPT !.ps = SetInmost(@, started)])

\* The innermost list of nodes is done with.
PopChildren(s) ==
  LET p == Inmost(s.ps)
  IN Unless(p.children = << >>, "children", s,
            [s EXCEPT !.ps = SetInmost(@, [p EXCEPT !.children = Outer(@)])])

Mapped(s, i, j) ==
  LET p == Inmost(s.ps)
      d == Inmost(p.data)
      mapped == [d EXCEPT !.isMap = @ \cup {<<i.id, j.id>>},
                          !.values = IF s.nodes[d.node].type = Script THEN @
                                     ELSE Restrict(@, DOMAIN @ \ {i.id}),
                          !.current = None]
  IN [s EXCEPT !.ps = SetInmost(@, [p EXCEPT !.data = SetInmost(@, mapped),
                                             !.said = @ \cup {<<d.node, i.id, j.id>>}])]

\* Mutation: the list that was begun for the field's nodes is left.
IsMappingLeavesList(s, i, j) == Unless(FALSE, "", s, Mapped(s, i, j))

(* on_is_mapping: the field, or event, i IS the PROTO's j.  It has no      *)
(* value, but a Script is created with one all the same.                   *)
IsMapping(s, i, j) ==
  Unless(FALSE, "", s, IF HoldsNodes(i) THEN PopChildren(Mapped(s, i, j)) ELSE Mapped(s, i, j))

\* on_sfnode and on_mfnode: the value is the first of the list, if any, or all of it.
SetValue(s) ==
  LET p == Inmost(s.ps)
      d == Inmost(p.data)
      list == Inmost(p.children)
      value == IF d.current.value = "sfnode" /\ list # << >> THEN << list[1] >> ELSE list
      set == [s EXCEPT !.ps = SetInmost(@, [p EXCEPT !.data =
                         SetInmost(@, [d EXCEPT !.values = With(@, d.current.id, value)])])]
  IN Unless(p.children = << >>, "children", s, PopChildren(set))

\* on_proto_default_value_start: a scope for the value's nodes, with a copy of the field.
DefaultStart(s) ==
  [s EXCEPT !.ps = Append(@, [NoParseScope EXCEPT !.data = << Inmost(Inmost(s.ps).data) >>,
                                                   !.children = << << >> >>]),
            !.scopes = Append(@, NoScope)]

(* The routes of the innermost scope are made: find_node must find their   *)
(* nodes, and add_route throws for a node that does not have the event.    *)
RoutesMade(s, next) ==
  LET p == Inmost(s.ps)
      found(r) == {r.from, r.to} \subseteq DOMAIN p.names
      has(name, id) == id \in Ids(s.nodes[p.names[name]].interfaces)
  IN Unless(\E r \in Range(p.routes) : ~found(r), "routes", s,
            Unless(\E r \in Range(p.routes) : ~has(r.from, r.out) \/ ~has(r.to, r.in),
                   "exception", s, next))

\* on_proto_default_value_finish.
DefaultFinish(s) ==
  LET values == Inmost(Inmost(s.ps).data).values
      p == Inmost(Outer(s.ps))
      d == Inmost(p.data)
  IN RoutesMade(s,
       [s EXCEPT !.ps = SetInmost(Outer(@), [p EXCEPT !.data =
                                    SetInmost(@, [d EXCEPT !.values = values])]),
                 !.scopes = Outer(@), !.rules = Outer(@)])

\* A node's value is complete: the rules that waited for it are.
ValueDone(s) ==
  LET set == SetValue([s EXCEPT !.rules = Outer(@)])
  IN IF Inmost(set.rules) = "default" THEN DefaultFinish(set) ELSE set

\* A node statement is complete.
StatementDone(s) ==
  IF s.fault # "parsing" THEN s
  ELSE IF Inmost(s.rules) \in {"sfnode", "mfnode"} THEN ValueDone(s)
  ELSE [s EXCEPT !.rules = SetInmost(@, IF Inmost(@) = "first" THEN "body" ELSE Inmost(@))]

\* A node joins the innermost list: on_node_finish, on_use.
AddChild(s, n) ==
  LET p == Inmost(s.ps)
  IN Unless(p.children = << >>, "children", s,
       [s EXCEPT !.ps = SetInmost(@, [p EXCEPT !.children =
                                        SetInmost(@, Append(Inmost(@), n))])])

\* create_node: a node of the profile throws for the value of an event.
Creatable(n, d) ==
  \/ n.type = Script \/ n.type \notin DOMAIN BuiltIn
  \/ \A i \in n.interfaces : i.id \in DOMAIN d.values => ~IsEvent(i)

\* Mutation: a name stays with its first node.
NamedFirst(names, d) == IF d.name \in DOMAIN names THEN names ELSE With(names, d.name, d.node)

\* node::id, and the targets of the PROTO's interfaces.
Named(names, d) == With(names, d.name, d.node)
Targets(p, d) == p.isMap \cup {<<d.node, m[1], m[2]>> : m \in d.isMap}

\* The names in the body of the PROTO t: the names of nodes of its scope.
BodyNames(s, t) ==
  IF \E k \in DOMAIN s.ps : t \in DOMAIN s.ps[k].bodies
  THEN s.ps[CHOOSE k \in DOMAIN s.ps : t \in DOMAIN s.ps[k].bodies].bodies[t]
  ELSE << >>

(* An instance clones the PROTO's body into the scope the instance is in,  *)
(* where the clones take the names of the nodes in the body.               *)
Instance(s, t) ==
  LET p == Inmost(s.ps)
      names == BodyNames(s, t)
      count == Cardinality(DOMAIN names)
      order == CHOOSE q \in [1 .. count -> DOMAIN names] : Range(q) = DOMAIN names
      clone(n) == [s.nodes[n] EXCEPT !.children = {}, !.depth = 0]
      number(name) == Len(s.nodes) + CHOOSE i \in 1 .. count : order[i] = name
  IN [s EXCEPT !.nodes = @ \o [i \in 1 .. count |-> clone(names[order[i]])],
               !.ps = SetInmost(@, [p EXCEPT !.names =
                        [z \in DOMAIN @ \cup DOMAIN names |->
                           IF z \in DOMAIN names THEN number(z) ELSE @[z]]])]

\* The names of the node's body, if the innermost node is an instance.
Instantiated(s) ==
  IF s.fault = "parsing" /\ Inmost(s.ps).data # << >>
  THEN Instance(s, s.nodes[Inmost(Inmost(s.ps).data).node].type) ELSE s

\* A Script takes self_tag for itself.
Finished(s) ==
  LET p == Inmost(s.ps)
      d == Inmost(p.data)
      values == UNION {Range(d.values[f]) : f \in DOMAIN d.values}
      own == IF s.nodes[d.node].type = Script /\ SELF \in values
             THEN (values \ {SELF}) \cup {d.node} ELSE values
      finished == [p EXCEPT !.data = Outer(@),
                            !.names = IF d.name = Anonymous THEN @ ELSE Named(@, d),
                            !.isMap = Targets(p, d)]
      node == [s.nodes[d.node] EXCEPT !.finished = TRUE, !.children = own]
      next == [s EXCEPT !.ps = SetInmost(@, finished), !.nodes[d.node] = node]
  IN IF s.fault # "parsing" THEN s
     ELSE IF p.children = << >> \/ p.data = << >> THEN [s EXCEPT !.fault = "children"]
     ELSE IF ~Creatable(s.nodes[d.node], d) THEN [s EXCEPT !.fault = "exception"]
     ELSE AddChild(next, d.node)

\* on_node_finish: the node is created, then stored.
NodeFinish(s) == Finished(Instantiated(s))

\* on_scene_finish: the result, then the routes.
SceneFinish(s) ==
  LET p == Inmost(s.ps)
      done == [s EXCEPT !.result = Inmost(p.children),
                        !.ps = SetInmost(@, [p EXCEPT !.children = Outer(@)])]
      over == RoutesMade(done, [done EXCEPT !.ps = << >>, !.fault = "done"])
  IN Unless(Len(p.children) # 1, "scene", s, Unless(Len(s.ps) # 1, "scene", done, over))

\* Mutation: the node in progress is not finished first.
InnermostLeft(s) == s
\* A node that is in the middle of anything but a value of nodes.
InnermostFinished(s) ==
  IF Len(s.ps[1].data) = Len(s.ps[1].children) THEN NodeFinish(s) ELSE s

\* The other nodes at the root, and the scene, once the innermost is done.
Salvaged(first) ==
  LET outwards(k, t) == NodeFinish(SetValue(t))
      scene == SceneFinish(FoldSet(outwards, first, 2 .. Len(first.ps[1].children)))
  IN IF first.fault = "exception" THEN [first EXCEPT !.fault = "terminate"]
     ELSE IF first.fault # "parsing" THEN first
     ELSE [scene EXCEPT !.fault = IF @ \in {"done", "exception"} THEN "invalid" ELSE @]

(* ~vrml97_parse_actions: drop the scopes of PROTOs, finish the nodes in   *)
(* progress from the inside, and make a scene of the ones at the root.     *)
(* The first of them is finished outside of the try block.                 *)
Recovered(s) == Salvaged(InnermostFinished([s EXCEPT !.ps = << @[1] >>, !.fault = "parsing"]))

Parsed(s) ==
  /\ rules' = s.rules /\ scopes' = s.scopes /\ ps' = s.ps
  /\ nodes' = s.nodes /\ result' = s.result
  /\ outcome' = s.fault

\* An exception of an action leaves the parse through the actions' destructor.
Become(s) == Parsed(IF s.fault = "exception" THEN Recovered(s) ELSE s)

-----------------------------------------------------------------------------
(* The statements. *)

Read == outcome = "parsing" /\ tokens < MaxTokens /\ tokens' = tokens + 1
Oddly(conditions) == quirks' = quirks \cup {c[1] : c \in {d \in conditions : d[2]}}

\* on_node_start: the name is defined, for the grammar, from here on.
NodeStart ==
  /\ Rule \in {"scene", "first", "body", "sfnode", "mfnode", "list"}
  /\ \E name \in Names \cup {Anonymous}, t \in TypesInScope :
       LET n == Len(nodes) + 1
           scope == Inmost(scopes)
           defs == scope.defs
           p == Inmost(ps)
       IN /\ Become([Here EXCEPT
               !.rules = Append(@, "node"),
               !.scopes = IF name = Anonymous THEN @
                          ELSE SetInmost(@, [scope EXCEPT !.defs = With(@, name, n)]),
               !.ps = SetInmost(@, [p EXCEPT !.data = Append(@, NodeData(n, name))]),
               !.nodes = Append(@, [type |-> t, interfaces |-> TypeOf(t), children |-> {},
                                    finished |-> FALSE, depth |-> Len(ps)])])
          /\ Oddly({<<"renamed", name \in DOMAIN defs /\ nodes[defs[name]].type # t>>,
                    <<"renamed", name \in DOMAIN defs /\ t = Script>>,
                    <<"nested", name # Anonymous /\ \E d \in Range(p.data) : d.name = name>>})
  /\ UNCHANGED protos

NodeEnd ==
  /\ Rule = "node"
  /\ Become(StatementDone(NodeFinish([Here EXCEPT !.rules = Outer(@)])))
  /\ LET p == Inmost(ps)
         d == Inmost(p.data)
     IN Oddly({<<"instance", DOMAIN BodyNames(Here, nodes[d.node].type) \cap DOMAIN p.names # {}>>})
  /\ UNCHANGED protos

\* The node whose body is read, and its fields and events.
Current == Inmost(Inmost(ps).data)
Node == nodes[Current.node]

\* What a field, or event, i of a node is followed by: IS and an interface of the PROTO.
CanBe(i, j) == i.value = j.value /\ (i.type = "exposedField" \/ i.type = j.type)

\* The value of the field i, when it is not a node, or the rule for it.
Value(s, i) ==
  IF HoldsNodes(i) /\ s.fault = "parsing" THEN [s EXCEPT !.rules = Append(@, i.value)] ELSE s

NodeField ==
  /\ Rule = "node"
  /\ \E i \in Node.interfaces :
       /\ ~(Node.type = Script /\ IsEvent(i) /\ InProto)
       /\ \/ /\ ~(InProto /\ IsEvent(i))
             /\ Become(Value(FieldStart(Here, i), i))
          \/ \E j \in Inmost(scopes).declared :
               /\ InProto /\ CanBe(i, j)
               /\ Become(IsMapping(FieldStart(Here, i), i, j))
       /\ Oddly({<<"twice", i.id \in DOMAIN Current.values>>, <<"event", IsEvent(i)>>})
  /\ UNCHANGED protos

\* on_script_interface_decl: an event has no value, but a field of its name is started.
ScriptInterface ==
  /\ Rule = "node" /\ Node.type = Script
  /\ \E i \in Declared :
       /\ i.type # "exposedField" /\ \A j \in Node.interfaces : ~Clash(i, j)
       /\ LET started == FieldStart([Here EXCEPT !.nodes[Current.node].interfaces = @ \cup {i}], i)
              declared == IF IsEvent(i) /\ HoldsNodes(i) THEN PopChildren(started) ELSE started
          IN \/ /\ Become(IF IsEvent(i) THEN declared ELSE Value(declared, i))
                /\ Oddly({<<"twice", i.id \in DOMAIN Current.values>>})
             \/ \E j \in Inmost(scopes).declared :
                  /\ InProto /\ CanBe(i, j)
                  /\ Become(IsMapping(declared, i, j))
                  /\ Oddly({<<"twice", i.id \in DOMAIN Current.values>>,
                            <<"script event", IsEvent(i) /\ HoldsNodes(i)>>})
  /\ UNCHANGED protos

\* Mutation: the grammar's scope is not asked for the name.
UseOfNode ==
  /\ Rule \in {"scene", "body", "sfnode", "mfnode", "list"}
  /\ \E name \in DOMAIN Inmost(scopes).defs :
       LET p == Inmost(ps)
           found == name \in DOMAIN p.names
           enclosing == {i \in DOMAIN p.data : p.data[i].name = name}
       IN /\ \/ Become(Unless(~found, "use", Here, StatementDone(AddChild(Here, p.names[name]))))
             \/ p.data = << >> /\ Become([Here EXCEPT !.fault = "empty"])
          /\ Oddly({<<"enclosing", enclosing \ {Len(p.data)} # {}>>,
                    <<"self", Len(p.data) \in enclosing /\ Node.type # Script>>,
                    <<"rooted", p.data = << >>>>})
  /\ UNCHANGED protos

(* on_use: the innermost node in progress stands for itself; the others    *)
(* are not known yet.  Its name is asked for even if no node is in         *)
(* progress: the top of the empty stack is no node_data, so that the       *)
(* comparison either stops the program or finds another name.              *)
Use ==
  /\ Rule \in {"scene", "body", "sfnode", "mfnode", "list"}
  /\ \E name \in DOMAIN Inmost(scopes).defs :
       LET p == Inmost(ps)
           enclosing == {i \in DOMAIN p.data : p.data[i].name = name}
           self == Len(p.data) \in enclosing
           found == name \in DOMAIN p.names
       IN /\ \/ Become(Unless(~self /\ ~found, "use", Here,
                              StatementDone(AddChild(Here, IF self THEN SELF ELSE p.names[name]))))
             \/ p.data = << >> /\ Become([Here EXCEPT !.fault = "empty"])
          /\ Oddly({<<"enclosing", enclosing \ {Len(p.data)} # {}>>,
                    <<"self", self /\ Node.type # Script>>,
                    <<"rooted", p.data = << >>>>})
  /\ UNCHANGED protos

\* NULL, and the brackets of a list.
Null ==
  /\ Rule = "sfnode"
  /\ Become(ValueDone(Here))
  /\ UNCHANGED <<protos, quirks>>
ListStart ==
  /\ Rule = "mfnode"
  /\ Become([Here EXCEPT !.rules = SetInmost(@, "list")])
  /\ UNCHANGED <<protos, quirks>>
ListEnd ==
  /\ Rule = "list"
  /\ Become(ValueDone(Here))
  /\ UNCHANGED <<protos, quirks>>

\* on_route: the grammar checks the events; the nodes are looked up at the end of the scope.
RouteStatement ==
  /\ Rule \in {"scene", "body", "node"}
  /\ LET p == Inmost(ps)
         defs == Inmost(scopes).defs
     IN \E from, to \in DOMAIN defs :
          \E i \in nodes[defs[from]].interfaces, j \in nodes[defs[to]].interfaces :
            /\ i.type \in {"eventOut", "exposedField"} /\ j.type \in {"eventIn", "exposedField"}
            /\ i.value = j.value
            /\ LET r == [from |-> from, out |-> i.id, to |-> to, in |-> j.id]
               IN Become([Here EXCEPT !.ps = SetInmost(@, [p EXCEPT !.routes = Append(@, r)])])
  /\ UNCHANGED <<protos, quirks>>

\* on_proto_start: the PROTO's node_data takes the default values.
ProtoStart ==
  /\ Rule \in {"scene", "first", "body", "node"}
  /\ \E t \in TypeNames :
       Become([Here EXCEPT !.rules = Append(@, "interfaces"),
                           !.scopes = Append(@, [NoScope EXCEPT !.proto = TRUE]),
                           !.ps = Append(@, [NoParseScope EXCEPT !.type = t,
                                               !.data = << NodeData(0, Anonymous) >>])])
  /\ UNCHANGED <<protos, quirks>>

\* on_proto_interface, and the start of a default value of nodes.
ProtoInterface ==
  /\ Rule = "interfaces"
  /\ \E i \in {j \in Declared : \A k \in Inmost(scopes).declared : ~Clash(j, k)} :
       LET scope == Inmost(scopes)
           p == Inmost(ps)
           d == Inmost(p.data)
           started == [d EXCEPT !.values = With(@, i.id, << >>), !.current = i]
           s == [Here EXCEPT !.scopes = SetInmost(@, [scope EXCEPT !.declared = @ \cup {i}]),
                             !.ps = IF IsEvent(i) THEN @
                                    ELSE SetInmost(@, [p EXCEPT !.data = SetInmost(@, started)])]
       IN Become(IF IsEvent(i) \/ ~HoldsNodes(i) THEN s
                 ELSE [DefaultStart(s) EXCEPT !.rules = @ \o <<"default", i.value>>])
  /\ UNCHANGED <<protos, quirks>>

\* on_proto_body_start.
ProtoBody ==
  /\ Rule = "interfaces"
  /\ LET p == Inmost(ps)
     IN Become([Here EXCEPT !.rules = SetInmost(@, "first"),
                            !.ps = SetInmost(@, [p EXCEPT !.data = Outer(@),
                                                          !.children = << << >> >>])])
  /\ UNCHANGED <<protos, quirks>>

\* A type joins the scope around its declaration; the scope asserts that its name is new.
AddType(s, t, interfaces) ==
  LET scope == Inmost(s.scopes)
  IN Unless(t \in UNION {DOMAIN s.scopes[i].types : i \in DOMAIN s.scopes}, "type", s,
            [s EXCEPT !.scopes = SetInmost(@, [scope EXCEPT !.types = With(@, t, interfaces)])])

\* on_proto_finish, which comes before the grammar asks whether the type exists already.
ProtoEnd ==
  /\ Rule = "body"
  /\ LET p == Inmost(ps)
         s == [Here EXCEPT !.rules = Outer(@), !.scopes = Outer(@), !.ps = Outer(@)]
         around == Inmost(s.ps)
         defined == [s EXCEPT !.ps = SetInmost(@, [around EXCEPT !.bodies =
                                                     With(@, p.type, p.names)])]
     IN /\ Become(IF Len(p.children) # 1 THEN [Here EXCEPT !.fault = "scene"]
                  ELSE IF \E r \in Range(p.routes) : ~({r.from, r.to} \subseteq DOMAIN p.names)
                  THEN [Here EXCEPT !.fault = "routes"]
                  ELSE AddType(defined, p.type, Inmost(scopes).declared))
        /\ protos' = protos \cup {[isMap |-> p.isMap, said |-> p.said]}
        /\ Oddly({<<"typed", p.type \in TypesInScope>>})

\* on_externproto, of an EXTERNPROTO without interfaces.
Externproto ==
  /\ Rule \in {"scene", "first", "body", "node"}
  /\ \E t \in TypeNames : /\ Become(AddType(Here, t, {}))
                          /\ Oddly({<<"typed", t \in TypesInScope>>})
  /\ UNCHANGED protos

Statement ==
  /\ Read
  /\ \/ NodeStart \/ NodeField \/ ScriptInterface \/ Use \/ Null \/ RouteStatement
     \/ ProtoStart \/ ProtoInterface \/ Externproto
  /\ Len(rules') <= MaxDepth

Bracket ==
  /\ outcome = "parsing"
  /\ NodeEnd \/ ListStart \/ ListEnd \/ ProtoBody \/ ProtoEnd
  /\ UNCHANGED tokens

\* The end of the file.
SceneEnd ==
  /\ outcome = "parsing" /\ rules = <<"scene">>
  /\ Become(SceneFinish(Here))
  /\ UNCHANGED <<protos, tokens, quirks>>

\* The grammar throws for what it does not expect, anywhere.
ParseError ==
  /\ outcome = "parsing"
  /\ Become([Here EXCEPT !.fault = "exception"])
  /\ UNCHANGED <<protos, tokens, quirks>>

(* But the brace that closes a PROTO's body is not expected: without it,   *)
(* the rules fail silently one after the other, up to the scene, whose     *)
(* end has then come.                                                      *)
BodyLeftOpen ==
  /\ outcome = "parsing"
  /\ Len(rules) > 1 /\ \A k \in 2 .. Len(rules) : rules[k] = "body"
  /\ Become(SceneFinish(Here))
  /\ Oddly({<<"open", TRUE>>})
  /\ UNCHANGED <<protos, tokens>>

ParseInit ==
  /\ rules = <<"scene">>
  /\ scopes = << [NoScope EXCEPT !.types = BuiltIn] >>
  /\ ps = << [NoParseScope EXCEPT !.children = << << >> >>] >>
  /\ nodes = << >> /\ result = << >> /\ protos = {}
  /\ outcome = "parsing" /\ tokens = 0 /\ quirks = {}

ParseNext == Statement \/ Bracket \/ SceneEnd \/ ParseError \/ BodyLeftOpen

ParseSpec == ParseInit /\ [][ParseNext]_paVars

-----------------------------------------------------------------------------
(* Properties. *)

\* The rules that have a parse scope of their own, and the ones with a list of nodes.
Scoped == {"scene", "interfaces", "first", "body", "default"}
Listing == {"scene", "first", "body", "sfnode", "mfnode", "list"}
CountOf(S) == Cardinality({k \in DOMAIN rules : rules[k] \in S})
SumOver(f(_)) == FoldSet(LAMBDA k, total : total + f(ps[k]), 0, DOMAIN ps)

(* The types of the variables; and the actions' stacks are as high as the  *)
(* grammar's rules call for, as the comment on the destructor has it       *)
(* (parse_vrml.h 106-117), unless an event of a Script was IS'd.           *)
ParseTypeOK ==
  /\ outcome \in {"parsing", "done", "invalid", "terminate",
                  "field", "use", "empty", "children", "type", "scene", "routes"}
  /\ tokens \in 0 .. MaxTokens
  /\ \A n \in DOMAIN nodes : nodes[n].children \subseteq DOMAIN nodes \cup {SELF}
  /\ (outcome = "parsing" /\ "script event" \notin quirks) =>
       /\ Len(ps) = CountOf(Scoped) /\ Len(scopes) = Len(ps)
       /\ SumOver(LAMBDA p : Len(p.children)) = CountOf(Listing)
       /\ SumOver(LAMBDA p : Len(p.data)) = CountOf({"node", "interfaces", "default"})

(* What is wrong, or odd, in a file stops the program in these ways        *)
(* only: a field or a type that is given twice, the USE of a node that is  *)
(* still open, an event that a Script hands to its PROTO, or a name that   *)
(* comes to mean another node after a ROUTE, trips over an assertion; a    *)
(* PROTO without an end does too; an exception leaves the destructor when  *)
(* an event was given a value; and a USE outside of any node, which the    *)
(* grammar allows, takes the top of an empty stack (parse_vrml.h 767).     *)
(* The nodes of a ROUTE are always found.                                  *)
ParseFaultsHaveCauses ==
  /\ outcome = "field" => "twice" \in quirks
  /\ outcome = "type" => "typed" \in quirks
  /\ outcome = "use" => "enclosing" \in quirks
  /\ outcome = "empty" => "rooted" \in quirks
  /\ outcome # "routes"
  /\ outcome = "scene" => quirks \cap {"open", "script event"} # {}
  /\ outcome = "children" => quirks \cap {"renamed", "instance", "script event"} # {}
  /\ outcome = "terminate" => "event" \in quirks

\* What the nodes of S lead to.
LeadsTo(S) ==
  FoldSet(LAMBDA k, T : T \cup UNION {nodes[n].children : n \in T \ {SELF}}, S, DOMAIN nodes)

(* However a file breaks off, the scene that is made of it holds every     *)
(* node that was begun outside of a PROTO.                                 *)
NodesAreKept ==
  (outcome \in {"done", "invalid"} /\ "event" \notin quirks) =>
    {n \in DOMAIN nodes : nodes[n].depth = 1} \subseteq LeadsTo(Range(result))

(* The grammar and the actions agree on the node that a name stands for,   *)
(* once it is finished, unless it was named within one of the same name,   *)
(* or the body of an instance that came after it has a node of that name:  *)
(* instances have no scope of their own (proto.cpp 1068, 746).  And the    *)
(* definition of a PROTO has every IS that was read in its body, and no    *)
(* other.                                                                  *)
NamesAgree ==
  /\ (outcome = "parsing" /\ quirks \cap {"nested", "instance"} = {}) =>
       \A k \in DOMAIN scopes : \A name \in DOMAIN scopes[k].defs :
         LET n == scopes[k].defs[name]
         IN nodes[n].finished => ps[k].names[name] = n
  /\ \A p \in protos : p.isMap = p.said
===============================================================================
