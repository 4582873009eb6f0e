----------------------------- MODULE ProtoInstance -----------------------------
(***************************************************************************)
(* An instance of a PROTO (local/proto.cpp, proto.h): how it is made of    *)
(* the PROTO's definition, and how events pass through it.                 *)
(*                                                                         *)
(* The instance clones the nodes of the definition's body, finds the clone *)
(* of each node that a route or an IS of the definition names, and wires   *)
(* it.  Each node has one exposedField here; the PROTO has an eventIn and  *)
(* an eventOut, or an exposedField.  Listeners are called as an event is   *)
(* sent, and get its value by reference: a Script in the body or around it *)
(* may send other events meanwhile.                                        *)
(***************************************************************************)
EXTENDS Naturals, Sequences, FiniteSets, SequencesExt

CONSTANTS
  Nodes,      \* the nodes of a definition's body
  Body,       \* the list of nodes that is the body
  Bodies,     \* the bodies: the nodes in the fields of Body and of each node, and the routes
  NoNode,     \* no node at the end of a path
  Wirings,    \* the sets of nodes that one event of the PROTO may be mapped to
  MaxPath,    \* bound: the depth of a body
  LastStamp,  \* bound: the timestamps of events
  MaxEvents,  \* bound: the events from outside
  MaxFrames   \* bound: the calls that fit on the stack

Values == {0, 1}  \* 0 is the default value of the field's type
NoValue == 2

(* A node's own field may hold the node itself, if it is a Script.  The    *)
(* fields of an opaque node do not show: it is an instance whose PROTO     *)
(* has no IS for them.                                                     *)
ASSUME ProtoInstanceAssumption ==
  /\ Body \notin Nodes /\ NoNode \notin Nodes \cup {Body}
  /\ IsFiniteSet(Nodes)
  /\ \A b \in Bodies : /\ b.fields \in [Nodes \cup {Body} -> Seq(Nodes)]
                       /\ b.opaque \subseteq Nodes /\ b.routes \subseteq Nodes \X Nodes
  /\ Wirings \subseteq SUBSET Nodes
  /\ {MaxPath, LastStamp, MaxEvents, MaxFrames} \subseteq Nat

VARIABLES
  proto,     \* the definition, and whether the eventOut is routed back to the eventIn
  made,      \* the instance was made
  clones,    \* its nodes, by their paths in the body
  wires,     \* its routes; the clones that its eventIn and its eventOut are wired to
  value,     \* the value of each clone's field
  outValue,  \* the value of the eventOut: listener.value
  outTime,   \* and its last_time_
  heard,     \* the last value it sent
  late,      \* history: the last event of a clone came too late to be passed on
  lastIn,    \* history: the last event for the eventIn, if nothing has changed the body since
  overtaken, \* history: since the last event for the instance while nothing was being
             \* sent, another one came or its value changed while it was being sent
  calls,     \* the frames of the thread, the innermost last
  events,    \* the events that came from outside
  broken     \* what stopped the program

instance == <<made, clones, wires>>
outVars == <<outValue, outTime, heard, late>>
histories == <<lastIn, overtaken>>
piVars == <<proto, instance, value, outVars, histories, calls, events, broken>>

-----------------------------------------------------------------------------
(* Definitions and paths.  A path is the index of a node in its list, from *)
(* the body on.                                                            *)

IsEventOut(kind) == kind = "events"

(* The eventIn is wired to some nodes, the eventOut to one.  An            *)
(* exposedField is both.                                                   *)
Definitions ==
  {d \in [body : Bodies, kind : {"events", "exposedField"}, ins : Wirings, outs : Wirings,
          feedback : BOOLEAN] :
     IF d.kind = "exposedField" THEN d.outs = d.ins ELSE Cardinality(d.outs) = 1}

Children(n) == IF n \in proto.body.opaque THEN << >> ELSE proto.body.fields[n]
NodeAt(path) ==
  LET at[k \in 0 .. Len(path)] ==
        IF k = 0 THEN Body
        ELSE LET n == at[k - 1]
             IN IF n # NoNode /\ path[k] \in DOMAIN Children(n) THEN Children(n)[path[k]] ELSE NoNode
  IN at[Len(path)]

\* Where the search for a node comes, as far as it does not go round in circles.
Indices == UNION {DOMAIN Children(n) : n \in Nodes \cup {Body}}
Visited == {p \in BoundedSeq(Indices, MaxPath) : p # << >> /\ NodeAt(p) # NoNode}
IsSelf(p) == Len(p) > 1 /\ NodeAt(p) = NodeAt(Front(p))

(* clone_node: never finds a node among the traversed_nodes, to which it   *)
(* adds none, and so clones a node once for each time it is used.  A Script*)
(* in a field of its own stands for the clone.                             *)
Cloned == {p \in Visited : ~\E k \in 1 .. Len(p) : IsSelf(SubSeq(p, 1, k))}

Shared(n) == Cardinality({p \in Cloned : NodeAt(p) = n}) > 1

\* path_getter: depth first, a node before the nodes in its fields.
Before(p, q) ==
  \/ IsStrictPrefix(p, q)
  \/ \E k \in DOMAIN p \cap DOMAIN q : p[k] < q[k] /\ SubSeq(p, 1, k - 1) = SubSeq(q, 1, k - 1)

\* Mutation: only the list of the body is searched.
PathsToRoots(n) == {p \in Cloned : NodeAt(p) = n /\ Len(p) = 1}

PathsTo(n) == {p \in Cloned : NodeAt(p) = n}

\* Mutation: the path ends too early.
ResolveToParent(n) ==
  LET p == CHOOSE p \in PathsTo(n) : \A q \in PathsTo(n) \ {p} : Before(p, q)
  IN IF Len(p) > 1 THEN Front(p) ELSE p

\* get_path and resolve_node_path: the first of the clones.
Resolve(n) == CHOOSE p \in PathsTo(n) : \A q \in PathsTo(n) \ {p} : Before(p, q)

\* The search follows a Script's reference to itself for ever, if it gets there first.
Endless(n) == \E s \in Visited : IsSelf(s) /\ \A p \in PathsTo(n) : Before(s, p)

NodesNamed == proto.ins \cup proto.outs \cup UNION {{r[1], r[2]} : r \in proto.body.routes}

-----------------------------------------------------------------------------
(* The instance is made. *)

\* A field that the PROTO's exposedField IS takes its value in every clone.
InitialValue(p, given) ==
  IF ~IsEventOut(proto.kind) /\ NodeAt(p) \in proto.ins THEN given ELSE 0

CreateInstance ==
  /\ ~made /\ broken = "none"
  /\ IF \E n \in NodesNamed : Endless(n)
     THEN broken' = "endless search" /\ UNCHANGED <<instance, value, outVars>>
     ELSE IF \E n \in NodesNamed : PathsTo(n) = {}
     THEN broken' = "assert" /\ UNCHANGED <<instance, value, outVars>>
     ELSE \E given \in Values :
            /\ made' = TRUE
            /\ clones' = Cloned
            /\ wires' = [routes |-> {<<Resolve(r[1]), Resolve(r[2])>> : r \in proto.body.routes},
                         ins |-> {Resolve(n) : n \in proto.ins},
                         outs |-> {Resolve(n) : n \in proto.outs}]
            /\ value' = [p \in Cloned |-> InitialValue(p, given)]
            /\ outValue' = IF IsEventOut(proto.kind) THEN 0 ELSE given
            /\ UNCHANGED <<outTime, heard, late, broken>>
  /\ UNCHANGED <<proto, histories, calls, events>>

-----------------------------------------------------------------------------
(* Events.  A listener is a clone, the eventOut's, the eventIn, or one of  *)
(* the world around the instance.                                          *)

End(kind) == [kind |-> kind, path |-> << >>]
Clone(p) == [kind |-> "clone", path |-> p]

(* A frame is an emit_event or an eventIn that passes its event on.  Its   *)
(* value is what the sender holds: a clone, the eventOut (whose event came *)
(* back), or v, something in the world.                                    *)
Call(op, from, v, at, event, todo) ==
  [op |-> op, from |-> from, v |-> v, at |-> at, event |-> event, todo |-> todo]

CloneSends(p, at, event) ==
  Call("emit", Clone(p), NoValue, at, event,
       {Clone(r[2]) : r \in {q \in wires.routes : q[1] = p}}
         \cup (IF p \in wires.outs THEN {End("out")} ELSE {}))
OutSends(at, event) ==
  Call("emit", End("out"), NoValue, at, event,
       {End("world")} \cup (IF proto.feedback THEN {End("in")} ELSE {}))
InPasses(from, v, at, event) == Call("in", from, v, at, event, {Clone(p) : p \in wires.ins})

Sent(f) == IF f.from.kind = "clone" THEN value[f.from.path]
           ELSE IF f.from.kind = "out" THEN outValue ELSE f.v

Frame == calls[Len(calls)]
Under == Front(calls)
Calling(caller, f) == Append(Append(Under, caller), f)

\* exposedField::do_process_event of a clone.
ProcessClone(p, caller) ==
  /\ value' = [value EXCEPT ![p] = Sent(Frame)]
  /\ calls' = Calling(caller, CloneSends(p, caller.at, caller.event))
  /\ UNCHANGED outVars

\* proto_eventout::listener_t: only what is later than the last event is passed on.
ProcessOut(caller) ==
  /\ late' = (caller.at <= outTime /\ outValue # Sent(Frame))
  /\ IF caller.at > outTime
     THEN calls' = Calling(caller, OutSends(caller.at, caller.event)) /\ outValue' = Sent(Frame)
     ELSE calls' = Append(Under, caller) /\ UNCHANGED outValue
  /\ UNCHANGED <<value, outTime, heard>>

ProcessWorld(caller) ==
  /\ heard' = Sent(Frame)
  /\ calls' = Append(Under, caller)
  /\ UNCHANGED <<value, outValue, outTime, late>>

ProcessIn(caller) ==
  /\ calls' = Calling(caller, InPasses(End("out"), NoValue, caller.at, caller.event))
  /\ UNCHANGED <<value, outVars>>

Delivering == broken = "none" /\ calls # << >> /\ Len(calls) <= MaxFrames

\* emit_event's loop, and the one of proto_eventin::do_process_event.
NextListener ==
  /\ Delivering
  /\ \E l \in Frame.todo :
       LET caller == [Frame EXCEPT !.todo = @ \ {l}]
       IN CASE l.kind = "out" -> ProcessOut(caller)
            [] l.kind = "world" -> ProcessWorld(caller)
            [] l.kind = "in" -> ProcessIn(caller)
            [] OTHER -> ProcessClone(l.path, caller)
  /\ UNCHANGED <<proto, instance, histories, events, broken>>

EmitReturns ==
  /\ Delivering /\ Frame.op = "emit" /\ Frame.todo = {}
  /\ outTime' = IF Frame.from.kind = "out" THEN Frame.at ELSE outTime
  /\ calls' = Under
  /\ UNCHANGED <<proto, instance, value, outValue, heard, late, histories, events, broken>>

\* Mutation: the value is sent, but not stored.
InForgets ==
  /\ Delivering /\ Frame.op = "in" /\ Frame.todo = {}
  /\ IF IsEventOut(proto.kind) THEN calls' = Under /\ UNCHANGED <<outValue, late>>
     ELSE /\ calls' = Append(Under, OutSends(Frame.at, Frame.event))
          /\ late' = FALSE
          /\ UNCHANGED outValue
  /\ UNCHANGED <<proto, instance, value, outTime, heard, histories, events, broken>>

\* An eventIn has passed its event on; an exposedField then sends it itself, at any time.
InReturns ==
  /\ Delivering /\ Frame.op = "in" /\ Frame.todo = {}
  /\ IF IsEventOut(proto.kind) THEN calls' = Under /\ UNCHANGED <<outValue, late>>
     ELSE /\ calls' = Append(Under, OutSends(Frame.at, Frame.event))
          /\ outValue' = Sent(Frame)
          /\ late' = FALSE
  /\ UNCHANGED <<proto, instance, value, outTime, heard, histories, events, broken>>

StackOverflow ==
  /\ broken = "none" /\ Len(calls) > MaxFrames
  /\ broken' = "overflow"
  /\ UNCHANGED <<proto, instance, value, outVars, histories, calls, events>>

(* An event for the instance, or for one of its nodes: while nothing is    *)
(* being sent, or from a Script that gets one of the events being sent,    *)
(* with its timestamp.  Timestamps need not grow: a TimeSensor ends in the *)
(* past.                                                                   *)
Outside(at) ==
  /\ made /\ broken = "none" /\ Len(calls) <= MaxFrames
  /\ events < MaxEvents /\ events' = events + 1
  /\ calls # << >> => at = Frame.at
  /\ UNCHANGED <<proto, instance, outVars, broken>>

InstanceEvent ==
  \E v \in Values, at \in 1 .. LastStamp :
    /\ Outside(at)
    /\ calls' = Append(calls, InPasses(End("world"), v, at, events'))
    /\ overtaken' = (calls # << >>)
    /\ lastIn' = IF calls = << >> THEN v ELSE lastIn
    /\ UNCHANGED value

BodyEvent ==
  \E v \in Values, at \in 1 .. LastStamp, p \in clones :
    /\ Outside(at)
    /\ value' = [value EXCEPT ![p] = v]
    /\ calls' = Append(calls, CloneSends(p, at, events'))
    /\ overtaken' = (overtaken \/ calls # << >>)
    /\ lastIn' = NoValue

\* What sent an event to the instance gets another value, before all have read it.
SourceChanges ==
  /\ Delivering
  /\ \E i \in DOMAIN calls, v \in Values :
       calls[i].from.kind = "world" /\ calls' = [calls EXCEPT ![i].v = v]
  /\ overtaken' = TRUE
  /\ UNCHANGED <<proto, instance, value, outVars, lastIn, events, broken>>

InstanceInit ==
  /\ proto \in Definitions
  /\ made = FALSE /\ clones = {} /\ wires = [routes |-> {}, ins |-> {}, outs |-> {}]
  /\ value = << >>
  /\ outValue = 0 /\ outTime = 0 /\ heard = NoValue /\ late = FALSE
  /\ lastIn = NoValue /\ overtaken = FALSE
  /\ calls = << >> /\ events = 0
  /\ broken = "none"

InstanceNext ==
  \/ CreateInstance \/ InstanceEvent \/ BodyEvent \/ SourceChanges
  \/ NextListener \/ EmitReturns \/ InReturns \/ StackOverflow

InstanceSpec == InstanceInit /\ [][InstanceNext]_piVars

-----------------------------------------------------------------------------
(* Properties. *)

(* The types of the variables (proto.h, proto.cpp). *)
InstanceTypeOK ==
  /\ {made, late, overtaken} \subseteq BOOLEAN
  /\ \A p \in clones : NodeAt(p) \in Nodes
  /\ wires.ins \cup wires.outs \subseteq clones /\ wires.routes \subseteq clones \X clones
  /\ value \in [clones -> Values]
  /\ outValue \in Values /\ {heard, lastIn} \subseteq Values \cup {NoValue}
  /\ outTime \in 0 .. LastStamp
  /\ Len(calls) <= MaxFrames + 1
  /\ events \in 0 .. MaxEvents
  /\ broken \in {"none", "endless search", "assert", "overflow"}

AtRest == made /\ calls = << >> /\ broken = "none"

(* An event for the instance changes each node that the definition maps it *)
(* to, wherever the node is in the body and whatever the body's routes, if *)
(* no other event overtakes it; unless the node is used twice: its clones  *)
(* have come apart, and only the first is wired (proto.cpp 472, 624,       *)
(* 1142-1147).                                                             *)
InReachesBody ==
  (AtRest /\ lastIn # NoValue /\ ~overtaken) =>
    \A p \in clones : (NodeAt(p) \in proto.ins /\ ~Shared(NodeAt(p))) => value[p] = lastIn

(* What the world has heard of the instance is the value it has; and this  *)
(* is the value of the node in its body that it is mapped to, whichever    *)
(* events overtake which, unless the body's last event was not later than  *)
(* the one before (proto.h 558).  Of an exposedField the latter is only    *)
(* true of events that nothing overtakes: it stores and sends the value    *)
(* that was passed in after the body has had it, and may have changed it   *)
(* (proto.cpp 1021-1023).                                                  *)
OutFollowsBody ==
  AtRest =>
    /\ heard # NoValue => heard = outValue
    /\ (~late /\ Cardinality(wires.outs) = 1 /\ (overtaken => IsEventOut(proto.kind))) =>
         \A p \in wires.outs : value[p] = outValue

(* Each node of the set has a route to another one, or itself. *)
Loops(set) == set # {} /\ \A n \in set : \E m \in set : <<n, m>> \in proto.body.routes

(* Making an instance fails only for a body with a Script that refers to   *)
(* itself, whose search for another node never ends, or a node that is     *)
(* hidden in the field of another instance; and its events only overflow   *)
(* the stack when the eventOut leads back to the eventIn or the body's     *)
(* routes go round: last_time_, set when the listeners have returned,      *)
(* breaks no loop (event.h 265).                                           *)
InstanceFaultsHaveCauses ==
  /\ broken = "endless search" => \E n \in Nodes : n \in Range(proto.body.fields[n])
  /\ broken = "assert" => proto.body.opaque # {}
  /\ broken = "overflow" => proto.feedback \/ \E set \in SUBSET Nodes : Loops(set)
===============================================================================
