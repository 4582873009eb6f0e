--------------------------- MODULE BindableNodes ---------------------------
(***************************************************************************)
(* The bindable nodes of OpenVRML: Viewpoint, NavigationInfo, Background   *)
(* and Fog.  Every node_metatype owns one bound_node_stack; the node on    *)
(* top of it is the active one.  A node is bound and unbound by events     *)
(* sent to its set_bind eventIn, and it reports the change through its     *)
(* isBound eventOut, whose listeners run BEFORE the call that emitted the  *)
(* event returns.  They may be set_bind eventIns again: the functions of   *)
(* the stack are re-entered while they are half done.  The model therefore *)
(* keeps the calls in progress on one explicit call stack, and a step runs *)
(* the code between two callbacks.                                         *)
(*                                                                         *)
(* The scene's life around it is modelled too: the nodes are initialized   *)
(* in file order, the metatypes bind their first node, the world runs, the *)
(* nodes are shut down in file order, and the next world is loaded with a  *)
(* fresh node_metatype registry.                                           *)
(***************************************************************************)
EXTENDS Integers, Sequences, FiniteSets, SequencesExt

CONSTANTS
  Nodes,      \* the bindable nodes of a world
  Kinds,      \* the metatypes they belong to
  KindOf,     \* the metatype of each node
  World,      \* the nodes of a world in file order
  Routes,     \* [from, to, negate]: from.isBound is routed to to.set_bind
  MaxDepth,   \* calls that fit on the thread's stack
  NoNode,     \* the null pointer
  Default     \* the browser's default viewpoint, or navigation info

Metatypes == {"Viewpoint", "NavigationInfo", "Background", "Fog"}

ASSUME NodesAssumption ==
  /\ Kinds \subseteq Metatypes
  /\ KindOf \in [Nodes -> Kinds]
  /\ World \in Seq(Nodes)
  /\ Routes \subseteq [from : Nodes, to : Nodes, negate : BOOLEAN]
  /\ NoNode \notin Nodes /\ Default \notin Nodes
  /\ MaxDepth \in Nat \ {0}

VARIABLES
  stack,      \* bound_nodes of each metatype; its last element is top()
  isBound,    \* is_bound_ of each node
  first,      \* first of each metatype
  active,     \* active_viewpoint_ and active_navigation_info_ of the browser
  viewpoints, \* viewpoint_list_ of the browser
  scene       \* the nodes whose scene_ is not null

VARIABLES
  phase,      \* where set_world, or the running world, stands
  at,         \* nodes of World handled in this phase
  pending,    \* metatypes that node_metatype_registry_impl::init has yet to call
  requested   \* the Viewpoint that the fragment of the world's URL names

VARIABLES
  calls,      \* the bind and unbind calls in progress, the innermost one last
  fault       \* what stopped the program, if anything did

nodeVars  == <<stack, isBound, first, active, viewpoints, scene>>
worldVars == <<phase, at, pending, requested>>
vars      == <<nodeVars, worldVars, calls, fault>>

(***************************************************************************)
(* A call in progress.  todo holds the routes of the emission under way    *)
(* that have not been delivered; seen is the stack the call found.         *)
(***************************************************************************)
Frame == [op : {"bind", "unbind"}, node : Nodes, pc : {"enter", "change", "return"},
          todo : SUBSET Routes, seen : Seq(Nodes), shutdown : BOOLEAN]

Call(op, n, shutdown) ==
  [op |-> op, node |-> n, pc |-> "enter", todo |-> {}, seen |-> <<>>,
   shutdown |-> shutdown]

-----------------------------------------------------------------------------
(* Only these two metatypes tell the browser which of their nodes is active. *)
Tracked(k) == k \in {"Viewpoint", "NavigationInfo"}

Listeners(n) == {r \in Routes : r.from = n}

OnStack(n) == \E i \in DOMAIN stack[KindOf[n]] : stack[KindOf[n]][i] = n

(* Mutation: the top of the stack is taken for the node's position. *)
PositionOfTop(n, s) == Len(s)

(* std::find: the first position of n in the sequence s. *)
PositionOf(n, s) ==
  CHOOSE i \in DOMAIN s : s[i] = n /\ \A j \in 1..(i - 1) : s[j] # n

(* Mutation: a node that is bound again keeps its old place as well. *)
EraseNothing(n, s) == s

Erase(n, s) == RemoveAt(s, PositionOf(n, s))

-----------------------------------------------------------------------------
(* The running call. *)

Running(op, pc) ==
  /\ fault = "none"
  /\ calls # <<>>
  /\ Last(calls).op = op
  /\ Last(calls).pc = pc
  /\ Last(calls).todo = {}

Current == Last(calls)

KindHere == KindOf[Current.node]

(* What a call remembers of the stack when it goes on at pc. *)
Remembered(pc) == IF pc = "change" THEN stack[KindHere] ELSE <<>>

(* The running call goes on at pc, once the routes of todo are delivered. *)
Resume(pc, todo) ==
  calls' = [calls EXCEPT ![Len(calls)] =
              [Current EXCEPT !.pc = pc, !.todo = todo, !.seen = Remembered(pc)]]

(* The running call goes on at pc, having nothing to emit. *)
GoTo(pc) == Resume(pc, {})

(***************************************************************************)
(* n.bind(value, timestamp): set is_bound_ and emit isBound; the running   *)
(* call goes on at pc when every listener has been called.                 *)
(***************************************************************************)
NodeBind(n, value, pc) ==
  /\ isBound' = [isBound EXCEPT ![n] = value]
  /\ Resume(pc, Listeners(n))

Return == calls' = Front(calls)

Fail(what) ==
  /\ fault' = what
  /\ UNCHANGED <<nodeVars, worldVars, calls>>

-----------------------------------------------------------------------------
(* Mutation: the loop over the listeners does not advance. *)
DeliverAgain(r) ==
  /\ fault = "none"
  /\ calls # <<>>
  /\ r \in Current.todo
  /\ Len(calls) < MaxDepth
  /\ calls' = Append(calls, Call(IF isBound[r.from] # r.negate
                                 THEN "bind" ELSE "unbind", r.to, FALSE))
  /\ UNCHANGED <<nodeVars, worldVars, fault>>

(***************************************************************************)
(* event_emitter::emit_event calls the next listener, which is the         *)
(* set_bind of r.to.  The value is read from is_bound_ at that moment, not *)
(* when the emission began.  A call that does not fit on the thread's      *)
(* stack ends the program.                                                 *)
(***************************************************************************)
Deliver(r) ==
  /\ fault = "none"
  /\ calls # <<>>
  /\ r \in Current.todo
  /\ IF Len(calls) = MaxDepth
     THEN Fail("overflow")
     ELSE /\ calls' = Append([calls EXCEPT ![Len(calls)] =
                                [Current EXCEPT !.todo = @ \ {r}]],
                             Call(IF isBound[r.from] # r.negate
                                  THEN "bind" ELSE "unbind", r.to, FALSE))
          /\ UNCHANGED <<nodeVars, worldVars, fault>>

(***************************************************************************)
(* bound_node_stack::bind up to the FALSE that the current top emits: the  *)
(* node leaves its place in the stack, and no longer is on it while that   *)
(* event cascades.                                                         *)
(***************************************************************************)
BindEnter ==
  /\ Running("bind", "enter")
  /\ LET n == Current.node
         k == KindHere
         s == IF OnStack(n) THEN Erase(n, stack[k]) ELSE stack[k]
     IN  \/ /\ stack[k] # <<>> /\ Last(stack[k]) = n
            /\ GoTo("return")
            /\ UNCHANGED <<stack, isBound>>
         \/ /\ ~(stack[k] # <<>> /\ Last(stack[k]) = n)
            /\ stack' = [stack EXCEPT ![k] = s]
            /\ IF s = <<>>
               THEN GoTo("change") /\ UNCHANGED isBound
               ELSE NodeBind(Last(s), FALSE, "change")
  /\ UNCHANGED <<first, active, viewpoints, scene, worldVars, fault>>

(* bound_node_stack::bind, the rest: push the node, which then emits TRUE. *)
BindPush ==
  /\ Running("bind", "change")
  /\ stack' = [stack EXCEPT ![KindHere] = Append(@, Current.node)]
  /\ NodeBind(Current.node, TRUE, "return")
  /\ UNCHANGED <<first, active, viewpoints, scene, worldVars, fault>>

(* Mutation: the browser only learns of the first node that is bound. *)
SetActiveOnce(k, n) ==
  /\ n \in scene
  /\ active' = IF active[k] = Default THEN [active EXCEPT ![k] = n] ELSE active

(***************************************************************************)
(* browser::active_viewpoint(n) and browser::active_navigation_info(n):    *)
(* they assert that n belongs to the root scene.                           *)
(***************************************************************************)
SetActive(k, n) ==
  /\ n \in scene
  /\ active' = [active EXCEPT ![k] = n]

(* viewpoint_metatype::bind after bound_nodes.bind has returned. *)
BindReturn ==
  /\ Running("bind", "return")
  /\ \/ /\ Tracked(KindHere) /\ Current.node \notin scene
        /\ Fail("assert")
     \/ /\ IF Tracked(KindHere)
           THEN SetActive(KindHere, Current.node)
           ELSE UNCHANGED active
        /\ Return
        /\ UNCHANGED <<stack, isBound, first, viewpoints, scene, worldVars, fault>>

(* Mutation: unbinding does not tell the node. *)
UnbindSilently ==
  /\ Running("unbind", "enter")
  /\ GoTo(IF OnStack(Current.node) THEN "change" ELSE "return")
  /\ UNCHANGED <<nodeVars, worldVars, fault>>

(* Mutation: the node is erased before it is told, and then once more. *)
UnbindErasesFirst ==
  /\ Running("unbind", "enter")
  /\ IF OnStack(Current.node)
     THEN /\ NodeBind(Current.node, FALSE, "change")
          /\ stack' = [stack EXCEPT ![KindHere] = Erase(Current.node, @)]
     ELSE GoTo("return") /\ UNCHANGED <<isBound, stack>>
  /\ UNCHANGED <<first, active, viewpoints, scene, worldVars, fault>>

(***************************************************************************)
(* bound_node_stack::unbind up to the FALSE that the node emits, whether   *)
(* or not it is the active one.                                            *)
(***************************************************************************)
UnbindEnter ==
  /\ Running("unbind", "enter")
  /\ IF OnStack(Current.node)
     THEN NodeBind(Current.node, FALSE, "change")
     ELSE GoTo("return") /\ UNCHANGED isBound
  /\ UNCHANGED <<stack, first, active, viewpoints, scene, worldVars, fault>>

(***************************************************************************)
(* bound_node_stack::unbind, the rest: erase through the iterator obtained *)
(* before the event.  If the cascade changed the deque, the iterator is    *)
(* invalid: the program may stop or erase whatever it points to now.       *)
(* A new top is told that it is bound only if more than one node is left.  *)
(***************************************************************************)
UnbindErase ==
  /\ Running("unbind", "change")
  /\ LET n == Current.node
         s == stack[KindHere]
     IN  \/ /\ s # Current.seen
            /\ Fail("iterator")
         \/ \E i \in DOMAIN s :
              /\ s = Current.seen => i = PositionOf(n, s)
              /\ LET rest == RemoveAt(s, i)
                 IN  /\ stack' = [stack EXCEPT ![KindHere] = rest]
                     /\ IF Last(s) = n /\ Len(rest) > 1
                        THEN NodeBind(Last(rest), TRUE, "return")
                        ELSE GoTo("return") /\ UNCHANGED isBound
              /\ UNCHANGED <<first, active, viewpoints, scene, worldVars, fault>>

(* Mutation: first is not reset. *)
ForgetAllButFirst(n) ==
  /\ viewpoints' = viewpoints \ {n}
  /\ scene' = scene \ {n}
  /\ UNCHANGED first

(***************************************************************************)
(* The end of viewpoint_node::do_shutdown and of node::shutdown, after the *)
(* node has been unbound.                                                  *)
(***************************************************************************)
ForgetNode(n) ==
  /\ viewpoints' = viewpoints \ {n}
  /\ first' = [k \in Kinds |-> IF first[k] = n THEN NoNode ELSE first[k]]
  /\ scene' = scene \ {n}

(* Mutation: no node is active, not even the default one. *)
ResetToNull(k) == active' = [active EXCEPT ![k] = NoNode]

(* browser::reset_default_viewpoint and reset_default_navigation_info. *)
ResetDefault(k) == active' = [active EXCEPT ![k] = Default]

(* viewpoint_metatype::unbind after bound_nodes.unbind has returned. *)
UnbindReturn ==
  /\ Running("unbind", "return")
  /\ LET k == KindHere
         s == stack[KindHere]
     IN  \/ /\ Tracked(k) /\ s # <<>> /\ Last(s) \notin scene
            /\ Fail("assert")
         \/ /\ CASE ~Tracked(k) -> UNCHANGED active
                 [] Tracked(k) /\ s = <<>> -> ResetDefault(k)
                 [] OTHER -> SetActive(k, Last(s))
            /\ IF Current.shutdown
               THEN ForgetNode(Current.node)
               ELSE UNCHANGED <<first, viewpoints, scene>>
            /\ Return
            /\ UNCHANGED <<stack, isBound, worldVars, fault>>

-----------------------------------------------------------------------------
(* The life of a world.  Each of these steps finds no call in progress. *)

Idle == fault = "none" /\ calls = <<>>

(* scene::initialize: node::initialize and do_initialize of the next node. *)
InitializeNode ==
  /\ Idle /\ phase = "loading" /\ at < Len(World)
  /\ at' = at + 1
  /\ LET n == World[at + 1] IN
       IF n \in scene
       THEN UNCHANGED <<scene, first, viewpoints>>
       ELSE /\ scene' = scene \cup {n}
            /\ first' = [first EXCEPT ![KindOf[n]] = IF @ = NoNode THEN n ELSE @]
            /\ viewpoints' = IF KindOf[n] = "Viewpoint"
                             THEN viewpoints \cup {n} ELSE viewpoints
  /\ UNCHANGED <<stack, isBound, active, phase, pending, requested, calls, fault>>

(* browser::set_world looks up the Viewpoint that the URL's fragment names. *)
FindInitialViewpoint ==
  /\ Idle /\ phase = "loading" /\ at = Len(World)
  /\ phase' = "metatypes" /\ pending' = Kinds
  /\ requested' \in viewpoints \cup {NoNode}
  /\ UNCHANGED <<nodeVars, at, calls, fault>>

(***************************************************************************)
(* viewpoint_metatype::do_initialize, and those of the other metatypes:    *)
(* send set_bind TRUE to the metatype's first node.  The requested         *)
(* Viewpoint only decides whether the event is sent.                       *)
(***************************************************************************)
InitializeMetatype(k) ==
  /\ Idle /\ phase = "metatypes" /\ k \in pending
  /\ pending' = pending \ {k}
  /\ calls' = IF first[k] = NoNode THEN calls
              ELSE Append(calls, Call("bind", first[k], FALSE))
  /\ UNCHANGED <<nodeVars, phase, at, requested, fault>>

StartWorld ==
  /\ Idle /\ phase = "metatypes" /\ pending = {}
  /\ phase' = "running"
  /\ UNCHANGED <<nodeVars, at, pending, requested, calls, fault>>

(* An event for the set_bind of n from outside the bindable nodes. *)
SetBind(n, value) ==
  /\ Idle /\ phase = "running"
  /\ calls' = Append(calls, Call(IF value THEN "bind" ELSE "unbind", n, FALSE))
  /\ UNCHANGED <<nodeVars, worldVars, fault>>

(* browser::set_world begins to clear out the current scene. *)
BeginShutdown ==
  /\ Idle /\ phase = "running"
  /\ phase' = "shutdown" /\ at' = 0
  /\ UNCHANGED <<nodeVars, pending, requested, calls, fault>>

(* scene::shutdown: node::shutdown of the next node. *)
ShutdownNode ==
  /\ Idle /\ phase = "shutdown" /\ at < Len(World)
  /\ at' = at + 1
  /\ calls' = IF World[at + 1] \in scene
              THEN Append(calls, Call("unbind", World[at + 1], TRUE))
              ELSE calls
  /\ UNCHANGED <<nodeVars, phase, pending, requested, fault>>

(***************************************************************************)
(* browser::set_world replaces the registry, and with it the metatypes and *)
(* their stacks, and creates the new scene; its nodes are new ones.        *)
(***************************************************************************)
ReplaceScene ==
  /\ Idle /\ phase = "shutdown" /\ at = Len(World)
  /\ IF viewpoints # {}
     THEN Fail("assert")
     ELSE /\ phase' = "loading" /\ at' = 0
          /\ stack' = [k \in Kinds |-> <<>>]
          /\ first' = [k \in Kinds |-> NoNode]
          /\ isBound' = [n \in Nodes |-> FALSE]
          /\ UNCHANGED <<active, viewpoints, scene, pending, requested, calls, fault>>

(* The program has stopped. *)
Halted == fault # "none" /\ UNCHANGED vars

Init ==
  /\ stack = [k \in Kinds |-> <<>>]
  /\ isBound = [n \in Nodes |-> FALSE]
  /\ first = [k \in Kinds |-> NoNode]
  /\ active = [k \in Kinds |-> Default]
  /\ viewpoints = {} /\ scene = {}
  /\ phase = "loading" /\ at = 0
  /\ pending = {} /\ requested = NoNode
  /\ calls = <<>> /\ fault = "none"

CallStep ==
  \/ \E r \in Routes : Deliver(r)
  \/ BindEnter
  \/ BindPush
  \/ BindReturn
  \/ UnbindEnter
  \/ UnbindErase
  \/ UnbindReturn

WorldStep ==
  \/ InitializeNode
  \/ FindInitialViewpoint
  \/ \E k \in Kinds : InitializeMetatype(k)
  \/ StartWorld
  \/ \E n \in Nodes, value \in BOOLEAN : SetBind(n, value)
  \/ BeginShutdown
  \/ ShutdownNode
  \/ ReplaceScene

Next == CallStep \/ WorldStep \/ Halted

Spec == Init /\ [][Next]_vars

(* The thread that runs a cascade keeps running it. *)
FairSpec == Spec /\ WF_vars(CallStep)

-----------------------------------------------------------------------------
(* Properties. *)

(* Every variable has its type; calls never outgrow the thread's stack. *)
TypeOK ==
  /\ stack \in [Kinds -> Seq(Nodes)]
  /\ isBound \in [Nodes -> BOOLEAN]
  /\ first \in [Kinds -> Nodes \cup {NoNode}]
  /\ active \in [Kinds -> Nodes \cup {Default}]
  /\ viewpoints \subseteq Nodes /\ scene \subseteq Nodes
  /\ phase \in {"loading", "metatypes", "running", "shutdown"}
  /\ at \in 0..Len(World)
  /\ pending \subseteq Kinds /\ requested \in Nodes \cup {NoNode}
  /\ calls \in Seq(Frame) /\ Len(calls) <= MaxDepth
  /\ fault \in {"none", "assert", "overflow", "iterator"}

(***************************************************************************)
(* isBound is routed only from one metatype to another, and never round in *)
(* a circle: an event of a metatype's stack does not reach that stack.     *)
(***************************************************************************)
LayeredBy(rank) ==
  /\ rank \in [Kinds -> Nat]
  /\ \A r \in Routes : rank[KindOf[r.from]] < rank[KindOf[r.to]]

Layered == \E rank \in [Kinds -> 0..(MaxDepth - 1)] : LayeredBy(rank)

InCall(k) == \E i \in DOMAIN calls : KindOf[calls[i].node] = k

(***************************************************************************)
(* A node is on its stack at most once, in the middle of a cascade too: a  *)
(* second pointer would outlive the node (bound_node_stack::bind/unbind).  *)
(***************************************************************************)
NoDuplicates ==
  \A k \in Kinds : \A i, j \in DOMAIN stack[k] :
    stack[k][i] = stack[k][j] => i = j

(***************************************************************************)
(* At every instant of every cascade, of the nodes of one metatype only    *)
(* the active one, the top of the stack, has told the world it is bound.   *)
(***************************************************************************)
OnlyActiveIsBound ==
  \A n \in Nodes :
    isBound[n] => /\ stack[KindOf[n]] # <<>>
                  /\ n = Last(stack[KindOf[n]])

(***************************************************************************)
(* When no call of its metatype is in progress, the browser's active node  *)
(* is the top of the stack, and the default one when the stack is empty    *)
(* (viewpoint_metatype::bind and unbind, navigation_info_metatype's).      *)
(***************************************************************************)
BrowserFollowsStack ==
  fault = "none" =>
    \A k \in Kinds : Tracked(k) /\ ~InCall(k) =>
      active[k] = IF stack[k] = <<>> THEN Default ELSE Last(stack[k])

(***************************************************************************)
(* No pointer to a node outlives it: when no call is in progress, the      *)
(* stacks of Viewpoint and NavigationInfo, first and viewpoint_list_ hold  *)
(* nodes of the scene only, whatever cascades the shutdown set off.        *)
(***************************************************************************)
NoDanglingNode ==
  Idle => /\ \A k \in Kinds : first[k] \in scene \cup {NoNode}
          /\ \A k \in Kinds : Tracked(k) => ToSet(stack[k]) \subseteq scene
          /\ viewpoints = {n \in scene : KindOf[n] = "Viewpoint"}

(***************************************************************************)
(* With layered routes no cascade invalidates the iterator that unbind     *)
(* holds across its callback, and none recurses without end.               *)
(***************************************************************************)
NoReentrancyFault == fault \notin {"iterator", "overflow"}

(***************************************************************************)
(* Why the three properties above hold when the routes are layered.        *)
(* KindInv: what they say of one metatype, and that its stack holds nodes  *)
(* of that metatype.  FrameInv: what the call at i relies on when its      *)
(* callbacks have returned.  CallsAscend: the calls in progress belong to  *)
(* metatypes of strictly increasing rank, so none works on the stack of    *)
(* another.                                                                *)
(***************************************************************************)
KindInv(k) ==
  /\ \A i \in DOMAIN stack[k] : KindOf[stack[k][i]] = k
  /\ \A i, j \in DOMAIN stack[k] : stack[k][i] = stack[k][j] => i = j
  /\ \A n \in Nodes : KindOf[n] = k /\ isBound[n] =>
       stack[k] # <<>> /\ n = Last(stack[k])

FrameInv(i) ==
  LET c == calls[i]
      k == KindOf[calls[i].node]
  IN  /\ \A r \in c.todo : KindOf[r.from] = k
      /\ c.op = "bind" /\ c.pc = "change" =>
           /\ \A j \in DOMAIN stack[k] : stack[k][j] # c.node
           /\ \A n \in Nodes : KindOf[n] = k => ~isBound[n]
      /\ c.op = "bind" /\ c.pc = "return" =>
           stack[k] # <<>> /\ Last(stack[k]) = c.node
      /\ c.op = "unbind" /\ c.pc = "change" =>
           /\ c.seen = stack[k]
           /\ \E j \in DOMAIN stack[k] : stack[k][j] = c.node
           /\ ~isBound[c.node]

CallsAscend(rank) ==
  \A i \in DOMAIN calls :
    /\ i - 1 <= rank[KindOf[calls[i].node]]
    /\ \A j \in DOMAIN calls :
         i < j => rank[KindOf[calls[i].node]] < rank[KindOf[calls[j].node]]

CascadeInv(rank) ==
  /\ \A k \in Kinds : KindInv(k)
  /\ \A i \in DOMAIN calls : FrameInv(i)
  /\ CallsAscend(rank)
  /\ NoReentrancyFault

(***************************************************************************)
(* Every cascade comes to its end: set_bind returns (or an assertion stops *)
(* the program on the way).                                                *)
(***************************************************************************)
CascadesEnd == (calls # <<>>) ~> (calls = <<>> \/ fault = "assert")

(***************************************************************************)
(* The stacks as their users see them: while a node on its way to the top  *)
(* waits for the FALSE of the old top, its call still stands for the stack *)
(* it found.  Seen so, every step of every cascade is one binding, one     *)
(* unbinding, the start of a world, or none of them (module BindingStack). *)
(***************************************************************************)
VisibleStack ==
  [k \in Kinds |->
     IF \E i \in DOMAIN calls : /\ KindOf[calls[i].node] = k
                                /\ calls[i].op = "bind" /\ calls[i].pc = "change"
     THEN calls[CHOOSE i \in DOMAIN calls :
                  /\ KindOf[calls[i].node] = k
                  /\ calls[i].op = "bind" /\ calls[i].pc = "change"].seen
     ELSE stack[k]]

Binding == INSTANCE BindingStack WITH bound <- VisibleStack

ImplementsBinding == Binding!Spec

(***************************************************************************)
(* VRML97 4.6.10 as bound_node_stack::unbind's documentation restates it:  *)
(* the next node on the stack becomes the active node, by bind(true).      *)
(***************************************************************************)
ActiveIsBound ==
  Idle => \A k \in Kinds : stack[k] # <<>> => isBound[Last(stack[k])]

(***************************************************************************)
(* The precondition of browser::active_viewpoint and active_navigation_    *)
(* info, which they assert: the node belongs to the root scene.            *)
(***************************************************************************)
ActiveNodeInScene == fault # "assert"

(***************************************************************************)
(* node_metatype::initialize: initial_viewpoint is the viewpoint_node that *)
(* should be bound initially.                                              *)
(***************************************************************************)
RequestedIsBound ==
  Idle /\ phase = "metatypes" /\ pending = {} /\ requested # NoNode
    => active["Viewpoint"] = requested

=============================================================================
