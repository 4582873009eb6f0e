------------------------------ MODULE SceneGraph ------------------------------
(***************************************************************************)
(* The graph of a world's nodes while events change it: node::initialize   *)
(* and node::shutdown, which descend into it (node.cpp, scene.cpp), the    *)
(* children of grouping nodes (grouping_node_base.h), the lists on which   *)
(* the browser keeps nodes without owning them (browser.cpp), and the      *)
(* reference counts that free nodes.                                       *)
(*                                                                         *)
(* The descent is a stack of frames, one step for each node it enters: a   *)
(* Script that is entered may send events to any group, the ones that the  *)
(* descent is in the middle of among them.                                 *)
(***************************************************************************)
EXTENDS Naturals, Sequences, FiniteSetsExt, Functions

CONSTANTS
  Nodes,
  Groups,       \* grouping nodes: their fields are their children
  ScriptNodes,  \* Script nodes: their fields are their SFNode fields
  Timers,       \* time-dependent nodes
  Viewpoints,
  NULL,         \* no node
  Files,        \* the worlds that may be loaded: roots, the fields of every node, and the
                \* nodes a Script made itself (createVrmlFromString)
  MaxChildren,  \* bound: the children an event gives a group
  MaxEvents     \* bound: the events

\* The nodes the browser keeps a plain pointer to: scripts_, timers_, viewpoint_list_.
Registrars == ScriptNodes \cup Timers \cup Viewpoints

ASSUME SceneGraphAssumption ==
  /\ IsFiniteSet(Nodes)
  /\ Groups \subseteq Nodes /\ Registrars \subseteq Nodes
  /\ Groups \cap Registrars = {}
  /\ NULL \notin Nodes
  /\ MaxChildren \in Nat /\ MaxEvents \in Nat
  /\ \A f \in Files : /\ f.roots \in Seq(Nodes)
                      /\ f.fields \in [Nodes -> Seq(Nodes)]
                      /\ f.made \subseteq Nodes

VARIABLES
  file,      \* the world that was loaded
  fields,    \* the nodes in the fields of each node, in order
  held,      \* the nodes that the code of a Script holds
  alive,     \* the nodes that have not been freed
  inScene,   \* the nodes whose scene_ is the scene
  listed,    \* the nodes on the browser's lists
  calls,     \* the calls of initialize or shutdown in progress, the innermost last
  rootAt,    \* the next of the scene's nodes_ they are called for
  phase,     \* loaded, initialize, up, shutdown, down, reset
  flagged,   \* the groups whose modified_ is set
  events,    \* the events so far
  strayed,   \* history: nodes of the scene that an event detached from it, or took out of a group
             \* or put into one in shutdown
  appending, \* history: up to now events only appended children
  odd,       \* history: the odd things that a file or an event did
  broken     \* the fault that stopped the program

sgVars == <<file, fields, held, alive, inScene, listed, calls, rootAt, phase, flagged,
            events, strayed, appending, odd, broken>>
traversal == <<calls, rootAt, phase>>
membership == <<inScene, listed>>
history == <<strayed, appending, odd>>

-----------------------------------------------------------------------------
(* The graph. *)

Referred(fs, S) == (UNION {Range(fs[n]) : n \in S}) \ {NULL}

\* The function f applied to S once for each node, which is enough to reach a fixed point.
Closure(f, S) == FoldSet(LAMBDA n, T : f[T], S, Nodes)

\* The nodes that those of S lead to, S among them.
Reach(fs, S) == Closure([T \in SUBSET Nodes |-> T \cup Referred(fs, T)], S)

Roots == Range(file.roots)
InGraph(fs) == Reach(fs, Roots)

\* The nodes of the scene that are reached through nodes of the scene.
Attached(fs) ==
  Closure([T \in SUBSET Nodes |-> T \cup (Referred(fs, T) \cap inScene)], Roots \cap inScene)

\* A node that leads to itself.
HasCycle(fs) == \E n \in Nodes : n \in Reach(fs, Referred(fs, {n}))

\* Mutation: the scene's own nodes are not counted.
SurvivorsWithoutRoots(fs, hs) ==
  Closure([S \in SUBSET Nodes |-> {n \in S : n \in hs \/ n \in Referred(fs, S \ {n})}], alive)

(* What the reference counts leave: a node is freed with its last owner,   *)
(* and then what only it owned.  A Script does not own itself; the nodes   *)
(* of a cycle are never freed.                                             *)
Survivors(fs, hs) ==
  LET owned == [S \in SUBSET Nodes |->
                  {n \in S : n \in Roots \cup hs \/ n \in Referred(fs, S \ {n})}]
  IN Closure(owned, alive)

InProgress == {calls[i].node : i \in DOMAIN calls}
Idle == calls = << >>
Top == calls[Len(calls)]
Running == broken = "none"

-----------------------------------------------------------------------------
(* initialize and shutdown. *)

(* node::initialize or shutdown of n, called with the calls cs in          *)
(* progress.  A node that has a scene, or has none any more, returns at    *)
(* once.  Each call holds upgrade ownership of its node's scene_mutex_,    *)
(* which the same thread cannot have twice.                                *)
Enter(n, cs) ==
  \/ /\ n \in InProgress
     /\ broken' = "deadlock"
     /\ UNCHANGED <<calls, inScene, listed>>
  \/ /\ n \notin InProgress
     /\ (n \in inScene) = (phase = "initialize")
     /\ calls' = cs
     /\ UNCHANGED <<inScene, listed, broken>>
  \/ /\ n \notin InProgress
     /\ (n \in inScene) = (phase = "shutdown")
     /\ calls' = Append(cs, [node |-> n, at |-> 0])
     /\ inScene' = inScene \cup {n}
     /\ listed' = listed \cup ({n} \cap Registrars)
     /\ UNCHANGED broken

(* child_node::relocate for n, with the fields fs: a Viewpoint asserts     *)
(* that it has a scene and that the scene leads to it.                     *)
Relocated(n, fs) == Reach(fs, {n} \ {NULL}) \cap Viewpoints \subseteq inScene \cap InGraph(fs)

\* scene::initialize relocates each of its nodes once it is initialized.
RootDone(n) ==
  broken' = IF phase = "initialize" /\ ~Relocated(n, fields) THEN "assert" ELSE "none"

\* scene::initialize or shutdown calls the next of its nodes.
NextRoot ==
  /\ phase \in {"initialize", "shutdown"} /\ Idle /\ rootAt <= Len(file.roots)
  /\ LET n == file.roots[rootAt]
     IN IF (n \in inScene) = (phase = "initialize")
        THEN RootDone(n) /\ UNCHANGED <<calls, inScene, listed>>
        ELSE Enter(n, << >>)
  /\ rootAt' = rootAt + 1
  /\ UNCHANGED <<phase, alive>>

\* Mutation: scene_ is not reset.
EnterFieldsKeepsScene ==
  /\ ~Idle /\ Top.at = 0
  /\ calls' = [calls EXCEPT ![Len(calls)].at = 1]
  /\ listed' = IF phase = "initialize" THEN listed ELSE listed \ {Top.node}
  /\ UNCHANGED <<inScene, rootAt, phase, alive, broken>>

\* do_initialize or do_shutdown has returned; shutdown has then taken the node out.
EnterFields ==
  /\ ~Idle /\ Top.at = 0
  /\ calls' = [calls EXCEPT ![Len(calls)].at = 1]
  /\ IF phase = "initialize" THEN UNCHANGED membership
     ELSE /\ inScene' = inScene \ {Top.node}
          /\ listed' = listed \ {Top.node}
  /\ UNCHANGED <<rootAt, phase, alive, broken>>

\* Mutations: a node that is initialized already ends the loop; the index stays.
NextFieldUntilShared ==
  /\ ~Idle /\ Top.at \in DOMAIN fields[Top.node]
  /\ LET n == fields[Top.node][Top.at]
         next == [calls EXCEPT ![Len(calls)].at = IF n \in inScene THEN Len(fields[Top.node]) + 1 ELSE @ + 1]
     IN IF n = NULL THEN calls' = next /\ UNCHANGED <<membership, broken>>
                    ELSE Enter(n, next)
  /\ UNCHANGED <<rootAt, phase, alive>>
NextFieldAgain ==
  /\ ~Idle /\ Top.at \in DOMAIN fields[Top.node]
  /\ LET n == fields[Top.node][Top.at]
     IN IF n = NULL THEN UNCHANGED <<calls, membership, broken>> ELSE Enter(n, calls)
  /\ UNCHANGED <<rootAt, phase, alive>>

\* The loop reads the field again for each index.
NextField ==
  /\ ~Idle /\ Top.at \in DOMAIN fields[Top.node]
  /\ LET n == fields[Top.node][Top.at]
         next == [calls EXCEPT ![Len(calls)].at = @ + 1]
     IN IF n = NULL THEN calls' = next /\ UNCHANGED <<membership, broken>>
                    ELSE Enter(n, next)
  /\ UNCHANGED <<rootAt, phase, alive>>

LeaveNode ==
  /\ ~Idle /\ Top.at > Len(fields[Top.node]) /\ Len(calls) > 1
  /\ calls' = SubSeq(calls, 1, Len(calls) - 1)
  /\ UNCHANGED <<membership, rootAt, phase, alive, broken>>

LeaveRoot ==
  /\ ~Idle /\ Top.at > Len(fields[Top.node]) /\ Len(calls) = 1
  /\ calls' = << >>
  /\ RootDone(Top.node)
  /\ UNCHANGED <<membership, rootAt, phase, alive>>

Begin ==
  /\ Idle /\ phase \in {"loaded", "up"}
  /\ phase' = IF phase = "loaded" THEN "initialize" ELSE "shutdown"
  /\ rootAt' = 1
  /\ UNCHANGED <<membership, calls, alive, broken>>

End ==
  /\ phase \in {"initialize", "shutdown"} /\ Idle /\ rootAt > Len(file.roots)
  /\ phase' = IF phase = "initialize" THEN "up" ELSE "down"
  /\ strayed' = strayed \cup (IF phase = "initialize" THEN inScene \ Attached(fields) ELSE {})
  /\ UNCHANGED <<membership, calls, rootAt, alive, broken>>

\* set_world: the scene is destroyed, and the lists must then be empty.
Reset ==
  /\ phase = "down"
  /\ phase' = "reset"
  /\ alive' = {}
  /\ broken' = IF listed = {} THEN "none" ELSE "left"
  /\ UNCHANGED <<membership, calls, rootAt>>

Descend ==
  /\ Running
  /\ \/ End
     \/ /\ NextRoot \/ EnterFields \/ NextField \/ LeaveNode \/ LeaveRoot \/ Begin \/ Reset
        /\ UNCHANGED strayed
  /\ UNCHANGED <<file, fields, held, flagged, events, appending, odd>>

-----------------------------------------------------------------------------
(* Events. *)

\* A Script's initialize or shutdown is in progress, or the browser updates the world.
CanSend ==
  \/ Idle /\ phase = "up"
  \/ ~Idle /\ Top.at = 0 /\ Top.node \in ScriptNodes

\* What a Script can send: what it holds and, as it can read fields, what is in the graph.
Known == alive \cap (held \cup InGraph(fields))

\* Every Viewpoint that the children lead to has its place in the scene already.
Placed(children) ==
  Reach(fields, children \ {NULL}) \cap Viewpoints \subseteq inScene \cap InGraph(fields)

(* The children of g become `children'.  Whoever sent the event still      *)
(* holds the nodes in it until it returns; what is freed is free then.     *)
Changed(g, children, ok, appends) ==
  LET fs == [fields EXCEPT ![g] = children]
      lost == inScene \ IF phase = "up" THEN Attached(fs) ELSE InGraph(fs)
      moved == IF phase = "shutdown"
               THEN Reach(fs, (Range(fields[g]) \cup Range(children)) \ {NULL}) ELSE {}
      survivors == Survivors(fs, held)
  IN /\ fields' = fs
     /\ flagged' = flagged \cup {g}
     /\ alive' = survivors
     /\ strayed' = strayed \cup lost \cup moved
     /\ appending' = (appending /\ appends)
     /\ odd' = odd \cup (IF NULL \in Range(children) THEN {"null"} ELSE {})
                   \cup (IF HasCycle(fs) THEN {"cycle"} ELSE {})
                   \cup (IF Placed(Range(children)) THEN {} ELSE {"viewpoint"})
     /\ broken' = IF ~ok THEN "assert"
                  ELSE IF InProgress \subseteq survivors THEN "none" ELSE "freed"
     /\ UNCHANGED held

\* add_children_listener: neither NULL nor a child twice; relocates before it stores.
AddChildren ==
  \E g \in Groups \cap Known, n \in Known :
    /\ n \notin Range(fields[g])
    /\ Len(fields[g]) < MaxChildren
    /\ Changed(g, Append(fields[g], n), Relocated(n, fields), TRUE)

\* remove_children_listener: every occurrence.
RemoveChildren ==
  \E g \in Groups \cap Known :
    \E n \in Range(fields[g]) :
      LET kept == {i \in DOMAIN fields[g] : fields[g][i] # n}
          left == 1 .. Cardinality(kept)
      IN \E place \in [left -> kept] :
           /\ \A i, j \in left : i < j => place[i] < place[j]
           /\ Changed(g, [i \in left |-> fields[g][place[i]]], TRUE, FALSE)

\* children_exposedfield: any nodes, NULL and the same one twice too; stores, then relocates.
SetChildren ==
  \E g \in Groups \cap Known :
    \E k \in 0 .. MaxChildren :
      \E children \in [1 .. k -> Known \cup {NULL}] :
        Changed(g, children,
                \A i \in 1 .. k : Relocated(children[i], [fields EXCEPT ![g] = children]), FALSE)

ChildrenEvent ==
  /\ Running /\ CanSend /\ events < MaxEvents
  /\ events' = events + 1
  /\ AddChildren \/ RemoveChildren \/ SetChildren
  /\ UNCHANGED <<file, membership, traversal>>

\* The code of a Script drops its reference.
Forget ==
  /\ Running /\ CanSend
  /\ \E n \in held : held' = held \ {n}
  /\ alive' = Survivors(fields, held')
  /\ broken' = IF InProgress \subseteq alive' THEN "none" ELSE "freed"
  /\ UNCHANGED <<file, fields, membership, traversal, flagged, events, history>>

\* browser::update calls every node on timers_ and scripts_.
UpdateFreed ==
  /\ Running /\ Idle /\ phase = "up"
  /\ ~(listed \ Viewpoints \subseteq alive)
  /\ broken' = "freed"
  /\ UNCHANGED <<file, fields, held, alive, membership, traversal, flagged, events, history>>

-----------------------------------------------------------------------------
(* Rendering. *)

\* What is drawn: render_child passes over nodes that have no scene, or are culled.
Drawn(culled) ==
  LET shown(S) == (S \cap inScene) \ culled
  IN Closure([S \in SUBSET Nodes |-> S \cup shown(Referred(fields, S \cap Groups))], shown(Roots))

Answers == {"clean", "modified", "null", "overflow"}

(* node::modified of a group: its own flag or, in order, its children's.   *)
(* A child that is NULL is dereferenced; a cycle never returns.            *)
Modified ==
  LET children(g, answer) ==
        LET found == {k \in DOMAIN fields[g] : answer[fields[g][k]] # "clean"}
        IN IF found = {} THEN "clean" ELSE answer[fields[g][Min(found)]]
      own == [n \in Nodes \cup {NULL} |->
                IF n = NULL THEN "null"
                ELSE IF n \in flagged THEN "modified"
                ELSE IF n \in Groups THEN "overflow" ELSE "clean"]
      asked == [answer \in [DOMAIN own -> Answers] |->
                  [n \in DOMAIN own |-> IF own[n] = "overflow" THEN children(n, answer) ELSE own[n]]]
  IN Closure(asked, own)

\* scene::render: every group that is drawn asks whether it is modified, and clears its flag.
Render ==
  /\ Running /\ Idle /\ phase = "up"
  /\ \E culled \in SUBSET Groups :
       LET drawn == Drawn(culled)
           answers == {Modified[g] : g \in drawn \cap Groups}
       IN /\ broken' = IF "null" \in answers THEN "null"
                       ELSE IF "overflow" \in answers \/
                               \E g \in drawn \cap Groups :
                                 g \in Reach([n \in Nodes |-> IF n \in drawn THEN fields[n] ELSE << >>],
                                             Referred(fields, {g}) \cap drawn)
                       THEN "overflow" ELSE "none"
          /\ flagged' = flagged \ drawn
  /\ UNCHANGED <<file, fields, held, alive, membership, traversal, events, history>>

-----------------------------------------------------------------------------
GraphInit ==
  /\ file \in Files
  /\ fields = file.fields
  /\ held = file.made
  /\ alive = Reach(fields, Roots \cup held)
  /\ inScene = {} /\ listed = {}
  /\ calls = << >> /\ rootAt = 1 /\ phase = "loaded"
  /\ flagged = {}
  /\ events = 0
  /\ strayed = {} /\ appending = TRUE
  /\ odd = IF HasCycle(fields) THEN {"cycle"} ELSE {}
  /\ broken = "none"

GraphNext == Descend \/ ChildrenEvent \/ Forget \/ UpdateFreed \/ Render

\* The thread that initializes or shuts down goes on.
Descending == phase \in {"initialize", "shutdown"} /\ Descend
GraphFairness == WF_sgVars(Descending)

GraphSpec == GraphInit /\ [][GraphNext]_sgVars /\ GraphFairness

-----------------------------------------------------------------------------
(* Properties. *)

(* The types of the variables (node.cpp, scene.cpp, grouping_node_base.h); *)
(* the browser's lists hold exactly the Scripts, timers and Viewpoints     *)
(* that have a scene.                                                      *)
GraphTypeOK ==
  /\ fields \in [Nodes -> Seq(Nodes \cup {NULL})]
  /\ held \subseteq Nodes /\ alive \subseteq Nodes
  /\ inScene \subseteq Nodes
  /\ listed = inScene \cap Registrars
  /\ calls \in Seq([node : Nodes, at : Nat])
  /\ rootAt \in Nat
  /\ phase \in {"loaded", "initialize", "up", "shutdown", "down", "reset"}
  /\ flagged \subseteq Groups
  /\ events \in 0 .. MaxEvents
  /\ strayed \subseteq Nodes
  /\ appending \in BOOLEAN
  /\ odd \subseteq {"null", "cycle", "viewpoint"}
  /\ broken \in {"none", "assert", "deadlock", "freed", "left", "null", "overflow"}

(* What events do to the graph stops the program only where they put a     *)
(* NULL or a cycle into it, add a Viewpoint that is not in the scene, or   *)
(* take a node out of the scene (removeChildren shuts nothing down, and a  *)
(* node may be in the middle of its initialize, its sibling be skipped and *)
(* relocated all the same, or its parent be put below it); each fault has  *)
(* its cause.                                                              *)
FaultsHaveCauses ==
  /\ broken = "null" => "null" \in odd
  /\ broken = "overflow" => "cycle" \in odd
  /\ broken = "deadlock" => "cycle" \in odd \/ ~appending
  /\ broken = "assert" => "viewpoint" \in odd \/ (phase = "initialize" /\ ~appending)
  /\ broken = "freed" => strayed # {}
  /\ broken = "left" => strayed \cap Registrars # {}

(* scene::initialize reaches every node of the file, although the Scripts  *)
(* it initializes change the groups it is in the middle of, as long as     *)
(* they only append children.                                              *)
FileIsInitialized ==
  (phase = "up" /\ appending) => Reach(file.fields, Roots) \subseteq inScene

(* When scene::shutdown is done, a node that still has a scene, and may be *)
(* on a list of the browser, is one that an event took out of the graph,   *)
(* or took out of a group or put into one, with all that was below it,     *)
(* while the shutdown was under way.                                       *)
OnlyStrayedStay == phase = "down" => inScene \subseteq strayed

(* initialize and shutdown come to an end, or stop at a fault, however     *)
(* often the Scripts they call change the graph.                           *)
TraversalsEnd == (phase \in {"initialize", "shutdown"}) ~> (phase \in {"up", "down"} \/ ~Running)
=============================================================================
