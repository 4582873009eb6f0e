------------------------------- MODULE MCScenes -------------------------------
(***************************************************************************)
(* What events do in a scene, on small instances: Scripts with the routes  *)
(* between them, and the graph of the nodes, whose children events add and *)
(* remove.  The parts share no state, so that each is checked while the    *)
(* other rests.                                                            *)
(***************************************************************************)
EXTENDS MCScriptEvents, SceneGraph

CONSTANTS root, group, script, timer, view

NoFields == [n \in Nodes |-> << >>]

\* A Script that is used twice; a Viewpoint in place; a Script in its own field; a made group,
\* and a timer that is a root too; a group that is a root too.
MCFiles == {
  [roots |-> <<root>>, made |-> {view},
   fields |-> [NoFields EXCEPT ![root] = <<script, group>>, ![group] = <<script, timer>>]],
  [roots |-> <<root>>, made |-> {},
   fields |-> [NoFields EXCEPT ![root] = <<group, view>>, ![group] = <<script, timer>>]],
  [roots |-> <<root>>, made |-> {},
   fields |-> [NoFields EXCEPT ![root] = <<timer, script>>, ![script] = <<script>>]],
  [roots |-> <<script, root, timer>>, made |-> {group},
   fields |-> [NoFields EXCEPT ![root] = <<timer>>]],
  [roots |-> <<root, group>>, made |-> {},
   fields |-> [NoFields EXCEPT ![root] = <<group>>, ![group] = <<script>>]]}

VARIABLE part  \* the part that runs

vars == <<seVars, sgVars, part>>

ScriptsRest == world.routes = {} /\ world.writes = {}
GraphRests == file = CHOOSE f \in Files : TRUE

Init ==
  /\ part \in {"scripts", "graph"}
  /\ ScriptsInit /\ (part = "scripts" \/ ScriptsRest)
  /\ GraphInit /\ (part = "graph" \/ GraphRests)

Next ==
  \/ part = "scripts" /\ ScriptsNext /\ UNCHANGED <<sgVars, part>>
  \/ part = "graph" /\ GraphNext /\ UNCHANGED <<seVars, part>>

\* The fairness of each part, while it runs.
Fairness ==
  /\ WF_seVars(part = "scripts" /\ Step)
  /\ WF_seVars(part = "scripts" /\ (Initialize \/ Loaded))
  /\ SF_seVars(part = "scripts" /\ Update)
  /\ WF_sgVars(part = "graph" /\ Descending)

Spec == Init /\ [][Next]_vars /\ Fairness
===============================================================================
