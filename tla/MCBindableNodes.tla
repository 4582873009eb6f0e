-------------------------- MODULE MCBindableNodes --------------------------
(***************************************************************************)
(* The worlds TLC checks the bindable nodes on: three Viewpoints, two      *)
(* NavigationInfos and a Fog.  The first infos come before the Viewpoints  *)
(* in the file, so that some are shut down before the Viewpoints that are  *)
(* routed to them.                                                         *)
(***************************************************************************)
EXTENDS BindableNodes

CONSTANTS v1, v2, v3, n1, n2, f1

MCKindOf ==
  [n \in Nodes |-> CASE n \in {v1, v2, v3} -> "Viewpoint"
                     [] n \in {n1, n2} -> "NavigationInfo"
                     [] OTHER -> "Fog"]

Route(a, b, negate) == [from |-> a, to |-> b, negate |-> negate]

NoRoutes == {}

(* A Viewpoint selects its navigation info, and that its fog. *)
LayeredRoutes == {Route(v1, n1, FALSE), Route(v2, n1, TRUE), Route(n1, f1, FALSE),
                  Route(v3, f1, TRUE)}

(* Two Viewpoints that are always bound together. *)
SameKindRoutes == {Route(v1, v2, FALSE)}

FullWorld == <<n1, v2, f1, v1, v3, n2>>

ViewpointWorld == <<v1, v2, v3>>
=============================================================================
