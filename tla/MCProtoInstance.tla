---------------------------- MODULE MCProtoInstance ----------------------------
(***************************************************************************)
(* The instances of PROTOs on small bodies of three nodes: a tree without  *)
(* routes; three nodes in a list with a route, one of them used twice; a   *)
(* Script that refers to itself, with ROUTEs to a node before it and back; *)
(* and a node inside another instance.                                     *)
(***************************************************************************)
EXTENDS ProtoInstance, TLC

CONSTANTS n1, n2, n3

\* The fields of the body and of n1 to n3.
Fields(body, f1, f2, f3) == (Body :> body) @@ (n1 :> f1) @@ (n2 :> f2) @@ (n3 :> f3)
Bodied(fields, opaque, routes) == [fields |-> fields, opaque |-> opaque, routes |-> routes]

MCBodies == {
  Bodied(Fields(<<n1, n3>>, <<n2>>, << >>, << >>), {}, {}),
  Bodied(Fields(<<n1, n2, n3>>, <<n3>>, << >>, << >>), {}, {<<n2, n1>>}),
  Bodied(Fields(<<n2, n1>>, <<n1, n3>>, << >>, << >>), {}, {<<n1, n2>>, <<n2, n1>>}),
  Bodied(Fields(<<n1, n2>>, <<n3>>, << >>, << >>), {n1}, {})}
MCWirings == {{n1}, {n2, n3}}
===============================================================================
