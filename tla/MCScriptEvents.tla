---------------------------- MODULE MCScriptEvents ----------------------------
(***************************************************************************)
(* Scripts and the routes between them on a small instance: two Scripts,   *)
(* of which one changes routes and one writes to a node and to its own url *)
(* directly, and a node with an exposedField.                              *)
(***************************************************************************)
EXTENDS ScriptEvents

CONSTANTS scriptA, scriptB, exposed

MCOrder == <<scriptA, scriptB>>
MCRoutes ==
  {<<Sensor, scriptA>>, <<scriptA, exposed>>, <<exposed, scriptA>>, <<exposed, scriptB>>,
   <<scriptB, scriptA>>, <<Sensor, Url(scriptB)>>, <<scriptA, Url(scriptB)>>}
MCWrites == {<<scriptA, exposed>>, <<scriptA, Url(scriptA)>>, <<scriptB, exposed>>}
MCChanges == {<<exposed, scriptA>>}
===============================================================================
