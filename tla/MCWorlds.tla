------------------------------- MODULE MCWorlds -------------------------------
(***************************************************************************)
(* How a world comes to be, on small instances: the parse of a file, the   *)
(* load of the files of its EXTERNPROTOs, and the instance that a node of  *)
(* a PROTO becomes.  An instance takes its body from a parse that is over, *)
(* and the load of EXTERNPROTOs sees of a parse only the order of the      *)
(* file's statements, so that each is checked while the others rest.       *)
(***************************************************************************)
EXTENDS ParseActions, ExternprotoLoading, MCProtoInstance

CONSTANTS opener1, opener2

\* The types of a profile, and what Script nodes and PROTOs declare.
I(id, type, v) == [id |-> id, type |-> type, value |-> v]
MCBuiltIn ==
  [Group |-> {I("children", "exposedField", "mfnode"), I("addChildren", "eventIn", "mfnode")},
   Script |-> {I("url", "exposedField", "plain")}]
MCDeclared == {I("target", "field", "sfnode"), I("url", "eventIn", "mfnode"),
               I("sent", "eventOut", "mfnode")}

\* The statements of files.
ExternOf(name, url, wants, fits) ==
  [kind |-> "extern", name |-> name, url |-> url, wants |-> wants, fits |-> fits]
Extern(name, url) == ExternOf(name, url, url, TRUE)
NodeOf(type) == [kind |-> "node", name |-> type]
Proto(name, body) == [kind |-> "proto", within |-> << >>, name |-> name, body |-> body]
Inner(within, name) == [kind |-> "proto", within |-> <<within>>, name |-> name, body |-> "Group"]

\* A file a, which is opened, and the files u and v.
Web(a, u, v) ==
  [opened |-> [t \in {opener1} |-> "a"], files |-> [a |-> a, u |-> u, v |-> v],
   fragments |-> FALSE, most |-> 3]
Plain == <<NodeOf("Group")>>
P == Proto("P", "Group")
Q == Proto("Q", "Group")
PofF == Proto("P", "F")
E == Extern("E", <<"u">>)
World == <<E, NodeOf("E")>>

\* One file: its first PROTO; the fragment of the URL is kept; nested PROTOs; no node; two PROTOs of
\* it; a declaration that does not fit; no PROTO.
OneFile == {
  Web(World, <<P, Q>>, Plain),
  [Web(<<Extern("E", <<"u", "Q">>), NodeOf("E")>>, <<P, Q>>, Plain) EXCEPT !.fragments = TRUE],
  Web(<<E, NodeOf("Group")>>, <<Inner("P", "I"), Proto("P", "I")>>, Plain),
  Web(<<E>>, <<P>>, Plain),
  Web(<<Extern("E", <<"u", "P">>), Extern("F", <<"u", "Q">>), NodeOf("F"), NodeOf("E")>>,
      <<P, Q>>, Plain),
  Web(<<ExternOf("E", <<"u">>, <<"u">>, FALSE), Extern("F", <<"u">>), NodeOf("E"), NodeOf("F")>>,
      <<P>>, Plain),
  Web(World, Plain, Plain)}

\* The file has EXTERNPROTOs itself: it uses them or not, its scope is dropped, it is circular,
\* there are two ways to the other file, which is resolved otherwise, a URL is an EXTERNPROTO's id.
TwoFiles == {
  Web(World, <<Extern("F", <<"v">>), PofF>>, <<P>>),
  Web(World, <<Extern("F", <<"v">>), Plain[1]>>, <<P>>),
  Web(World, <<Extern("F", <<"v">>), NodeOf("F")>>, <<P>>),
  Web(World, <<Extern("F", <<"v">>), PofF, NodeOf("P")>>, <<P>>),
  Web(<<E, Extern("F", <<"v">>), NodeOf("E")>>,
      <<ExternOf("F", <<"v">>, <<"w">>, TRUE), PofF>>, <<P>>),
  Web(<<E, Extern("G", <<"u", "F">>), NodeOf("G")>>, <<Extern("F", <<"v">>), Plain[1]>>, <<P>>),
  [Web(World, <<Extern("F", <<"u">>), PofF>>, Plain) EXCEPT !.most = 2],
  [Web(World, <<Extern("F", <<"v">>), PofF>>, <<Extern("F", <<"u">>), PofF>>) EXCEPT !.most = 2]}

\* Two Inlines with the same EXTERNPROTO; two of the same file.
TwoOpened == {
  [Web(World, <<P>>, World) EXCEPT !.opened = (opener1 :> "a") @@ (opener2 :> "v")],
  [Web(<<E>>, Plain, Plain) EXCEPT !.opened = (opener1 :> "a") @@ (opener2 :> "a")]}

MCWebs == OneFile \cup TwoFiles \cup TwoOpened

VARIABLE part  \* the part that runs

vars == <<paVars, epVars, piVars, part>>

LoadRests == web = CHOOSE w \in Webs : TRUE
InstanceRests == proto = CHOOSE d \in Definitions : TRUE

Init ==
  /\ part \in {"parse", "load", "instance"}
  /\ ParseInit
  /\ ExternprotoInit /\ (part = "load" \/ LoadRests)
  /\ (part = "instance" \/ InstanceRests) /\ InstanceInit

Next ==
  \/ part = "parse" /\ ParseNext /\ UNCHANGED <<epVars, piVars, part>>
  \/ part = "load" /\ ExternprotoNext /\ UNCHANGED <<paVars, piVars, part>>
  \/ part = "instance" /\ InstanceNext /\ UNCHANGED <<paVars, epVars, part>>

\* The types of the part that runs.
WorldsTypeOK ==
  /\ part = "parse" => ParseTypeOK
  /\ part = "load" => ExternprotoTypeOK
  /\ part = "instance" => InstanceTypeOK

\* Where files of EXTERNPROTOs are loaded, every load ends.
ExternprotosEnd == part = "load" => LoadsEnd

Spec == Init /\ [][Next]_vars
===============================================================================
