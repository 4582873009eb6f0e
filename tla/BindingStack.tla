---------------------------- MODULE BindingStack ----------------------------
(***************************************************************************)
(* What the documentation of bound_node_stack promises of binding: to bind *)
(* a node moves it to the top of its stack, to unbind it removes it from   *)
(* wherever it is, and nothing else ever changes a stack but the start of  *)
(* a new world.  Each happens at once, and callbacks are not heard of.     *)
(***************************************************************************)
EXTENDS Naturals, Sequences, SequencesExt

CONSTANTS Nodes, Kinds, KindOf

VARIABLE bound      \* the stack of each metatype, the active node last

On(n) == \E i \in DOMAIN bound[KindOf[n]] : bound[KindOf[n]][i] = n

Init == bound = [k \in Kinds |-> <<>>]

BindNew(n) ==
  /\ ~On(n)
  /\ bound' = [bound EXCEPT ![KindOf[n]] = Append(@, n)]

BindAgain(n) ==
  \E i \in DOMAIN bound[KindOf[n]] :
    /\ bound[KindOf[n]][i] = n
    /\ bound' = [bound EXCEPT ![KindOf[n]] = Append(RemoveAt(@, i), n)]

Unbind(n) ==
  \E i \in DOMAIN bound[KindOf[n]] :
    /\ bound[KindOf[n]][i] = n
    /\ bound' = [bound EXCEPT ![KindOf[n]] = RemoveAt(@, i)]

NewWorld == bound' = [k \in Kinds |-> <<>>]

Next == NewWorld \/ \E n \in Nodes : BindNew(n) \/ BindAgain(n) \/ Unbind(n)

Spec == Init /\ [][Next]_bound
=============================================================================
