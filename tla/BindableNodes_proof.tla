------------------------ MODULE BindableNodes_proof ------------------------
(***************************************************************************)
(* Theorems about the bindable nodes, for every set of nodes, metatypes    *)
(* and routes, every world and every depth of the thread's stack: cascades *)
(* along layered routes do not disturb each other, and what they leave     *)
(* behind is in order.                                                     *)
(***************************************************************************)
EXTENDS BindableNodes, SequenceLemmas

-----------------------------------------------------------------------------
(* The operators the model is built from. *)

(* PositionOf finds the node, if it is in the sequence at all (std::find). *)
LEMMA PositionOfProperties ==
  ASSUME NEW S, NEW s \in Seq(S), NEW n, \E i \in DOMAIN s : s[i] = n
  PROVE  /\ PositionOf(n, s) \in 1..Len(s)
         /\ s[PositionOf(n, s)] = n
<1>1. \E i \in DOMAIN s : s[i] = n /\ \A j \in 1..(i - 1) : s[j] # n
  BY FirstPosition
<1>2. DOMAIN s = 1..Len(s)
  BY LenProperties
<1>3. /\ PositionOf(n, s) \in DOMAIN s
      /\ s[PositionOf(n, s)] = n
  BY <1>1 DEF PositionOf
<1> QED BY <1>2, <1>3

(* Each metatype's stack, and each frame on the call stack, is as typed. *)
LEMMA StackTyped ==
  ASSUME TypeOK, NEW n \in Nodes
  PROVE  /\ KindOf[n] \in Kinds
         /\ stack[KindOf[n]] \in Seq(Nodes)
BY NodesAssumption DEF TypeOK

LEMMA CurrentTyped ==
  ASSUME TypeOK, calls # <<>>
  PROVE  /\ Len(calls) \in 1..Len(calls)
         /\ Current = calls[Len(calls)]
         /\ Current \in Frame
         /\ Current.node \in Nodes
         /\ KindHere \in Kinds
         /\ stack[KindHere] \in Seq(Nodes)
<1>1. /\ Len(calls) \in 1..Len(calls)
      /\ Current = calls[Len(calls)]
      /\ Current \in Frame
  BY LastProperties DEF TypeOK, Current
<1>2. Current.node \in Nodes
  BY <1>1 DEF Frame
<1> QED BY <1>1, <1>2, StackTyped DEF KindHere

LEMMA CallTyped ==
  ASSUME NEW op \in {"bind", "unbind"}, NEW n \in Nodes, NEW shutdown \in BOOLEAN
  PROVE  Call(op, n, shutdown) \in Frame
BY EmptySeq DEF Call, Frame

(* Resume replaces the innermost frame and leaves the others alone. *)
LEMMA ResumeProperties ==
  ASSUME TypeOK, calls # <<>>, NEW pc \in {"enter", "change", "return"},
         NEW todo \in SUBSET Routes, Resume(pc, todo)
  PROVE  /\ calls' \in Seq(Frame)
         /\ Len(calls') = Len(calls)
         /\ Last(calls') = [Current EXCEPT !.pc = pc, !.todo = todo,
                                           !.seen = Remembered(pc)]
         /\ \A i \in 1..Len(calls) :
              calls'[i] = IF i = Len(calls) THEN Last(calls') ELSE calls[i]
<1> DEFINE new == [Current EXCEPT !.pc = pc, !.todo = todo, !.seen = Remembered(pc)]
<1>1. Remembered(pc) \in Seq(Nodes)
  BY CurrentTyped, EmptySeq DEF Remembered
<1>2. new \in Frame
  BY <1>1, CurrentTyped DEF Frame
<1>3. calls \in Seq(Frame) /\ Len(calls) \in 1..Len(calls)
  BY CurrentTyped DEF TypeOK
<1> HIDE DEF new
<1>4. /\ [calls EXCEPT ![Len(calls)] = new] \in Seq(Frame)
      /\ Len([calls EXCEPT ![Len(calls)] = new]) = Len(calls)
      /\ \A i \in 1..Len(calls) :
           [calls EXCEPT ![Len(calls)] = new][i] =
             IF i = Len(calls) THEN new ELSE calls[i]
  BY <1>2, <1>3, ExceptSeq
<1>5. calls' = [calls EXCEPT ![Len(calls)] = new]
  BY DEF Resume, new
<1>6. Last(calls') = new
  BY <1>3, <1>4, <1>5 DEF Last
<1> QED BY <1>4, <1>5, <1>6 DEF new


(* Append starts a call; the calls in progress stay as they are. *)
LEMMA AppendedCall ==
  ASSUME NEW S, NEW s \in Seq(S), NEW c \in S
  PROVE  /\ Append(s, c) \in Seq(S)
         /\ Len(Append(s, c)) = Len(s) + 1
         /\ \A i \in 1..Len(s) : Append(s, c)[i] = s[i]
         /\ Append(s, c)[Len(s) + 1] = c
         /\ Last(Append(s, c)) = c
<1>1. /\ Append(s, c) \in Seq(S)
      /\ Len(Append(s, c)) = Len(s) + 1
      /\ \A i \in 1..Len(s) : Append(s, c)[i] = s[i]
      /\ Append(s, c)[Len(s) + 1] = c
  BY AppendProperties
<1> QED BY <1>1 DEF Last

-----------------------------------------------------------------------------
(* Type correctness. *)

LEMMA TypeInit == Init => TypeOK
<1>1. <<>> \in Seq(Nodes) /\ <<>> \in Seq(Frame) /\ Len(<<>>) = 0
  BY EmptySeq
<1>2. Len(World) \in Nat /\ MaxDepth \in Nat
  BY NodesAssumption, LenProperties
<1> QED BY <1>1, <1>2, NodesAssumption DEF Init, TypeOK

(* NodeBind sets a node's is_bound_ and goes on with its call. *)
LEMMA NodeBindTyped ==
  ASSUME TypeOK, calls # <<>>, NEW n \in Nodes, NEW value \in BOOLEAN,
         NEW pc \in {"enter", "change", "return"}, NodeBind(n, value, pc)
  PROVE  /\ isBound' = [isBound EXCEPT ![n] = value]
         /\ isBound' \in [Nodes -> BOOLEAN]
         /\ Resume(pc, Listeners(n))
         /\ Listeners(n) \in SUBSET Routes
         /\ calls' \in Seq(Frame)
         /\ Len(calls') = Len(calls)
<1>1. Resume(pc, Listeners(n)) /\ Listeners(n) \in SUBSET Routes
  BY DEF NodeBind, Listeners
<1>2. /\ isBound' = [isBound EXCEPT ![n] = value]
      /\ isBound' \in [Nodes -> BOOLEAN]
  BY DEF NodeBind, TypeOK
<1> QED BY <1>1, <1>2, ResumeProperties

(* GoTo goes on with the call, with nothing to emit. *)
LEMMA GoToTyped ==
  ASSUME TypeOK, calls # <<>>, NEW pc \in {"enter", "change", "return"}, GoTo(pc)
  PROVE  /\ Resume(pc, {})
         /\ calls' \in Seq(Frame)
         /\ Len(calls') = Len(calls)
<1>1. Resume(pc, {})
  BY DEF GoTo
<1> QED BY <1>1, ResumeProperties

(* Erase takes one element out. *)
LEMMA EraseTyped ==
  ASSUME NEW S, NEW s \in Seq(S), NEW n, \E i \in DOMAIN s : s[i] = n
  PROVE  Erase(n, s) \in Seq(S)
BY PositionOfProperties, RemoveAtProperties DEF Erase

LEMMA DeliverTyped ==
  ASSUME TypeOK, NEW r \in Routes, Deliver(r)
  PROVE  TypeOK'
<1>1. CASE Len(calls) = MaxDepth
  BY <1>1 DEF Deliver, Fail, TypeOK, nodeVars, worldVars
<1>2. CASE Len(calls) # MaxDepth
  <2> DEFINE rest == [Current EXCEPT !.todo = @ \ {r}]
             c == Call(IF isBound[r.from] # r.negate THEN "bind" ELSE "unbind", r.to, FALSE)
             held == [calls EXCEPT ![Len(calls)] = rest]
  <2>1. calls' = Append(held, c) /\ calls # <<>>
    BY <1>2 DEF Deliver
  <2>2. rest \in Frame
    BY <2>1, CurrentTyped DEF Frame
  <2>3. c \in Frame
    BY CallTyped, NodesAssumption
  <2> HIDE DEF rest, c
  <2>4. held \in Seq(Frame) /\ Len(held) = Len(calls)
    BY <2>1, <2>2, CurrentTyped, ExceptSeq DEF TypeOK
  <2> HIDE DEF held
  <2>5. calls' \in Seq(Frame) /\ Len(calls') = Len(calls) + 1
    BY <2>1, <2>3, <2>4, AppendedCall
  <2>6. Len(calls') <= MaxDepth
    BY <2>5, <1>2, NodesAssumption, LenProperties DEF TypeOK
  <2> QED BY <2>5, <2>6, <1>2 DEF Deliver, TypeOK, nodeVars, worldVars
<1> QED BY <1>1, <1>2

LEMMA BindEnterTyped ==
  ASSUME TypeOK, BindEnter
  PROVE  TypeOK'
<1> DEFINE n == Current.node
           k == KindHere
           s == IF OnStack(n) THEN Erase(n, stack[k]) ELSE stack[k]
<1>1. calls # <<>>
  BY DEF BindEnter, Running
<1>2. n \in Nodes /\ k \in Kinds /\ k = KindOf[n] /\ stack[k] \in Seq(Nodes)
  BY <1>1, CurrentTyped DEF KindHere
<1>3. s \in Seq(Nodes)
  BY <1>2, EraseTyped DEF OnStack
<1>4. CASE GoTo("return") /\ UNCHANGED <<stack, isBound>>
  BY <1>1, <1>4, GoToTyped DEF BindEnter, TypeOK, worldVars
<1>5. CASE /\ stack' = [stack EXCEPT ![k] = s]
           /\ IF s = <<>>
              THEN GoTo("change") /\ UNCHANGED isBound
              ELSE NodeBind(Last(s), FALSE, "change")
  <2>1. stack' \in [Kinds -> Seq(Nodes)]
    BY <1>2, <1>3, <1>5 DEF TypeOK
  <2> HIDE DEF s
  <2>2. CASE s = <<>>
    BY <2>1, <2>2, <1>1, <1>5, GoToTyped DEF BindEnter, TypeOK, worldVars
  <2>3. CASE s # <<>>
    <3>1. Last(s) \in Nodes
      BY <1>3, <2>3, LastProperties
    <3>2. NodeBind(Last(s), FALSE, "change")
      BY <1>5, <2>3
    <3>3. /\ isBound' \in [Nodes -> BOOLEAN]
          /\ calls' \in Seq(Frame) /\ Len(calls') = Len(calls)
      BY <3>1, <3>2, <1>1, NodeBindTyped
    <3> QED BY <3>3, <2>1 DEF BindEnter, TypeOK, worldVars
  <2> QED BY <2>2, <2>3
<1> QED BY <1>4, <1>5 DEF BindEnter

LEMMA BindPushTyped ==
  ASSUME TypeOK, BindPush
  PROVE  TypeOK'
<1>1. calls # <<>>
  BY DEF BindPush, Running
<1>2. Append(stack[KindHere], Current.node) \in Seq(Nodes)
  BY <1>1, CurrentTyped, AppendProperties
<1>3. stack' \in [Kinds -> Seq(Nodes)]
  BY <1>1, <1>2, CurrentTyped DEF BindPush, TypeOK
<1>4. /\ isBound' \in [Nodes -> BOOLEAN]
      /\ calls' \in Seq(Frame) /\ Len(calls') = Len(calls)
  BY <1>1, CurrentTyped, NodeBindTyped DEF BindPush
<1> QED BY <1>3, <1>4 DEF BindPush, TypeOK, worldVars

(* Return drops the innermost call. *)
LEMMA ReturnTyped ==
  ASSUME TypeOK, calls # <<>>, Return
  PROVE  /\ calls' \in Seq(Frame)
         /\ Len(calls') = Len(calls) - 1
         /\ Len(calls') <= MaxDepth
         /\ \A i \in 1..(Len(calls) - 1) : calls'[i] = calls[i]
<1>1. /\ calls' \in Seq(Frame)
      /\ Len(calls') = Len(calls) - 1
      /\ \A i \in 1..(Len(calls) - 1) : calls'[i] = calls[i]
  BY FrontProperties DEF TypeOK, Return
<1>2. Len(calls) \in Nat /\ MaxDepth \in Nat
  BY LenProperties, NodesAssumption DEF TypeOK
<1> QED BY <1>1, <1>2 DEF TypeOK

LEMMA BindReturnTyped ==
  ASSUME TypeOK, BindReturn
  PROVE  TypeOK'
<1>1. calls # <<>>
  BY DEF BindReturn, Running
<1>2. CASE Fail("assert")
  BY <1>2 DEF Fail, TypeOK, nodeVars, worldVars
<1>3. CASE ~Fail("assert")
  <2>1. /\ Return
        /\ UNCHANGED <<stack, isBound, first, viewpoints, scene, worldVars, fault>>
    BY <1>3 DEF BindReturn
  <2>2. calls' \in Seq(Frame) /\ Len(calls') <= MaxDepth
    BY <1>1, <2>1, ReturnTyped
  <2>3. active' \in [Kinds -> Nodes \cup {Default}]
    BY <1>1, <1>3, CurrentTyped DEF BindReturn, SetActive, TypeOK
  <2> QED BY <2>1, <2>2, <2>3 DEF TypeOK, worldVars
<1> QED BY <1>2, <1>3

LEMMA UnbindEnterTyped ==
  ASSUME TypeOK, UnbindEnter
  PROVE  TypeOK'
<1>1. calls # <<>>
  BY DEF UnbindEnter, Running
<1>2. /\ isBound' \in [Nodes -> BOOLEAN]
      /\ calls' \in Seq(Frame) /\ Len(calls') = Len(calls)
  <2>1. CASE OnStack(Current.node)
    BY <1>1, <2>1, CurrentTyped, NodeBindTyped DEF UnbindEnter
  <2>2. CASE ~OnStack(Current.node)
    BY <1>1, <2>2, GoToTyped DEF UnbindEnter, TypeOK
  <2> QED BY <2>1, <2>2
<1> QED BY <1>2 DEF UnbindEnter, TypeOK, worldVars

LEMMA UnbindEraseTyped ==
  ASSUME TypeOK, UnbindErase
  PROVE  TypeOK'
<1> DEFINE n == Current.node
           s == stack[KindHere]
<1>1. calls # <<>>
  BY DEF UnbindErase, Running
<1>2. KindHere \in Kinds /\ s \in Seq(Nodes)
  BY <1>1, CurrentTyped
<1>3. CASE Fail("iterator")
  BY <1>3 DEF Fail, TypeOK, nodeVars, worldVars
<1>4. ASSUME NEW i \in DOMAIN s,
             stack' = [stack EXCEPT ![KindHere] = RemoveAt(s, i)],
             IF Last(s) = n /\ Len(RemoveAt(s, i)) > 1
             THEN NodeBind(Last(RemoveAt(s, i)), TRUE, "return")
             ELSE GoTo("return") /\ UNCHANGED isBound,
             UNCHANGED <<first, active, viewpoints, scene, worldVars, fault>>
      PROVE  TypeOK'
  <2> DEFINE rest == RemoveAt(s, i)
  <2>1. rest \in Seq(Nodes)
    BY <1>2, <1>4, LenProperties, RemoveAtProperties
  <2>2. stack' \in [Kinds -> Seq(Nodes)]
    BY <1>2, <1>4, <2>1 DEF TypeOK
  <2> HIDE DEF rest
  <2>3. /\ isBound' \in [Nodes -> BOOLEAN]
        /\ calls' \in Seq(Frame) /\ Len(calls') = Len(calls)
    <3>1. CASE Last(s) = n /\ Len(rest) > 1
      <4>1. NodeBind(Last(rest), TRUE, "return")
        BY <3>1, <1>4 DEF rest
      <4>2. Last(rest) \in Nodes
        BY <3>1, <2>1, LastProperties, EmptySeq
      <4> QED BY <1>1, <4>1, <4>2, NodeBindTyped
    <3>2. CASE ~(Last(s) = n /\ Len(rest) > 1)
      <4>1. GoTo("return") /\ UNCHANGED isBound
        BY <3>2, <1>4 DEF rest
      <4> QED BY <1>1, <4>1, GoToTyped DEF TypeOK
    <3> QED BY <3>1, <3>2
  <2> QED BY <1>4, <2>2, <2>3 DEF TypeOK, worldVars
<1> QED BY <1>3, <1>4 DEF UnbindErase

LEMMA UnbindReturnTyped ==
  ASSUME TypeOK, UnbindReturn
  PROVE  TypeOK'
<1> DEFINE k == KindHere
           s == stack[KindHere]
<1>1. calls # <<>>
  BY DEF UnbindReturn, Running
<1>2. k \in Kinds /\ s \in Seq(Nodes)
  BY <1>1, CurrentTyped
<1>3. CASE Fail("assert")
  BY <1>3 DEF Fail, TypeOK, nodeVars, worldVars
<1>4. CASE ~Fail("assert")
  <2>1. /\ CASE ~Tracked(k) -> UNCHANGED active
             [] Tracked(k) /\ s = <<>> -> ResetDefault(k)
             [] OTHER -> SetActive(k, Last(s))
        /\ IF Current.shutdown
           THEN ForgetNode(Current.node)
           ELSE UNCHANGED <<first, viewpoints, scene>>
        /\ Return
        /\ UNCHANGED <<stack, isBound, worldVars, fault>>
    BY <1>4 DEF UnbindReturn
  <2>2. calls' \in Seq(Frame) /\ Len(calls') <= MaxDepth
    BY <1>1, <2>1, ReturnTyped
  <2>3. active' \in [Kinds -> Nodes \cup {Default}]
    <3>1. CASE ~Tracked(k)
      BY <3>1, <2>1 DEF TypeOK
    <3>2. CASE Tracked(k) /\ s = <<>>
      BY <3>2, <2>1, <1>2 DEF TypeOK, ResetDefault
    <3>3. CASE Tracked(k) /\ s # <<>>
      <4>1. Last(s) \in Nodes
        BY <3>3, <1>2, LastProperties
      <4>2. SetActive(k, Last(s))
        BY <3>3, <2>1
      <4> QED BY <4>1, <4>2, <1>2 DEF TypeOK, SetActive
    <3> QED BY <3>1, <3>2, <3>3
  <2>4. /\ first' \in [Kinds -> Nodes \cup {NoNode}]
        /\ viewpoints' \subseteq Nodes /\ scene' \subseteq Nodes
    BY <2>1 DEF TypeOK, ForgetNode
  <2> QED BY <2>1, <2>2, <2>3, <2>4 DEF TypeOK, worldVars
<1> QED BY <1>3, <1>4

(* From no call in progress, a step of the world starts one call at most. *)
LEMMA FirstCallTyped ==
  ASSUME TypeOK, Idle, NEW op \in {"bind", "unbind"}, NEW n \in Nodes,
         NEW shutdown \in BOOLEAN, calls' = Append(calls, Call(op, n, shutdown))
  PROVE  /\ calls' \in Seq(Frame)
         /\ Len(calls') = 1
         /\ calls'[1] = Call(op, n, shutdown)
         /\ Len(calls') <= MaxDepth
<1>1. calls = <<>> /\ <<>> \in Seq(Frame) /\ Len(<<>>) = 0
  BY EmptySeq DEF Idle
<1>2. Call(op, n, shutdown) \in Frame
  BY CallTyped
<1> HIDE DEF Call
<1>3. /\ calls' \in Seq(Frame) /\ Len(calls') = 0 + 1
      /\ calls'[0 + 1] = Call(op, n, shutdown)
  BY <1>1, <1>2, AppendProperties
<1>4. 1 <= MaxDepth
  BY NodesAssumption
<1> QED BY <1>3, <1>4

LEMMA WorldStepTyped ==
  ASSUME TypeOK, WorldStep
  PROVE  TypeOK'
<1>0. Len(World) \in Nat /\ \A i \in 1..Len(World) : World[i] \in Nodes
  BY NodesAssumption, LenProperties, ElementOfSeq
<1>1. CASE InitializeNode
  <2>1. World[at + 1] \in Nodes /\ at' \in 0..Len(World)
    BY <1>0, <1>1 DEF InitializeNode, TypeOK
  <2>2. KindOf[World[at + 1]] \in Kinds
    BY <2>1, NodesAssumption
  <2>3. /\ first' \in [Kinds -> Nodes \cup {NoNode}]
        /\ viewpoints' \subseteq Nodes /\ scene' \subseteq Nodes
    <3> DEFINE n == World[at + 1]
    <3>1. CASE n \in scene
      BY <3>1, <1>1 DEF InitializeNode, TypeOK
    <3>2. CASE n \notin scene
      <4> HIDE DEF n
      <4>1. /\ scene' = scene \cup {n}
            /\ first' = [first EXCEPT ![KindOf[n]] = IF @ = NoNode THEN n ELSE @]
            /\ viewpoints' = IF KindOf[n] = "Viewpoint"
                             THEN viewpoints \cup {n} ELSE viewpoints
        BY <3>2, <1>1 DEF InitializeNode, n
      <4>2. n \in Nodes /\ KindOf[n] \in Kinds
        BY <2>1, <2>2 DEF n
      <4> QED BY <4>1, <4>2 DEF TypeOK
    <3> QED BY <3>1, <3>2
  <2> QED BY <2>1, <2>3, <1>1 DEF InitializeNode, TypeOK
<1>2. CASE FindInitialViewpoint
  <2>1. requested' \in Nodes \cup {NoNode}
    BY <1>2 DEF FindInitialViewpoint, TypeOK
  <2> QED BY <2>1, <1>2 DEF FindInitialViewpoint, TypeOK, nodeVars
<1>3. ASSUME NEW k \in Kinds, InitializeMetatype(k) PROVE TypeOK'
  <2>1. calls' \in Seq(Frame) /\ Len(calls') <= MaxDepth
    <3>1. CASE first[k] = NoNode
      BY <3>1, <1>3 DEF InitializeMetatype, TypeOK
    <3>2. CASE first[k] # NoNode
      BY <3>2, <1>3, FirstCallTyped DEF InitializeMetatype, TypeOK
    <3> QED BY <3>1, <3>2
  <2> QED BY <2>1, <1>3 DEF InitializeMetatype, TypeOK, nodeVars
<1>4. CASE StartWorld
  BY <1>4 DEF StartWorld, TypeOK, nodeVars
<1>5. ASSUME NEW n \in Nodes, NEW value \in BOOLEAN, SetBind(n, value) PROVE TypeOK'
  <2>1. calls' \in Seq(Frame) /\ Len(calls') <= MaxDepth
    BY <1>5, FirstCallTyped DEF SetBind
  <2> QED BY <2>1, <1>5 DEF SetBind, TypeOK, nodeVars, worldVars
<1>6. CASE BeginShutdown
  BY <1>0, <1>6 DEF BeginShutdown, TypeOK, nodeVars
<1>7. CASE ShutdownNode
  <2>1. World[at + 1] \in Nodes /\ at' \in 0..Len(World)
    BY <1>0, <1>7 DEF ShutdownNode, TypeOK
  <2>2. calls' \in Seq(Frame) /\ Len(calls') <= MaxDepth
    <3>1. CASE World[at + 1] \in scene
      BY <3>1, <2>1, <1>7, FirstCallTyped DEF ShutdownNode
    <3>2. CASE World[at + 1] \notin scene
      BY <3>2, <1>7 DEF ShutdownNode, TypeOK
    <3> QED BY <3>1, <3>2
  <2> QED BY <2>1, <2>2, <1>7 DEF ShutdownNode, TypeOK, nodeVars
<1>8. CASE ReplaceScene
  <2>1. CASE viewpoints # {}
    BY <1>8, <2>1 DEF ReplaceScene, Fail, TypeOK, nodeVars, worldVars
  <2>2. CASE viewpoints = {}
    <3>1. /\ stack' = [k \in Kinds |-> <<>>] /\ at' = 0 /\ phase' = "loading"
          /\ first' = [k \in Kinds |-> NoNode]
          /\ isBound' = [n \in Nodes |-> FALSE]
          /\ UNCHANGED <<active, viewpoints, scene, pending, requested, calls, fault>>
      BY <1>8, <2>2 DEF ReplaceScene
    <3>2. stack' \in [Kinds -> Seq(Nodes)]
      BY <3>1, EmptySeq
    <3>3. at' \in 0..Len(World)
      BY <3>1, <1>0
    <3> QED BY <3>1, <3>2, <3>3 DEF TypeOK
  <2> QED BY <2>1, <2>2
<1> QED BY <1>1, <1>2, <1>3, <1>4, <1>5, <1>6, <1>7, <1>8 DEF WorldStep

LEMMA TypeStep == TypeOK /\ [Next]_vars => TypeOK'
<1>1. ASSUME TypeOK, UNCHANGED vars PROVE TypeOK'
  BY <1>1 DEF vars, nodeVars, worldVars, TypeOK
<1>2. ASSUME TypeOK, CallStep PROVE TypeOK'
  BY <1>2, DeliverTyped, BindEnterTyped, BindPushTyped, BindReturnTyped,
     UnbindEnterTyped, UnbindEraseTyped, UnbindReturnTyped DEF CallStep
<1> QED BY <1>1, <1>2, WorldStepTyped DEF Next, Halted

(* Every variable has its type in every reachable state, and the calls in *)
(* progress never outgrow the thread's stack, whatever the routes are.    *)
THEOREM TypeCorrect == Spec => []TypeOK
BY TypeInit, TypeStep, PTL DEF Spec

-----------------------------------------------------------------------------
(***************************************************************************)
(* With layered routes (isBound is routed only from one metatype to        *)
(* another, never round in a circle) the cascades are safe.  The argument: *)
(* calls in progress belong to metatypes of increasing rank, so the        *)
(* callbacks of a call never touch the stack it works on.                  *)
(***************************************************************************)

(* Erasing from a stack on which every node is at most once. *)
LEMMA EraseProperties ==
  ASSUME NEW S, NEW s \in Seq(S), NEW n, \E i \in DOMAIN s : s[i] = n,
         \A i, j \in DOMAIN s : s[i] = s[j] => i = j
  PROVE  /\ Erase(n, s) \in Seq(S)
         /\ \A i \in DOMAIN Erase(n, s) :
              /\ Erase(n, s)[i] # n
              /\ \E j \in DOMAIN s : Erase(n, s)[i] = s[j]
         /\ \A i, j \in DOMAIN Erase(n, s) :
              Erase(n, s)[i] = Erase(n, s)[j] => i = j
         /\ Last(s) # n => Erase(n, s) # <<>> /\ Last(Erase(n, s)) = Last(s)
<1>1. PICK p \in 1..Len(s) : p = PositionOf(n, s) /\ s[p] = n
  BY PositionOfProperties
<1>2. Len(s) \in Nat /\ DOMAIN s = 1..Len(s)
  BY LenProperties
<1> DEFINE e == RemoveAt(s, p)
<1>3. /\ e \in Seq(S) /\ Len(e) = Len(s) - 1
      /\ \A j \in 1..(Len(s) - 1) : e[j] = IF j < p THEN s[j] ELSE s[j + 1]
  BY RemoveAtProperties
<1>4. e = Erase(n, s)
  BY <1>1 DEF Erase
<1> HIDE DEF e
<1>5. DOMAIN e = 1..(Len(s) - 1)
  BY <1>3, LenProperties
<1> DEFINE from(j) == IF j < p THEN j ELSE j + 1
<1>6. ASSUME NEW j \in DOMAIN e
      PROVE  from(j) \in DOMAIN s /\ from(j) # p /\ e[j] = s[from(j)]
  BY <1>1, <1>2, <1>3, <1>5
<1>7. ASSUME NEW i \in DOMAIN e, NEW j \in DOMAIN e, from(i) = from(j) PROVE i = j
  BY <1>5, <1>7, <1>2
<1>8. ASSUME Last(s) # n PROVE e # <<>> /\ Last(e) = Last(s)
  <2>1. p # Len(s) /\ Len(s) \in 1..Len(s)
    BY <1>1, <1>2, <1>8 DEF Last
  <2>2. Len(s) - 1 \in 1..(Len(s) - 1) /\ ~(Len(s) - 1 < p) /\ Len(s) - 1 + 1 = Len(s)
    BY <2>1, <1>1, <1>2
  <2>3. Len(e) # 0 /\ e[Len(e)] = s[Len(s)]
    BY <2>2, <1>3, <1>2
  <2> QED BY <2>3, EmptySeq DEF Last
<1> HIDE DEF from
<1>9. \A i \in DOMAIN e : e[i] # n /\ \E j \in DOMAIN s : e[i] = s[j]
  BY <1>1, <1>2, <1>6
<1>10. \A i, j \in DOMAIN e : e[i] = e[j] => i = j
  BY <1>6, <1>7
<1> QED BY <1>3, <1>4, <1>8, <1>9, <1>10

(* A metatype none of whose nodes or stack changes keeps what it has. *)
LEMMA KindKept ==
  ASSUME NEW k \in Kinds, KindInv(k), stack'[k] = stack[k],
         \A n \in Nodes : KindOf[n] = k => isBound'[n] = isBound[n]
  PROVE  KindInv(k)'
BY DEF KindInv

(* So does a call that works on such a metatype. *)
LEMMA FrameKept ==
  ASSUME NEW i, FrameInv(i), calls'[i] = calls[i], calls[i].node \in Nodes,
         stack'[KindOf[calls[i].node]] = stack[KindOf[calls[i].node]],
         \A n \in Nodes : KindOf[n] = KindOf[calls[i].node] => isBound'[n] = isBound[n]
  PROVE  FrameInv(i)'
BY DEF FrameInv

-----------------------------------------------------------------------------
(***************************************************************************)
(* The running call goes on, and changes at most its own metatype: what it *)
(* must show is only about itself and that metatype.                       *)
(***************************************************************************)
LEMMA HereOnly ==
  ASSUME NEW rank \in [Kinds -> Nat], TypeOK, CascadeInv(rank), calls # <<>>, fault' = fault,
         NEW pc \in {"enter", "change", "return"}, NEW todo \in SUBSET Routes,
         Resume(pc, todo),
         NEW here, here = KindHere, NEW l, l = Len(calls),
         \A k \in Kinds \ {here} : stack'[k] = stack[k],
         \A n \in Nodes : KindOf[n] # here => isBound'[n] = isBound[n],
         KindInv(here)', FrameInv(l)'
  PROVE  CascadeInv(rank)'
<1>1. /\ calls' \in Seq(Frame) /\ Len(calls') = l /\ l \in 1..l
      /\ \A i \in 1..l : calls'[i] = IF i = l THEN Last(calls') ELSE calls[i]
      /\ Last(calls').node = calls[l].node
      /\ Current = calls[l] /\ here = KindOf[calls[l].node]
      /\ Current \in Frame
  <2>1. /\ Current = calls[Len(calls)] /\ Current \in Frame
        /\ Len(calls) \in 1..Len(calls) /\ here = KindOf[Current.node]
    BY CurrentTyped DEF KindHere
  <2>2. /\ calls' \in Seq(Frame)
        /\ Len(calls') = Len(calls)
        /\ Last(calls') = [Current EXCEPT !.pc = pc, !.todo = todo,
                                          !.seen = Remembered(pc)]
        /\ \A i \in 1..Len(calls) :
             calls'[i] = IF i = Len(calls) THEN Last(calls') ELSE calls[i]
    BY ResumeProperties
  <2>3. Last(calls').node = Current.node
    BY <2>1, <2>2 DEF Frame
  <2> QED BY <2>1, <2>2, <2>3
<1>2. DOMAIN calls' = 1..l /\ DOMAIN calls = 1..l
  BY <1>1, LenProperties DEF TypeOK
<1>3. \A i \in 1..l : calls[i] \in Frame /\ calls[i].node \in Nodes
  <2>1. \A i \in 1..l : calls[i] \in Frame
    BY ElementOfSeq DEF TypeOK
  <2> QED BY <2>1 DEF Frame
<1>4. \A i \in 1..l : calls'[i].node = calls[i].node
  BY <1>1
<1>5. CallsAscend(rank)'
  BY <1>2, <1>4 DEF CascadeInv, CallsAscend
<1>6. ASSUME NEW k \in Kinds PROVE KindInv(k)'
  BY KindKept DEF CascadeInv
<1>7. ASSUME NEW i \in DOMAIN calls' PROVE FrameInv(i)'
  <2>1. CASE i = l
    BY <2>1
  <2>2. CASE i # l
    <3>1. i \in 1..l /\ calls'[i] = calls[i] /\ i < l
      BY <2>2, <1>1, <1>2
    <3>2. rank[KindOf[calls[i].node]] < rank[here]
      BY <3>1, <1>1, <1>2 DEF CascadeInv, CallsAscend
    <3>3. KindOf[calls[i].node] \in Kinds
      BY <3>1, <1>3, NodesAssumption
    <3>4. KindOf[calls[i].node] # here
      BY <3>2, <3>3
    <3>5. FrameInv(i)
      BY <3>1, <1>2 DEF CascadeInv
    <3> QED BY <3>1, <3>3, <3>4, <3>5, <1>3, FrameKept
  <2> QED BY <2>1, <2>2
<1> QED BY <1>5, <1>6, <1>7 DEF CascadeInv, NoReentrancyFault


(* What the running call is once it has gone on. *)
LEMMA HereFrame ==
  ASSUME TypeOK, calls # <<>>, NEW pc \in {"enter", "change", "return"},
         NEW todo \in SUBSET Routes, Resume(pc, todo), NEW l, l = Len(calls)
  PROVE  /\ l \in DOMAIN calls
         /\ calls'[l].op = Current.op /\ calls'[l].node = Current.node
         /\ calls'[l].pc = pc /\ calls'[l].todo = todo
         /\ calls'[l].seen = Remembered(pc)
<1>1. /\ Current \in Frame /\ l \in 1..l
      /\ calls \in Seq(Frame)
  BY CurrentTyped DEF TypeOK
<1>2. calls'[l] = [Current EXCEPT !.pc = pc, !.todo = todo, !.seen = Remembered(pc)]
  BY <1>1, ResumeProperties
<1> QED BY <1>1, <1>2, LenProperties DEF Frame

LEMMA BindEnterLayered ==
  ASSUME NEW rank \in [Kinds -> Nat], TypeOK, CascadeInv(rank), BindEnter
  PROVE  CascadeInv(rank)'
<1>1. calls # <<>> /\ Current.op = "bind" /\ fault' = fault
  BY DEF BindEnter, Running, Current
<1>2. PICK k \in Kinds, n \in Nodes, l \in Nat :
        k = KindHere /\ n = Current.node /\ l = Len(calls)
  BY <1>1, CurrentTyped, LenProperties DEF TypeOK
<1>3. PICK s0 \in Seq(Nodes) : s0 = stack[k]
  BY <1>1, <1>2, CurrentTyped
<1>4. KindOf[n] = k /\ KindInv(k) /\ l \in DOMAIN calls /\ Current = calls[l]
  BY <1>1, <1>2, CurrentTyped, LenProperties DEF KindHere, CascadeInv, TypeOK
<1>5. /\ \A i \in DOMAIN s0 : KindOf[s0[i]] = k
      /\ \A i, j \in DOMAIN s0 : s0[i] = s0[j] => i = j
      /\ \A m \in Nodes : KindOf[m] = k /\ isBound[m] => s0 # <<>> /\ m = Last(s0)
  BY <1>3, <1>4 DEF KindInv
<1>6. CASE /\ stack[k] # <<>> /\ Last(stack[k]) = n
           /\ GoTo("return")
           /\ UNCHANGED <<stack, isBound>>
  <2>1. Resume("return", {}) /\ {} \in SUBSET Routes
    BY <1>6 DEF GoTo
  <2>2. KindInv(k)'
    BY <1>4, <1>6, KindKept
  <2>3. /\ calls'[l].op = "bind" /\ calls'[l].pc = "return" /\ calls'[l].node = n
        /\ calls'[l].todo = {}
    BY <2>1, <1>1, <1>2, HereFrame
  <2>4. FrameInv(l)'
    BY <2>3, <1>4, <1>6 DEF FrameInv
  <2> QED BY <2>1, <2>2, <2>4, <1>1, <1>2, <1>6, HereOnly
<1>7. CASE ~(stack[k] # <<>> /\ Last(stack[k]) = n)
  <2>1. PICK s : s = IF OnStack(n) THEN Erase(n, s0) ELSE s0
    OBVIOUS
  <2>2. /\ stack' = [stack EXCEPT ![k] = s]
        /\ IF s = <<>>
           THEN GoTo("change") /\ UNCHANGED isBound
           ELSE NodeBind(Last(s), FALSE, "change")
    BY <2>1, <1>2, <1>3, <1>7 DEF BindEnter
  <2>3. OnStack(n) <=> \E i \in DOMAIN s0 : s0[i] = n
    BY <1>3, <1>4 DEF OnStack
  <2>4. /\ s \in Seq(Nodes)
        /\ \A i \in DOMAIN s : s[i] # n /\ KindOf[s[i]] = k
        /\ \A i, j \in DOMAIN s : s[i] = s[j] => i = j
        /\ \A m \in Nodes : KindOf[m] = k /\ isBound[m] => s # <<>> /\ m = Last(s)
    <3>1. CASE OnStack(n)
      <4>1. s = Erase(n, s0) /\ s0 # <<>>
        BY <3>1, <2>1, <2>3, EmptySeq
      <4>2. Last(s0) # n
        BY <4>1, <1>3, <1>7
      <4>3. /\ s \in Seq(Nodes)
            /\ \A i \in DOMAIN s : s[i] # n /\ \E j \in DOMAIN s0 : s[i] = s0[j]
            /\ \A i, j \in DOMAIN s : s[i] = s[j] => i = j
            /\ s # <<>> /\ Last(s) = Last(s0)
        BY <4>1, <4>2, <3>1, <2>3, <1>5, EraseProperties
      <4> QED BY <4>3, <1>5
    <3>2. CASE ~OnStack(n)
      BY <3>2, <2>1, <2>3, <1>5
    <3> QED BY <3>1, <3>2
  <2>5. stack'[k] = s /\ \A j \in Kinds \ {k} : stack'[j] = stack[j]
    BY <2>2 DEF TypeOK
  <2>6. \E todo \in SUBSET Routes :
          /\ Resume("change", todo)
          /\ \A r \in todo : KindOf[r.from] = k
          /\ \A m \in Nodes : IF KindOf[m] = k THEN ~isBound'[m]
                                               ELSE isBound'[m] = isBound[m]
    <3>1. CASE s = <<>>
      BY <3>1, <2>2, <2>4 DEF GoTo
    <3>2. CASE s # <<>>
      <4>1. PICK m \in Nodes : m = Last(s) /\ KindOf[m] = k
        BY <3>2, <2>4, LastProperties, LenProperties
      <4>2. NodeBind(m, FALSE, "change")
        BY <4>1, <3>2, <2>2
      <4>3. /\ isBound' = [isBound EXCEPT ![m] = FALSE]
            /\ Resume("change", Listeners(m))
            /\ Listeners(m) \in SUBSET Routes
        BY <4>2, <1>1, NodeBindTyped
      <4>4. \A r \in Listeners(m) : KindOf[r.from] = k
        BY <4>1 DEF Listeners
      <4>5. \A x \in Nodes : IF KindOf[x] = k THEN ~isBound'[x]
                                              ELSE isBound'[x] = isBound[x]
        BY <4>1, <4>3, <2>4 DEF TypeOK
      <4> QED BY <4>3, <4>4, <4>5
    <3> QED BY <3>1, <3>2
  <2>7. PICK todo \in SUBSET Routes :
          /\ Resume("change", todo)
          /\ \A r \in todo : KindOf[r.from] = k
          /\ \A m \in Nodes : IF KindOf[m] = k THEN ~isBound'[m]
                                               ELSE isBound'[m] = isBound[m]
    BY <2>6
  <2>8. KindInv(k)'
    BY <2>4, <2>5, <2>7 DEF KindInv
  <2>9. /\ calls'[l].op = "bind" /\ calls'[l].pc = "change" /\ calls'[l].node = n
        /\ calls'[l].todo = todo
    BY <2>7, <1>1, <1>2, HereFrame
  <2>10. FrameInv(l)'
    BY <2>4, <2>5, <2>7, <2>9, <1>4 DEF FrameInv
  <2> QED BY <2>5, <2>7, <2>8, <2>10, <1>1, <1>2, HereOnly
<1> QED BY <1>2, <1>6, <1>7 DEF BindEnter

LEMMA BindPushLayered ==
  ASSUME NEW rank \in [Kinds -> Nat], TypeOK, CascadeInv(rank), BindPush
  PROVE  CascadeInv(rank)'
<1>1. /\ calls # <<>> /\ Current.op = "bind" /\ Current.pc = "change"
      /\ fault' = fault
  BY DEF BindPush, Running, Current
<1>2. PICK k \in Kinds, n \in Nodes, l \in Nat :
        k = KindHere /\ n = Current.node /\ l = Len(calls)
  BY <1>1, CurrentTyped, LenProperties DEF TypeOK
<1>3. PICK s0 \in Seq(Nodes) : s0 = stack[k]
  BY <1>1, <1>2, CurrentTyped
<1>4. /\ KindOf[n] = k /\ KindInv(k)
      /\ l \in DOMAIN calls /\ Current = calls[l] /\ FrameInv(l)
  BY <1>1, <1>2, CurrentTyped, LenProperties DEF KindHere, CascadeInv, TypeOK
<1>5. /\ \A i \in DOMAIN s0 : KindOf[s0[i]] = k /\ s0[i] # n
      /\ \A i, j \in DOMAIN s0 : s0[i] = s0[j] => i = j
      /\ \A m \in Nodes : KindOf[m] = k => ~isBound[m]
  BY <1>1, <1>2, <1>3, <1>4 DEF KindInv, FrameInv
<1>6. PICK s : s = Append(s0, n)
  OBVIOUS
<1>7. /\ s \in Seq(Nodes) /\ Len(s) = Len(s0) + 1 /\ Len(s0) \in Nat
      /\ \A i \in 1..Len(s0) : s[i] = s0[i]
      /\ s[Len(s0) + 1] = n /\ Last(s) = n
  BY <1>6, AppendedCall, LenProperties
<1>8. DOMAIN s0 = 1..Len(s0) /\ DOMAIN s = 1..(Len(s0) + 1)
  BY <1>7, LenProperties
<1>9. s # <<>>
  BY <1>7, EmptySeq
<1>10. /\ \A i \in DOMAIN s : KindOf[s[i]] = k
       /\ \A i, j \in DOMAIN s : s[i] = s[j] => i = j
  <2>1. \A i \in DOMAIN s : i \in DOMAIN s0 \/ i = Len(s0) + 1
    BY <1>7, <1>8
  <2> QED BY <2>1, <1>4, <1>5, <1>7, <1>8
<1>11. stack'[k] = s /\ \A j \in Kinds \ {k} : stack'[j] = stack[j]
  BY <1>2, <1>3, <1>6 DEF BindPush, TypeOK
<1>12. NodeBind(n, TRUE, "return")
  BY <1>2 DEF BindPush
<1>13. /\ isBound' = [isBound EXCEPT ![n] = TRUE]
       /\ Resume("return", Listeners(n))
       /\ Listeners(n) \in SUBSET Routes
  BY <1>1, <1>12, NodeBindTyped
<1>14. \A m \in Nodes : IF KindOf[m] = k THEN isBound'[m] => m = n
                                         ELSE isBound'[m] = isBound[m]
  BY <1>4, <1>5, <1>13 DEF TypeOK
<1>15. KindInv(k)'
  BY <1>7, <1>9, <1>10, <1>11, <1>14 DEF KindInv
<1>16. /\ calls'[l].op = "bind" /\ calls'[l].pc = "return" /\ calls'[l].node = n
       /\ calls'[l].todo = Listeners(n)
  BY <1>1, <1>2, <1>13, HereFrame
<1>17. FrameInv(l)'
  BY <1>4, <1>7, <1>9, <1>11, <1>16 DEF FrameInv, Listeners
<1> QED BY <1>1, <1>2, <1>11, <1>13, <1>14, <1>15, <1>17, HereOnly

LEMMA UnbindEnterLayered ==
  ASSUME NEW rank \in [Kinds -> Nat], TypeOK, CascadeInv(rank), UnbindEnter
  PROVE  CascadeInv(rank)'
<1>1. calls # <<>> /\ Current.op = "unbind" /\ fault' = fault /\ stack' = stack
  BY DEF UnbindEnter, Running, Current
<1>2. PICK k \in Kinds, n \in Nodes, l \in Nat :
        k = KindHere /\ n = Current.node /\ l = Len(calls)
  BY <1>1, CurrentTyped, LenProperties DEF TypeOK
<1>3. KindOf[n] = k /\ KindInv(k) /\ l \in DOMAIN calls /\ Current = calls[l]
  BY <1>1, <1>2, CurrentTyped, LenProperties DEF KindHere, CascadeInv, TypeOK
<1>4. CASE OnStack(n)
  <2>1. NodeBind(n, FALSE, "change")
    BY <1>2, <1>4 DEF UnbindEnter
  <2>2. /\ isBound' = [isBound EXCEPT ![n] = FALSE]
        /\ Resume("change", Listeners(n))
        /\ Listeners(n) \in SUBSET Routes
    BY <1>1, <2>1, NodeBindTyped
  <2>3. /\ \A m \in Nodes : m # n => isBound'[m] = isBound[m]
        /\ ~isBound'[n]
    BY <2>2 DEF TypeOK
  <2>4. KindInv(k)'
    BY <2>3, <1>1, <1>3 DEF KindInv
  <2>5. /\ calls'[l].op = "unbind" /\ calls'[l].pc = "change" /\ calls'[l].node = n
        /\ calls'[l].todo = Listeners(n) /\ calls'[l].seen = stack[k]
    BY <2>2, <1>1, <1>2, HereFrame DEF Remembered
  <2>6. FrameInv(l)'
    BY <2>3, <2>5, <1>1, <1>3, <1>4 DEF FrameInv, Listeners, OnStack
  <2> QED BY <2>2, <2>3, <2>4, <2>6, <1>1, <1>2, <1>3, HereOnly
<1>5. CASE ~OnStack(n)
  <2>1. GoTo("return") /\ isBound' = isBound
    BY <1>2, <1>5 DEF UnbindEnter
  <2>2. Resume("return", {}) /\ {} \in SUBSET Routes
    BY <2>1 DEF GoTo
  <2>3. KindInv(k)'
    BY <2>1, <1>1, <1>3, KindKept
  <2>4. /\ calls'[l].op = "unbind" /\ calls'[l].pc = "return" /\ calls'[l].node = n
        /\ calls'[l].todo = {}
    BY <2>2, <1>1, <1>2, HereFrame
  <2>5. FrameInv(l)'
    BY <2>4 DEF FrameInv
  <2> QED BY <2>1, <2>2, <2>3, <2>5, <1>1, <1>2, HereOnly
<1> QED BY <1>4, <1>5


(* The iterator that unbind holds is valid: the stack is the one it found. *)
LEMMA UnbindEraseLayered ==
  ASSUME NEW rank \in [Kinds -> Nat], TypeOK, CascadeInv(rank), UnbindErase
  PROVE  CascadeInv(rank)'
<1>1. calls # <<>> /\ Current.op = "unbind" /\ Current.pc = "change"
  BY DEF UnbindErase, Running, Current
<1>2. PICK k \in Kinds, n \in Nodes, l \in Nat :
        k = KindHere /\ n = Current.node /\ l = Len(calls)
  BY <1>1, CurrentTyped, LenProperties DEF TypeOK
<1>3. PICK s \in Seq(Nodes) : s = stack[k]
  BY <1>1, <1>2, CurrentTyped
<1>4. /\ KindOf[n] = k /\ KindInv(k)
      /\ l \in DOMAIN calls /\ Current = calls[l] /\ FrameInv(l)
  BY <1>1, <1>2, CurrentTyped, LenProperties DEF KindHere, CascadeInv, TypeOK
<1>5. /\ \A i \in DOMAIN s : KindOf[s[i]] = k
      /\ \A i, j \in DOMAIN s : s[i] = s[j] => i = j
      /\ \A m \in Nodes : KindOf[m] = k /\ isBound[m] => s # <<>> /\ m = Last(s)
      /\ s = Current.seen /\ \E i \in DOMAIN s : s[i] = n
      /\ ~isBound[n]
  BY <1>1, <1>2, <1>3, <1>4 DEF KindInv, FrameInv
<1>6. PICK rest :
        /\ rest = Erase(n, s)
        /\ stack' = [stack EXCEPT ![k] = rest]
        /\ IF Last(s) = n /\ Len(rest) > 1
           THEN NodeBind(Last(rest), TRUE, "return")
           ELSE GoTo("return") /\ UNCHANGED isBound
        /\ fault' = fault
  BY <1>2, <1>3, <1>5 DEF UnbindErase, Erase
<1>7. /\ rest \in Seq(Nodes)
      /\ \A i \in DOMAIN rest : rest[i] # n /\ KindOf[rest[i]] = k
      /\ \A i, j \in DOMAIN rest : rest[i] = rest[j] => i = j
      /\ Last(s) # n => rest # <<>> /\ Last(rest) = Last(s)
  <2>1. /\ rest \in Seq(Nodes)
        /\ \A i \in DOMAIN rest : rest[i] # n /\ \E j \in DOMAIN s : rest[i] = s[j]
        /\ \A i, j \in DOMAIN rest : rest[i] = rest[j] => i = j
        /\ Last(s) # n => rest # <<>> /\ Last(rest) = Last(s)
    BY <1>5, <1>6, EraseProperties
  <2> QED BY <2>1, <1>5
<1>8. stack'[k] = rest /\ \A j \in Kinds \ {k} : stack'[j] = stack[j]
  BY <1>6 DEF TypeOK
<1>9. \E todo \in SUBSET Routes :
        /\ Resume("return", todo)
        /\ \A r \in todo : KindOf[r.from] = k
        /\ \A m \in Nodes : IF KindOf[m] = k
                            THEN isBound'[m] => rest # <<>> /\ m = Last(rest)
                            ELSE isBound'[m] = isBound[m]
  <2>1. CASE Last(s) = n /\ Len(rest) > 1
    <3>1. rest # <<>>
      BY <2>1, EmptySeq
    <3>2. PICK m \in Nodes : m = Last(rest) /\ KindOf[m] = k
      BY <3>1, <1>7, LastProperties, LenProperties
    <3>3. NodeBind(m, TRUE, "return")
      BY <2>1, <3>2, <1>6
    <3>4. /\ isBound' = [isBound EXCEPT ![m] = TRUE]
          /\ Resume("return", Listeners(m))
          /\ Listeners(m) \in SUBSET Routes
      BY <3>3, <1>1, NodeBindTyped
    <3>5. \A r \in Listeners(m) : KindOf[r.from] = k
      BY <3>2 DEF Listeners
    <3>6. \A x \in Nodes : KindOf[x] = k => ~isBound[x]
      BY <2>1, <1>5
    <3>7. \A x \in Nodes : isBound'[x] = IF x = m THEN TRUE ELSE isBound[x]
      BY <3>4 DEF TypeOK
    <3> QED BY <3>1, <3>2, <3>4, <3>5, <3>6, <3>7
  <2>2. CASE ~(Last(s) = n /\ Len(rest) > 1)
    <3>1. Resume("return", {}) /\ UNCHANGED isBound
      BY <2>2, <1>6 DEF GoTo
    <3>2. \A m \in Nodes : KindOf[m] = k /\ isBound[m] => rest # <<>> /\ m = Last(rest)
      BY <1>5, <1>7
    <3> QED BY <3>1, <3>2
  <2> QED BY <2>1, <2>2
<1>10. PICK todo \in SUBSET Routes :
        /\ Resume("return", todo)
        /\ \A r \in todo : KindOf[r.from] = k
        /\ \A m \in Nodes : IF KindOf[m] = k
                            THEN isBound'[m] => rest # <<>> /\ m = Last(rest)
                            ELSE isBound'[m] = isBound[m]
  BY <1>9
<1>11. KindInv(k)'
  BY <1>7, <1>8, <1>10 DEF KindInv
<1>12. /\ calls'[l].op = "unbind" /\ calls'[l].pc = "return" /\ calls'[l].node = n
       /\ calls'[l].todo = todo
  BY <1>10, <1>1, <1>2, HereFrame
<1>13. FrameInv(l)'
  BY <1>4, <1>10, <1>12 DEF FrameInv
<1> QED BY <1>1, <1>2, <1>6, <1>8, <1>10, <1>11, <1>13, HereOnly

-----------------------------------------------------------------------------
(* Steps that leave the stacks alone. *)

(* A call returns. *)
LEMMA ReturnLayered ==
  ASSUME NEW rank, TypeOK, CascadeInv(rank), calls # <<>>, Return,
         UNCHANGED <<stack, isBound, fault>>
  PROVE  CascadeInv(rank)'
<1>1. /\ calls' \in Seq(Frame) /\ Len(calls') = Len(calls) - 1
      /\ \A i \in 1..(Len(calls) - 1) : calls'[i] = calls[i]
      /\ Len(calls) \in Nat
  BY ReturnTyped, LenProperties DEF TypeOK
<1>2. /\ DOMAIN calls' \subseteq DOMAIN calls
      /\ \A i \in DOMAIN calls' : calls'[i] = calls[i]
  BY <1>1, LenProperties DEF TypeOK
<1>3. CallsAscend(rank)'
  BY <1>2 DEF CallsAscend, CascadeInv
<1>4. ASSUME NEW i \in DOMAIN calls' PROVE FrameInv(i)'
  BY <1>2 DEF FrameInv, CascadeInv
<1>5. ASSUME NEW k \in Kinds PROVE KindInv(k)'
  BY DEF KindInv, CascadeInv
<1> QED BY <1>3, <1>4, <1>5 DEF CascadeInv, NoReentrancyFault

(* Nothing that the invariant speaks of changes, but the kind of fault. *)
LEMMA KeptLayered ==
  ASSUME NEW rank, CascadeInv(rank), UNCHANGED <<stack, isBound, calls>>,
         fault' \notin {"iterator", "overflow"}
  PROVE  CascadeInv(rank)'
<1>1. ASSUME NEW k \in Kinds PROVE KindInv(k)'
  BY DEF KindInv, CascadeInv
<1>2. ASSUME NEW i \in DOMAIN calls PROVE FrameInv(i)'
  BY DEF FrameInv, CascadeInv
<1> QED BY <1>1, <1>2 DEF CascadeInv, CallsAscend, NoReentrancyFault

(* A call is started while none is in progress. *)
LEMMA FirstCallLayered ==
  ASSUME NEW rank \in [Kinds -> Nat], TypeOK, CascadeInv(rank), Idle,
         NEW op \in {"bind", "unbind"}, NEW n \in Nodes, NEW shutdown \in BOOLEAN,
         calls' = Append(calls, Call(op, n, shutdown)),
         UNCHANGED <<stack, isBound, fault>>
  PROVE  CascadeInv(rank)'
<1>1. /\ calls' \in Seq(Frame) /\ Len(calls') = 1
      /\ calls'[1] = Call(op, n, shutdown)
  BY FirstCallTyped
<1>2. DOMAIN calls' = {1}
  BY <1>1, LenProperties
<1>3. calls'[1].todo = {} /\ calls'[1].pc = "enter" /\ calls'[1].node = n
  BY <1>1 DEF Call
<1>4. FrameInv(1)'
  BY <1>3 DEF FrameInv
<1>5. rank[KindOf[n]] \in Nat
  BY NodesAssumption
<1>6. CallsAscend(rank)'
  BY <1>2, <1>3, <1>5 DEF CallsAscend
<1>7. ASSUME NEW k \in Kinds PROVE KindInv(k)'
  BY DEF KindInv, CascadeInv
<1> QED BY <1>2, <1>4, <1>6, <1>7 DEF CascadeInv, NoReentrancyFault

(* A listener is called: it belongs to a metatype of a higher rank, and    *)
(* there are at most MaxDepth ranks.                                       *)
LEMMA DeliverLayered ==
  ASSUME NEW rank \in [Kinds -> 0..(MaxDepth - 1)], LayeredBy(rank),
         TypeOK, CascadeInv(rank), NEW r \in Routes, Deliver(r)
  PROVE  CascadeInv(rank)'
<1>0. PICK l \in Nat : l = Len(calls)
  BY LenProperties DEF TypeOK
<1>1. /\ calls # <<>> /\ r \in Current.todo
      /\ l \in 1..l /\ Current = calls[l] /\ Current \in Frame
      /\ calls \in Seq(Frame) /\ DOMAIN calls = 1..l
  BY <1>0, CurrentTyped, LenProperties DEF Deliver, TypeOK
<1>2. \A i \in 1..l : calls[i].node \in Nodes /\ KindOf[calls[i].node] \in Kinds
  <2>1. \A i \in 1..l : calls[i] \in Frame
    BY <1>0, <1>1, ElementOfSeq
  <2> QED BY <2>1, NodesAssumption DEF Frame
<1>3. /\ FrameInv(l) /\ CallsAscend(rank)
      /\ KindOf[r.from] = KindOf[calls[l].node]
  BY <1>1 DEF CascadeInv, FrameInv
<1>4. /\ r.from \in Nodes /\ r.to \in Nodes
      /\ KindOf[r.from] \in Kinds /\ KindOf[r.to] \in Kinds
  BY NodesAssumption
<1>5. rank[KindOf[calls[l].node]] < rank[KindOf[r.to]]
  BY <1>3 DEF LayeredBy
<1>6. l - 1 <= rank[KindOf[calls[l].node]]
  BY <1>1, <1>3 DEF CallsAscend
<1>7. \A k \in Kinds : rank[k] \in Nat /\ rank[k] <= MaxDepth - 1
  BY NodesAssumption
<1>8. rank[KindOf[calls[l].node]] \in Nat
  BY <1>1, <1>2, <1>7
<1>9. l < MaxDepth /\ l <= rank[KindOf[r.to]]
  BY <1>4, <1>5, <1>6, <1>7, <1>8, NodesAssumption
<1> DEFINE rest == [Current EXCEPT !.todo = @ \ {r}]
           c == Call(IF isBound[r.from] # r.negate THEN "bind" ELSE "unbind", r.to, FALSE)
           held == [calls EXCEPT ![Len(calls)] = rest]
<1>10. calls' = Append(held, c) /\ UNCHANGED <<nodeVars, worldVars, fault>>
  <2>1. Len(calls) # MaxDepth
    BY <1>0, <1>9, NodesAssumption
  <2> QED BY <2>1, Zenon DEF Deliver
<1>11. /\ rest \in Frame /\ rest.op = Current.op /\ rest.pc = Current.pc
       /\ rest.node = Current.node /\ rest.seen = Current.seen
       /\ rest.todo = Current.todo \ {r}
  BY <1>1 DEF Frame
<1>12. c \in Frame /\ c.pc = "enter" /\ c.todo = {} /\ c.node = r.to
  <2>1. c \in Frame
    BY <1>4, CallTyped
  <2> QED BY <2>1 DEF Call
<1> HIDE DEF rest, c
<1>13. /\ held \in Seq(Frame) /\ Len(held) = l
       /\ \A i \in 1..l : held[i] = IF i = l THEN rest ELSE calls[i]
  BY <1>0, <1>1, <1>11, ExceptSeq
<1> HIDE DEF held
<1>14. /\ calls' \in Seq(Frame) /\ Len(calls') = l + 1
       /\ \A i \in 1..l : calls'[i] = IF i = l THEN rest ELSE calls[i]
       /\ calls'[l + 1] = c
  BY <1>10, <1>12, <1>13, AppendedCall
<1>15. DOMAIN calls' = 1..(l + 1)
  BY <1>14, LenProperties
<1>16. /\ \A i \in 1..l : calls'[i].node = calls[i].node
       /\ calls'[l + 1].node = r.to
  BY <1>1, <1>11, <1>12, <1>14
<1>17. CallsAscend(rank)'
  <2>1. ASSUME NEW i \in 1..l
        PROVE  /\ i - 1 <= rank[KindOf[calls[i].node]]
               /\ rank[KindOf[calls[i].node]] < rank[KindOf[r.to]]
    <3>1. CASE i = l
      BY <3>1, <1>5, <1>6
    <3>2. CASE i # l
      <4>0. i < l /\ i \in DOMAIN calls /\ l \in DOMAIN calls
        BY <3>2, <1>1
      <4>1. /\ i - 1 <= rank[KindOf[calls[i].node]]
            /\ rank[KindOf[calls[i].node]] < rank[KindOf[calls[l].node]]
        BY <4>0, <1>3 DEF CallsAscend
      <4>2. /\ rank[KindOf[calls[i].node]] \in Nat
            /\ rank[KindOf[r.to]] \in Nat
        BY <1>2, <1>4, <1>7
      <4> QED BY <4>1, <4>2, <1>5, <1>8
    <3> QED BY <3>1, <3>2
  <2>2. ASSUME NEW i \in 1..l, NEW j \in 1..l, i < j
        PROVE  rank[KindOf[calls[i].node]] < rank[KindOf[calls[j].node]]
    BY <2>2, <1>1, <1>3 DEF CallsAscend
  <2>3. ASSUME NEW i \in DOMAIN calls' PROVE i - 1 <= rank[KindOf[calls'[i].node]]
    BY <2>1, <1>9, <1>15, <1>16
  <2>4. ASSUME NEW i \in DOMAIN calls', NEW j \in DOMAIN calls', i < j
        PROVE  rank[KindOf[calls'[i].node]] < rank[KindOf[calls'[j].node]]
    <3>1. i \in 1..l
      BY <2>4, <1>15
    <3>2. CASE j \in 1..l
      BY <3>1, <3>2, <2>2, <2>4, <1>16
    <3>3. CASE j = l + 1
      BY <3>1, <3>3, <2>1, <1>16
    <3> QED BY <3>2, <3>3, <1>15
  <2> QED BY <2>3, <2>4 DEF CallsAscend
<1>18. ASSUME NEW i \in DOMAIN calls' PROVE FrameInv(i)'
  <2>1. CASE i = l + 1
    BY <2>1, <1>12, <1>14 DEF FrameInv
  <2>2. CASE i = l
    <3>1. /\ calls'[l].op = calls[l].op /\ calls'[l].pc = calls[l].pc
          /\ calls'[l].node = calls[l].node /\ calls'[l].seen = calls[l].seen
          /\ calls'[l].todo \subseteq calls[l].todo
      BY <1>1, <1>11, <1>14
    <3> QED BY <3>1, <2>2, <1>3, <1>10 DEF FrameInv, nodeVars
  <2>3. CASE i \in 1..l /\ i # l
    <3>1. calls'[i] = calls[i] /\ FrameInv(i)
      BY <2>3, <1>1, <1>14 DEF CascadeInv
    <3> QED BY <3>1, <1>10 DEF FrameInv, nodeVars
  <2> QED BY <2>1, <2>2, <2>3, <1>15
<1>19. ASSUME NEW k \in Kinds PROVE KindInv(k)'
  BY <1>10 DEF KindInv, CascadeInv, nodeVars
<1> QED BY <1>10, <1>17, <1>18, <1>19 DEF CascadeInv, NoReentrancyFault


LEMMA CallStepLayered ==
  ASSUME NEW rank \in [Kinds -> 0..(MaxDepth - 1)], LayeredBy(rank),
         TypeOK, CascadeInv(rank), CallStep
  PROVE  CascadeInv(rank)'
<1>0. rank \in [Kinds -> Nat]
  BY DEF LayeredBy
<1>1. ASSUME Fail("assert") PROVE CascadeInv(rank)'
  BY <1>1, KeptLayered DEF Fail, nodeVars
<1>2. CASE BindReturn
  <2>1. calls # <<>>
    BY <1>2 DEF BindReturn, Running
  <2>2. Fail("assert") \/ (Return /\ UNCHANGED <<stack, isBound, fault>>)
    BY <1>2 DEF BindReturn
  <2> QED BY <2>1, <2>2, <1>1, ReturnLayered
<1>3. CASE UnbindReturn
  <2>1. calls # <<>>
    BY <1>3 DEF UnbindReturn, Running
  <2>2. Fail("assert") \/ (Return /\ UNCHANGED <<stack, isBound, fault>>)
    BY <1>3 DEF UnbindReturn
  <2> QED BY <2>1, <2>2, <1>1, ReturnLayered
<1> QED BY <1>0, <1>2, <1>3, DeliverLayered, BindEnterLayered, BindPushLayered,
           UnbindEnterLayered, UnbindEraseLayered DEF CallStep

(* The metatypes of a new world are empty. *)
LEMMA ReplaceSceneLayered ==
  ASSUME NEW rank, TypeOK, CascadeInv(rank), ReplaceScene
  PROVE  CascadeInv(rank)'
<1>1. CASE viewpoints # {}
  <2>1. UNCHANGED <<stack, isBound, calls>> /\ fault' = "assert"
    BY <1>1 DEF ReplaceScene, Fail, nodeVars
  <2> QED BY <2>1, KeptLayered
<1>2. CASE viewpoints = {}
  <2>1. /\ stack' = [k \in Kinds |-> <<>>] /\ isBound' = [n \in Nodes |-> FALSE]
        /\ calls' = calls /\ calls = <<>> /\ fault' = fault
    BY <1>2 DEF ReplaceScene, Idle
  <2>2. ASSUME NEW k \in Kinds PROVE KindInv(k)'
    <3>1. stack'[k] = <<>> /\ \A n \in Nodes : ~isBound'[n]
      BY <2>1
    <3>2. DOMAIN stack'[k] = {}
      BY <3>1
    <3> QED BY <3>1, <3>2 DEF KindInv
  <2>3. DOMAIN calls' = {}
    BY <2>1
  <2> QED BY <2>1, <2>2, <2>3 DEF CascadeInv, CallsAscend, NoReentrancyFault
<1> QED BY <1>1, <1>2

LEMMA WorldStepLayered ==
  ASSUME NEW rank \in [Kinds -> Nat], TypeOK, CascadeInv(rank), WorldStep
  PROVE  CascadeInv(rank)'
<1>0. fault' = fault => fault' \notin {"iterator", "overflow"}
  BY DEF CascadeInv, NoReentrancyFault
<1>1. CASE InitializeNode \/ FindInitialViewpoint \/ StartWorld \/ BeginShutdown
  <2>1. UNCHANGED <<stack, isBound, calls, fault>>
    BY <1>1 DEF InitializeNode, FindInitialViewpoint, StartWorld, BeginShutdown, nodeVars
  <2> QED BY <2>1, <1>0, KeptLayered
<1>2. ASSUME NEW k \in Kinds, InitializeMetatype(k) PROVE CascadeInv(rank)'
  <2>1. UNCHANGED <<stack, isBound, fault>> /\ Idle
    BY <1>2 DEF InitializeMetatype, nodeVars
  <2>2. CASE first[k] = NoNode
    <3>1. UNCHANGED calls
      BY <2>2, <1>2 DEF InitializeMetatype
    <3> QED BY <3>1, <2>1, <1>0, KeptLayered
  <2>3. CASE first[k] # NoNode
    <3>1. first[k] \in Nodes /\ calls' = Append(calls, Call("bind", first[k], FALSE))
      BY <2>3, <1>2 DEF InitializeMetatype, TypeOK
    <3> QED BY <3>1, <2>1, FirstCallLayered
  <2> QED BY <2>2, <2>3
<1>3. ASSUME NEW n \in Nodes, NEW value \in BOOLEAN, SetBind(n, value)
      PROVE  CascadeInv(rank)'
  <2>1. UNCHANGED <<stack, isBound, fault>> /\ Idle
    BY <1>3 DEF SetBind, nodeVars
  <2>2. PICK op \in {"bind", "unbind"} : calls' = Append(calls, Call(op, n, FALSE))
    BY <1>3 DEF SetBind
  <2> QED BY <2>1, <2>2, FirstCallLayered
<1>4. CASE ShutdownNode
  <2>1. UNCHANGED <<stack, isBound, fault>> /\ Idle
    BY <1>4 DEF ShutdownNode, nodeVars
  <2>2. CASE World[at + 1] \notin scene
    <3>1. UNCHANGED calls
      BY <2>2, <1>4 DEF ShutdownNode
    <3> QED BY <3>1, <2>1, <1>0, KeptLayered
  <2>3. CASE World[at + 1] \in scene
    <3>1. World[at + 1] \in Nodes
      BY <2>3 DEF TypeOK
    <3>2. calls' = Append(calls, Call("unbind", World[at + 1], TRUE))
      BY <2>3, <1>4 DEF ShutdownNode
    <3> QED BY <3>1, <3>2, <2>1, FirstCallLayered
  <2> QED BY <2>2, <2>3
<1> QED BY <1>1, <1>2, <1>3, <1>4, ReplaceSceneLayered DEF WorldStep

LEMMA LayeredInit ==
  ASSUME NEW rank, Init
  PROVE  CascadeInv(rank)
<1>1. /\ stack = [k \in Kinds |-> <<>>] /\ isBound = [n \in Nodes |-> FALSE]
      /\ calls = <<>> /\ fault = "none"
  BY DEF Init
<1>2. DOMAIN calls = {}
  BY <1>1
<1>3. ASSUME NEW k \in Kinds PROVE KindInv(k)
  <2>1. DOMAIN stack[k] = {} /\ \A n \in Nodes : ~isBound[n]
    BY <1>1
  <2> QED BY <2>1 DEF KindInv
<1> QED BY <1>1, <1>2, <1>3 DEF CascadeInv, CallsAscend, NoReentrancyFault

LEMMA LayeredStep ==
  ASSUME NEW rank \in [Kinds -> 0..(MaxDepth - 1)], LayeredBy(rank),
         TypeOK, CascadeInv(rank), [Next]_vars
  PROVE  CascadeInv(rank)'
<1>0. rank \in [Kinds -> Nat]
  BY DEF LayeredBy
<1>1. CASE UNCHANGED vars
  <2>1. UNCHANGED <<stack, isBound, calls, fault>>
    BY <1>1 DEF vars, nodeVars
  <2> QED BY <2>1, KeptLayered DEF CascadeInv, NoReentrancyFault
<1> QED BY <1>0, <1>1, CallStepLayered, WorldStepLayered DEF Next, Halted

-----------------------------------------------------------------------------
(* What the invariant gives. *)

LEMMA LayeredSafe ==
  ASSUME NEW rank, TypeOK, CascadeInv(rank)
  PROVE  NoDuplicates /\ OnlyActiveIsBound /\ NoReentrancyFault
<1>1. NoDuplicates
  BY DEF CascadeInv, KindInv, NoDuplicates
<1>2. OnlyActiveIsBound
  BY NodesAssumption DEF CascadeInv, KindInv, OnlyActiveIsBound
<1> QED BY <1>1, <1>2 DEF CascadeInv

(***************************************************************************)
(* With layered routes the inductive invariant holds in every reachable    *)
(* state: no callback ever touches the stack that a call in progress works *)
(* on (bound_node_stack::bind and unbind, event_emitter::emit_event).      *)
(***************************************************************************)
THEOREM CascadesAreIsolated ==
  ASSUME NEW rank \in [Kinds -> 0..(MaxDepth - 1)], LayeredBy(rank)
  PROVE  Spec => []CascadeInv(rank)
<1>1. Init => CascadeInv(rank)
  BY LayeredInit
<1>2. TypeOK /\ CascadeInv(rank) /\ [Next]_vars => CascadeInv(rank)'
  BY LayeredStep
<1> QED BY <1>1, <1>2, TypeCorrect, PTL DEF Spec

LEMMA LayeredAlwaysSafe ==
  ASSUME Layered
  PROVE  Spec => [](NoDuplicates /\ OnlyActiveIsBound /\ NoReentrancyFault)
<1>1. PICK rank \in [Kinds -> 0..(MaxDepth - 1)] : LayeredBy(rank)
  BY DEF Layered
<1>2. Spec => []CascadeInv(rank)
  BY <1>1, CascadesAreIsolated
<1>3. TypeOK /\ CascadeInv(rank) => NoDuplicates /\ OnlyActiveIsBound /\ NoReentrancyFault
  BY LayeredSafe
<1> QED BY <1>2, <1>3, TypeCorrect, PTL

(* With layered routes no node is ever on its stack twice, in the middle   *)
(* of a cascade either (bound_node_stack::bind erases it before it pushes).*)
THEOREM StacksHaveNoDuplicates ==
  ASSUME Layered PROVE Spec => []NoDuplicates
BY LayeredAlwaysSafe, PTL

(* With layered routes a node that has reported isBound TRUE, and not yet  *)
(* FALSE, is the active one of its metatype, at every step of a cascade.   *)
THEOREM BoundNodesAreActive ==
  ASSUME Layered PROVE Spec => []OnlyActiveIsBound
BY LayeredAlwaysSafe, PTL

(* With layered routes no cascade invalidates the iterator that unbind     *)
(* holds across its callback, and as many calls as there are ranks fit on  *)
(* the thread's stack.                                                     *)
THEOREM CascadesAreBounded ==
  ASSUME Layered PROVE Spec => []NoReentrancyFault
BY LayeredAlwaysSafe, PTL

-----------------------------------------------------------------------------
(* What the cascades leave behind: the browser's active viewpoint and      *)
(* navigation info are the tops of their stacks, nothing points to a node  *)
(* that was shut down, shutting the world down empties it, and each stack  *)
(* is changed only by what bound_node_stack promises of binding and        *)
(* unbinding (BindingStack).                                               *)

(***************************************************************************)
(* What a call knows of its metatype's stack s, besides FrameInv: seen is  *)
(* the stack the call found, which lost the node, if it was there; a node  *)
(* that has been unbound is gone.                                          *)
(***************************************************************************)
Gone(n, s) == \A j \in DOMAIN s : s[j] # n

LostFrom(n, s, seen) ==
  \/ s = seen /\ Gone(n, seen)
  \/ \E p \in 1..Len(seen) : seen[p] = n /\ s = RemoveAt(seen, p)

CallInv(i) ==
  LET c == calls[i]
      s == stack[KindOf[c.node]]
  IN  /\ c.op = "bind" /\ c.pc = "change" => LostFrom(c.node, s, c.seen)
      /\ c.op = "unbind" /\ c.pc = "return" => Gone(c.node, s)

(***************************************************************************)
(* The nodes on a stack that the browser follows are nodes of the scene;   *)
(* only the one that a call has just pushed is yet to be asserted to be.   *)
(***************************************************************************)
JustPushed(n) ==
  \E j \in DOMAIN calls :
    calls[j].op = "bind" /\ calls[j].pc = "return" /\ calls[j].node = n

StackInScene(k) == \A i \in DOMAIN stack[k] : stack[k][i] \in scene \/ JustPushed(stack[k][i])

Top(k) == IF stack[k] = <<>> THEN Default ELSE Last(stack[k])

Follows(k) == InCall(k) \/ active[k] = Top(k)

(* first and viewpoint_list_ are nodes of the scene at every step. *)
ListsInScene ==
  /\ \A k \in Kinds : first[k] \in scene \cup {NoNode}
  /\ viewpoints = {n \in scene : KindOf[n] = "Viewpoint"}

(***************************************************************************)
(* scene::shutdown has yet to come to every node that is left in the       *)
(* scene, but for the one it is unbinding.                                 *)
(***************************************************************************)
ShuttingDown(n) ==
  1 \in DOMAIN calls /\ calls[1].op = "unbind" /\ calls[1].shutdown /\ calls[1].node = n

ShutdownInv ==
  /\ \A n \in scene : \E j \in 1..Len(World) : World[j] = n
  /\ phase = "shutdown" =>
       \A n \in scene : ShuttingDown(n) \/ \E j \in (at + 1)..Len(World) : World[j] = n

ActiveInv ==
  /\ \A i \in DOMAIN calls : CallInv(i)
  /\ \A k \in Kinds : Tracked(k) => StackInScene(k) /\ Follows(k)
  /\ ListsInScene
  /\ ShutdownInv

-----------------------------------------------------------------------------
(* The calls in progress belong to different metatypes. *)
LEMMA OneCallPerKind ==
  ASSUME NEW rank \in [Kinds -> Nat], TypeOK, CascadeInv(rank),
         NEW i \in DOMAIN calls, NEW j \in DOMAIN calls,
         KindOf[calls[i].node] = KindOf[calls[j].node]
  PROVE  i = j
<1>1. i \in 1..Len(calls) /\ j \in 1..Len(calls) /\ Len(calls) \in Nat
  BY LenProperties DEF TypeOK
<1>2. calls[i] \in Frame /\ calls[j] \in Frame
  BY <1>1, ElementOfSeq DEF TypeOK
<1>3. rank[KindOf[calls[i].node]] \in Nat
  BY <1>2, NodesAssumption DEF Frame
<1>4. ~(i < j) /\ ~(j < i)
  BY <1>3 DEF CascadeInv, CallsAscend
<1> QED BY <1>1, <1>4

(* Every call in progress is one of 1..Len(calls), and of a known node. *)
LEMMA CallsTyped ==
  ASSUME TypeOK
  PROVE  /\ DOMAIN calls = 1..Len(calls) /\ Len(calls) \in Nat
         /\ \A i \in DOMAIN calls : /\ calls[i] \in Frame
                                    /\ calls[i].node \in Nodes
                                    /\ KindOf[calls[i].node] \in Kinds
<1>1. DOMAIN calls = 1..Len(calls) /\ Len(calls) \in Nat
  BY LenProperties DEF TypeOK
<1>2. ASSUME NEW i \in DOMAIN calls PROVE calls[i] \in Frame
  BY <1>1, ElementOfSeq DEF TypeOK
<1> QED BY <1>1, <1>2, NodesAssumption DEF Frame

(* A node on a metatype's stack is one of its nodes. *)
LEMMA StackOfKind ==
  ASSUME NEW rank, TypeOK, CascadeInv(rank), NEW k \in Kinds, NEW i \in DOMAIN stack[k]
  PROVE  stack[k][i] \in Nodes /\ KindOf[stack[k][i]] = k
<1>1. KindOf[stack[k][i]] = k
  BY DEF CascadeInv, KindInv
<1>2. stack[k] \in Seq(Nodes)
  BY DEF TypeOK
<1>3. stack[k][i] \in Nodes
  BY <1>2, ElementOfSeq, LenProperties
<1> QED BY <1>1, <1>3

(* What a step keeps of a stack that it does not change. *)
LEMMA StackInSceneKept ==
  ASSUME NEW k \in Kinds, StackInScene(k), stack'[k] = stack[k],
         \A i \in DOMAIN stack[k] :
           /\ stack[k][i] \in scene => stack[k][i] \in scene'
           /\ JustPushed(stack[k][i]) => JustPushed(stack[k][i])' \/ stack[k][i] \in scene'
  PROVE  StackInScene(k)'
BY DEF StackInScene

LEMMA FollowsKept ==
  ASSUME NEW k, Follows(k), stack'[k] = stack[k], active'[k] = active[k],
         InCall(k) => InCall(k)'
  PROVE  Follows(k)'
BY DEF Follows, Top

LEMMA ListsKept ==
  ASSUME ListsInScene, UNCHANGED <<first, viewpoints, scene>>
  PROVE  ListsInScene'
BY DEF ListsInScene

LEMMA ShutdownKept ==
  ASSUME ShutdownInv, UNCHANGED <<scene, phase, at>>,
         \A n : ShuttingDown(n) => ShuttingDown(n)'
  PROVE  ShutdownInv'
BY DEF ShutdownInv

(***************************************************************************)
(* The running call goes on, and changes at most its metatype's stack.     *)
(***************************************************************************)
LEMMA HereActive ==
  ASSUME NEW rank \in [Kinds -> Nat], TypeOK, CascadeInv(rank), ActiveInv, calls # <<>>,
         NEW pc \in {"enter", "change", "return"}, NEW todo \in SUBSET Routes,
         Resume(pc, todo),
         NEW here, here = KindHere, NEW l, l = Len(calls),
         \A k \in Kinds \ {here} : stack'[k] = stack[k],
         UNCHANGED <<first, active, viewpoints, scene, phase, at>>,
         CallInv(l)', Tracked(here) => StackInScene(here)'
  PROVE  ActiveInv'
<1>1. /\ calls' \in Seq(Frame) /\ Len(calls') = l /\ l \in 1..l
      /\ \A i \in 1..l : calls'[i] = IF i = l THEN Last(calls') ELSE calls[i]
      /\ Last(calls') = [Current EXCEPT !.pc = pc, !.todo = todo, !.seen = Remembered(pc)]
      /\ Current = calls[l] /\ here = KindOf[calls[l].node] /\ Current \in Frame
      /\ here \in Kinds
  <2>1. /\ Current = calls[Len(calls)] /\ Current \in Frame
        /\ Len(calls) \in 1..Len(calls) /\ here = KindOf[Current.node] /\ here \in Kinds
    BY CurrentTyped DEF KindHere
  <2> QED BY <2>1, ResumeProperties
<1>2. DOMAIN calls' = 1..l /\ DOMAIN calls = 1..l
  BY <1>1, LenProperties, CallsTyped
<1>3. \A i \in 1..l : /\ i # l => calls'[i] = calls[i]
                      /\ calls'[i].node = calls[i].node /\ calls'[i].op = calls[i].op
                      /\ calls'[i].shutdown = calls[i].shutdown
  BY <1>1 DEF Frame
<1>4. \A i \in 1..l : /\ calls[i].node \in Nodes /\ KindOf[calls[i].node] \in Kinds
                      /\ i # l => KindOf[calls[i].node] # here
  BY <1>1, <1>2, CallsTyped, OneCallPerKind
<1>5. ASSUME NEW i \in DOMAIN calls' PROVE CallInv(i)'
  <2>1. CASE i = l
    BY <2>1
  <2>2. CASE i # l
    <3>1. calls'[i] = calls[i] /\ stack'[KindOf[calls[i].node]] = stack[KindOf[calls[i].node]]
      BY <2>2, <1>2, <1>3, <1>4
    <3> QED BY <3>1, <1>2 DEF ActiveInv, CallInv
  <2> QED BY <2>1, <2>2
<1>6. ASSUME NEW k \in Kinds PROVE InCall(k)' <=> InCall(k)
  BY <1>2, <1>3 DEF InCall
<1>7. InCall(here)'
  BY <1>1, <1>2, <1>3 DEF InCall
<1>8. ASSUME NEW k \in Kinds, Tracked(k) PROVE StackInScene(k)' /\ Follows(k)'
  <2>1. CASE k = here
    BY <2>1, <1>7, <1>8 DEF Follows
  <2>2. CASE k # here
    <3>1. stack'[k] = stack[k] /\ active' = active /\ StackInScene(k) /\ Follows(k)
      BY <2>2, <1>8 DEF ActiveInv
    <3>2. ASSUME NEW i \in DOMAIN stack[k], JustPushed(stack[k][i])
          PROVE  JustPushed(stack[k][i])'
      <4>1. PICK j \in DOMAIN calls : /\ calls[j].op = "bind" /\ calls[j].pc = "return"
                                      /\ calls[j].node = stack[k][i]
        BY <3>2 DEF JustPushed
      <4>2. KindOf[calls[j].node] # here
        BY <4>1, <2>2, StackOfKind
      <4>3. calls'[j] = calls[j]
        BY <4>2, <1>1, <1>2, <1>3
      <4> QED BY <4>1, <4>3, <3>1, <1>2 DEF JustPushed
    <3> QED BY <3>1, <3>2, <1>6, StackInSceneKept, FollowsKept
  <2> QED BY <2>1, <2>2
<1>9. ListsInScene'
  BY ListsKept DEF ActiveInv
<1>10. ASSUME NEW n, ShuttingDown(n) PROVE ShuttingDown(n)'
  BY <1>2, <1>3, <1>10 DEF ShuttingDown
<1>11. ShutdownInv'
  BY <1>10, ShutdownKept DEF ActiveInv
<1> QED BY <1>5, <1>8, <1>9, <1>11 DEF ActiveInv

-----------------------------------------------------------------------------
(* What each step of a call does to its stack. *)

(* A stack that has lost a node has no other nodes than before. *)
LEMMA LostElements ==
  ASSUME NEW S, NEW seen \in Seq(S), NEW n, NEW s, LostFrom(n, s, seen)
  PROVE  /\ s \in Seq(S)
         /\ \A i \in DOMAIN s : \E j \in DOMAIN seen : s[i] = seen[j]
<1>1. CASE s = seen
  BY <1>1
<1>2. CASE s # seen
  <2>1. PICK p \in 1..Len(seen) : s = RemoveAt(seen, p)
    BY <1>2 DEF LostFrom
  <2>2. /\ s \in Seq(S) /\ Len(s) = Len(seen) - 1
        /\ \A j \in 1..(Len(seen) - 1) : s[j] = IF j < p THEN seen[j] ELSE seen[j + 1]
    BY <2>1, RemoveAtProperties
  <2>3. /\ DOMAIN s = 1..(Len(seen) - 1) /\ DOMAIN seen = 1..Len(seen)
        /\ Len(seen) \in Nat
    BY <2>2, LenProperties
  <2>4. ASSUME NEW i \in DOMAIN s
        PROVE  i \in DOMAIN seen /\ i + 1 \in DOMAIN seen
    BY <2>3
  <2> QED BY <2>2, <2>3, <2>4
<1> QED BY <1>1, <1>2

LEMMA BindEnterEffect ==
  ASSUME NEW rank, TypeOK, CascadeInv(rank), BindEnter
  PROVE  \E pc \in {"change", "return"}, todo \in SUBSET Routes :
           /\ Resume(pc, todo)
           /\ \A k \in Kinds \ {KindHere} : stack'[k] = stack[k]
           /\ pc = "return" => stack'[KindHere] = stack[KindHere]
           /\ pc = "change" => LostFrom(Current.node, stack'[KindHere], stack[KindHere])
<1>1. calls # <<>>
  BY DEF BindEnter, Running
<1>2. PICK k \in Kinds, n \in Nodes : k = KindHere /\ n = Current.node /\ KindOf[n] = k
  BY <1>1, CurrentTyped DEF KindHere
<1>3. stack[k] \in Seq(Nodes)
  BY DEF TypeOK
<1>4. CASE stack[k] # <<>> /\ Last(stack[k]) = n
  <2>1. stack' = stack /\ Resume("return", {})
    BY <1>2, <1>4 DEF BindEnter, GoTo
  <2> QED BY <2>1, <1>2
<1>5. CASE ~(stack[k] # <<>> /\ Last(stack[k]) = n)
  <2>1. PICK s : s = IF OnStack(n) THEN Erase(n, stack[k]) ELSE stack[k]
    OBVIOUS
  <2>2. /\ stack' = [stack EXCEPT ![k] = s]
        /\ IF s = <<>>
           THEN GoTo("change") /\ UNCHANGED isBound
           ELSE NodeBind(Last(s), FALSE, "change")
    BY <2>1, <1>2, <1>5 DEF BindEnter
  <2>3. stack'[k] = s /\ \A j \in Kinds \ {k} : stack'[j] = stack[j]
    BY <2>2 DEF TypeOK
  <2>4. LostFrom(n, s, stack[k])
    <3>1. CASE OnStack(n)
      <4>1. /\ PositionOf(n, stack[k]) \in 1..Len(stack[k])
            /\ stack[k][PositionOf(n, stack[k])] = n
        BY <3>1, <1>2, <1>3, PositionOfProperties DEF OnStack
      <4> QED BY <4>1, <3>1, <2>1 DEF Erase, LostFrom
    <3>2. CASE ~OnStack(n)
      BY <3>2, <2>1, <1>2 DEF OnStack, LostFrom, Gone
    <3> QED BY <3>1, <3>2
  <2>5. \E todo \in SUBSET Routes : Resume("change", todo)
    BY <2>2 DEF GoTo, NodeBind, Listeners
  <2> QED BY <2>3, <2>4, <2>5, <1>2
<1> QED BY <1>4, <1>5

LEMMA BindPushEffect ==
  ASSUME TypeOK, BindPush
  PROVE  \E todo \in SUBSET Routes :
           /\ Resume("return", todo)
           /\ \A k \in Kinds \ {KindHere} : stack'[k] = stack[k]
           /\ stack'[KindHere] = Append(stack[KindHere], Current.node)
<1>1. KindHere \in Kinds
  BY CurrentTyped DEF BindPush, Running
<1>2. stack' = [stack EXCEPT ![KindHere] = Append(@, Current.node)]
  BY DEF BindPush
<1>3. Resume("return", Listeners(Current.node)) /\ Listeners(Current.node) \in SUBSET Routes
  BY DEF BindPush, NodeBind, Listeners
<1> QED BY <1>1, <1>2, <1>3 DEF TypeOK

LEMMA UnbindEnterEffect ==
  ASSUME TypeOK, UnbindEnter
  PROVE  \E pc \in {"change", "return"}, todo \in SUBSET Routes :
           /\ Resume(pc, todo)
           /\ stack' = stack
           /\ pc = "return" => Gone(Current.node, stack[KindHere])
<1>1. CASE OnStack(Current.node)
  <2>1. Resume("change", Listeners(Current.node)) /\ stack' = stack
    BY <1>1 DEF UnbindEnter, NodeBind
  <2> QED BY <2>1 DEF Listeners
<1>2. CASE ~OnStack(Current.node)
  <2>1. Resume("return", {}) /\ stack' = stack
    BY <1>2 DEF UnbindEnter, GoTo
  <2>2. Gone(Current.node, stack[KindHere])
    BY <1>2 DEF OnStack, Gone, KindHere
  <2> QED BY <2>1, <2>2
<1> QED BY <1>1, <1>2

LEMMA UnbindEraseEffect ==
  ASSUME NEW rank, TypeOK, CascadeInv(rank), UnbindErase
  PROVE  /\ UNCHANGED <<first, active, viewpoints, scene, phase, at>>
         /\ \E p \in 1..Len(stack[KindHere]), todo \in SUBSET Routes :
              /\ stack[KindHere][p] = Current.node
              /\ Resume("return", todo)
              /\ \A k \in Kinds \ {KindHere} : stack'[k] = stack[k]
              /\ stack'[KindHere] = RemoveAt(stack[KindHere], p)
              /\ Gone(Current.node, stack'[KindHere])
<1>1. calls # <<>> /\ Current.op = "unbind" /\ Current.pc = "change"
  BY DEF UnbindErase, Running, Current
<1>2. PICK k \in Kinds, n \in Nodes, l \in Nat :
        k = KindHere /\ n = Current.node /\ l = Len(calls) /\ KindOf[n] = k
  BY <1>1, CurrentTyped, LenProperties DEF TypeOK, KindHere
<1>3. PICK s \in Seq(Nodes) : s = stack[k]
  BY <1>2 DEF TypeOK
<1>4. KindInv(k) /\ l \in DOMAIN calls /\ Current = calls[l] /\ FrameInv(l)
  BY <1>1, <1>2, CurrentTyped, LenProperties DEF CascadeInv, TypeOK
<1>5. /\ \A i, j \in DOMAIN s : s[i] = s[j] => i = j
      /\ s = Current.seen /\ \E i \in DOMAIN s : s[i] = n
  BY <1>1, <1>2, <1>3, <1>4 DEF KindInv, FrameInv
<1>6. PICK rest :
        /\ rest = Erase(n, s)
        /\ stack' = [stack EXCEPT ![k] = rest]
        /\ IF Last(s) = n /\ Len(rest) > 1
           THEN NodeBind(Last(rest), TRUE, "return")
           ELSE GoTo("return") /\ UNCHANGED isBound
        /\ UNCHANGED <<first, active, viewpoints, scene, worldVars, fault>>
  BY <1>2, <1>3, <1>5 DEF UnbindErase, Erase
<1>7. /\ PositionOf(n, s) \in 1..Len(s) /\ s[PositionOf(n, s)] = n
      /\ rest = RemoveAt(s, PositionOf(n, s))
  BY <1>5, <1>6, PositionOfProperties DEF Erase
<1>8. \A i \in DOMAIN rest : rest[i] # n
  BY <1>5, <1>6, EraseProperties
<1>9. stack'[k] = rest /\ \A j \in Kinds \ {k} : stack'[j] = stack[j]
  BY <1>6 DEF TypeOK
<1>10. \E todo \in SUBSET Routes : Resume("return", todo)
  BY <1>6 DEF GoTo, NodeBind, Listeners
<1> QED BY <1>2, <1>3, <1>6, <1>7, <1>8, <1>9, <1>10 DEF Gone, worldVars

-----------------------------------------------------------------------------
(* The steps of a call keep the invariant. *)

(* Unless the running call has just pushed its node, no call has pushed    *)
(* one of the running call's metatype: its whole stack is in the scene.    *)
LEMMA HereInScene ==
  ASSUME NEW rank \in [Kinds -> Nat], TypeOK, CascadeInv(rank), ActiveInv, calls # <<>>,
         Tracked(KindHere), ~(Current.op = "bind" /\ Current.pc = "return"),
         NEW i \in DOMAIN stack[KindHere]
  PROVE  stack[KindHere][i] \in scene
<1>1. /\ KindHere \in Kinds /\ Len(calls) \in DOMAIN calls
      /\ Current = calls[Len(calls)] /\ KindHere = KindOf[calls[Len(calls)].node]
  BY CurrentTyped, CallsTyped DEF KindHere
<1>2. StackInScene(KindHere)
  BY <1>1 DEF ActiveInv
<1>3. ASSUME JustPushed(stack[KindHere][i]) PROVE FALSE
  <2>1. PICK j \in DOMAIN calls : /\ calls[j].op = "bind" /\ calls[j].pc = "return"
                                  /\ calls[j].node = stack[KindHere][i]
    BY <1>3 DEF JustPushed
  <2>2. KindOf[calls[j].node] = KindHere
    BY <2>1, <1>1, StackOfKind
  <2>3. j = Len(calls)
    BY <2>2, <1>1, OneCallPerKind
  <2> QED BY <2>1, <2>3, <1>1
<1> QED BY <1>2, <1>3 DEF StackInScene

LEMMA BindEnterActive ==
  ASSUME NEW rank \in [Kinds -> Nat], TypeOK, CascadeInv(rank), ActiveInv, BindEnter
  PROVE  ActiveInv'
<1>1. /\ calls # <<>> /\ Current.op = "bind" /\ Current.pc = "enter"
      /\ UNCHANGED <<first, active, viewpoints, scene, phase, at>>
  BY DEF BindEnter, Running, Current, worldVars
<1>2. PICK pc \in {"change", "return"}, todo \in SUBSET Routes :
        /\ Resume(pc, todo)
        /\ \A k \in Kinds \ {KindHere} : stack'[k] = stack[k]
        /\ pc = "return" => stack'[KindHere] = stack[KindHere]
        /\ pc = "change" => LostFrom(Current.node, stack'[KindHere], stack[KindHere])
  BY BindEnterEffect
<1>3. PICK l \in DOMAIN calls, here \in Kinds :
        /\ l = Len(calls) /\ here = KindHere /\ here = KindOf[Current.node]
        /\ stack[here] \in Seq(Nodes)
  BY <1>1, CurrentTyped, CallsTyped DEF KindHere
<1>4. /\ calls'[l].op = "bind" /\ calls'[l].node = Current.node /\ calls'[l].pc = pc
      /\ calls'[l].seen = Remembered(pc)
  BY <1>1, <1>2, <1>3, HereFrame
<1>5. CallInv(l)'
  BY <1>2, <1>3, <1>4 DEF CallInv, Remembered
<1>6. \A i \in DOMAIN stack'[here] : \E j \in DOMAIN stack[here] : stack'[here][i] = stack[here][j]
  BY <1>2, <1>3, LostElements
<1>7. Tracked(here) => StackInScene(here)'
  BY <1>1, <1>3, <1>6, HereInScene DEF StackInScene
<1> QED BY <1>1, <1>2, <1>3, <1>5, <1>7, HereActive

LEMMA BindPushActive ==
  ASSUME NEW rank \in [Kinds -> Nat], TypeOK, CascadeInv(rank), ActiveInv, BindPush
  PROVE  ActiveInv'
<1>1. /\ calls # <<>> /\ Current.op = "bind" /\ Current.pc = "change"
      /\ UNCHANGED <<first, active, viewpoints, scene, phase, at>>
  BY DEF BindPush, Running, Current, worldVars
<1>2. PICK todo \in SUBSET Routes :
        /\ Resume("return", todo)
        /\ \A k \in Kinds \ {KindHere} : stack'[k] = stack[k]
        /\ stack'[KindHere] = Append(stack[KindHere], Current.node)
  BY BindPushEffect
<1>3. PICK l \in DOMAIN calls, here \in Kinds, n \in Nodes :
        /\ l = Len(calls) /\ here = KindHere /\ n = Current.node
        /\ stack[here] \in Seq(Nodes)
  BY <1>1, CurrentTyped, CallsTyped
<1>4. calls'[l].op = "bind" /\ calls'[l].node = n /\ calls'[l].pc = "return"
  BY <1>1, <1>2, <1>3, HereFrame
<1>5. CallInv(l)'
  BY <1>4 DEF CallInv
<1>6. JustPushed(n)'
  <2>1. calls' \in Seq(Frame) /\ Len(calls') = Len(calls)
    BY <1>1, <1>2, ResumeProperties
  <2>2. DOMAIN calls' = DOMAIN calls
    BY <2>1, LenProperties, CallsTyped
  <2> QED BY <2>2, <1>3, <1>4 DEF JustPushed
<1>7. ASSUME NEW i \in DOMAIN stack'[here]
      PROVE  stack'[here][i] = n \/ \E j \in DOMAIN stack[here] : stack'[here][i] = stack[here][j]
  <2>1. PICK s \in Seq(Nodes) : s = stack[here]
    BY <1>3
  <2>2. /\ stack'[here] = Append(s, n) /\ Append(s, n) \in Seq(Nodes)
        /\ Len(Append(s, n)) = Len(s) + 1 /\ Append(s, n)[Len(s) + 1] = n
        /\ \A j \in 1..Len(s) : Append(s, n)[j] = s[j]
    BY <1>2, <1>3, <2>1, AppendedCall
  <2>3. i \in 1..(Len(s) + 1) /\ DOMAIN s = 1..Len(s) /\ Len(s) \in Nat
    BY <2>1, <2>2, LenProperties
  <2>4. i = Len(s) + 1 \/ i \in 1..Len(s)
    BY <2>3
  <2> QED BY <2>1, <2>2, <2>3, <2>4
<1>8. Tracked(here) => StackInScene(here)'
  BY <1>1, <1>3, <1>6, <1>7, HereInScene DEF StackInScene
<1> QED BY <1>1, <1>2, <1>3, <1>5, <1>8, HereActive

LEMMA UnbindEnterActive ==
  ASSUME NEW rank \in [Kinds -> Nat], TypeOK, CascadeInv(rank), ActiveInv, UnbindEnter
  PROVE  ActiveInv'
<1>1. /\ calls # <<>> /\ Current.op = "unbind" /\ Current.pc = "enter"
      /\ UNCHANGED <<first, active, viewpoints, scene, phase, at>>
  BY DEF UnbindEnter, Running, Current, worldVars
<1>2. PICK pc \in {"change", "return"}, todo \in SUBSET Routes :
        /\ Resume(pc, todo)
        /\ stack' = stack
        /\ pc = "return" => Gone(Current.node, stack[KindHere])
  BY UnbindEnterEffect
<1>3. PICK l \in DOMAIN calls, here \in Kinds, n \in Nodes :
        /\ l = Len(calls) /\ here = KindHere /\ n = Current.node /\ here = KindOf[n]
  BY <1>1, CurrentTyped, CallsTyped DEF KindHere
<1>4. calls'[l].op = "unbind" /\ calls'[l].node = n /\ calls'[l].pc = pc
  BY <1>1, <1>2, <1>3, HereFrame
<1>5. CallInv(l)'
  BY <1>2, <1>3, <1>4 DEF CallInv
<1>6. Tracked(here) => StackInScene(here)'
  BY <1>1, <1>2, <1>3, HereInScene DEF StackInScene
<1> QED BY <1>1, <1>2, <1>3, <1>5, <1>6, HereActive

LEMMA UnbindEraseActive ==
  ASSUME NEW rank \in [Kinds -> Nat], TypeOK, CascadeInv(rank), ActiveInv, UnbindErase
  PROVE  ActiveInv'
<1>1. /\ calls # <<>> /\ Current.op = "unbind" /\ Current.pc = "change"
  BY DEF UnbindErase, Running, Current
<1>2. UNCHANGED <<first, active, viewpoints, scene, phase, at>>
  BY UnbindEraseEffect
<1>3. PICK p \in 1..Len(stack[KindHere]), todo \in SUBSET Routes :
        /\ stack[KindHere][p] = Current.node
        /\ Resume("return", todo)
        /\ \A k \in Kinds \ {KindHere} : stack'[k] = stack[k]
        /\ stack'[KindHere] = RemoveAt(stack[KindHere], p)
        /\ Gone(Current.node, stack'[KindHere])
  BY UnbindEraseEffect
<1>4. PICK l \in DOMAIN calls, here \in Kinds, n \in Nodes :
        /\ l = Len(calls) /\ here = KindHere /\ n = Current.node /\ here = KindOf[n]
        /\ stack[here] \in Seq(Nodes)
  BY <1>1, CurrentTyped, CallsTyped DEF KindHere
<1>5. calls'[l].op = "unbind" /\ calls'[l].node = n /\ calls'[l].pc = "return"
  BY <1>1, <1>3, <1>4, HereFrame
<1>6. CallInv(l)'
  BY <1>3, <1>4, <1>5 DEF CallInv
<1>7. \A i \in DOMAIN stack'[here] : \E j \in DOMAIN stack[here] : stack'[here][i] = stack[here][j]
  <2>1. LostFrom(n, stack'[here], stack[here])
    BY <1>3, <1>4 DEF LostFrom
  <2> QED BY <2>1, <1>4, LostElements
<1>8. Tracked(here) => StackInScene(here)'
  BY <1>1, <1>2, <1>4, <1>7, HereInScene DEF StackInScene
<1> QED BY <1>1, <1>2, <1>3, <1>4, <1>6, <1>8, HereActive

(***************************************************************************)
(* The running call returns, having told the browser of its stack; a node  *)
(* that was shut down has left it.                                         *)
(***************************************************************************)
LEMMA ReturnActive ==
  ASSUME NEW rank \in [Kinds -> Nat], TypeOK, CascadeInv(rank), ActiveInv, calls # <<>>,
         Current.pc = "return", Return, UNCHANGED <<stack, phase, at>>,
         NEW here, here = KindHere,
         \A k \in Kinds \ {here} : active'[k] = active[k],
         Tracked(here) => active'[here] = Top(here),
         IF Current.op = "unbind" /\ Current.shutdown
         THEN ForgetNode(Current.node)
         ELSE /\ UNCHANGED <<first, viewpoints, scene>>
              /\ Current.op = "bind" /\ Tracked(here) => Current.node \in scene
  PROVE  ActiveInv'
<1>1. PICK l \in DOMAIN calls, n \in Nodes :
        /\ l = Len(calls) /\ n = Current.node /\ here = KindOf[n] /\ here \in Kinds
        /\ Current = calls[l]
  BY CurrentTyped, CallsTyped DEF KindHere
<1>2. /\ DOMAIN calls' = 1..(l - 1) /\ DOMAIN calls = 1..l /\ l \in Nat
      /\ \A i \in 1..(l - 1) : calls'[i] = calls[i]
  <2>1. /\ calls' \in Seq(Frame) /\ Len(calls') = Len(calls) - 1
        /\ \A i \in 1..(Len(calls) - 1) : calls'[i] = calls[i]
    BY ReturnTyped
  <2> QED BY <2>1, <1>1, LenProperties, CallsTyped
<1>3. /\ 1..(l - 1) \subseteq 1..l /\ l \notin 1..(l - 1)
      /\ \A j \in 1..l : j # l => j \in 1..(l - 1)
      /\ l # 1 => 1 \in 1..(l - 1)
  BY <1>1, <1>2
<1>4. ASSUME NEW i \in DOMAIN calls' PROVE CallInv(i)'
  BY <1>2, <1>3 DEF ActiveInv, CallInv
<1>5. ASSUME NEW k \in Kinds, NEW i \in DOMAIN stack[k], stack[k][i] \in scene
      PROVE  stack[k][i] \in scene'
  <2>1. CASE Current.op = "unbind" /\ Current.shutdown
    <3>1. Gone(n, stack[here])
      BY <2>1, <1>1 DEF ActiveInv, CallInv
    <3>2. stack[k][i] # n
      BY <3>1, <1>1, StackOfKind DEF Gone
    <3> QED BY <3>2, <2>1, <1>1, <1>5 DEF ForgetNode
  <2>2. CASE ~(Current.op = "unbind" /\ Current.shutdown)
    BY <2>2, <1>5
  <2> QED BY <2>1, <2>2
<1>6. ASSUME NEW k \in Kinds, Tracked(k), NEW i \in DOMAIN stack[k], JustPushed(stack[k][i])
      PROVE  JustPushed(stack[k][i])' \/ stack[k][i] \in scene'
  <2>1. PICK j \in DOMAIN calls : /\ calls[j].op = "bind" /\ calls[j].pc = "return"
                                  /\ calls[j].node = stack[k][i]
    BY <1>6 DEF JustPushed
  <2>2. CASE j = l
    <3>1. stack[k][i] = n /\ k = here
      BY <2>1, <2>2, <1>1, StackOfKind
    <3> QED BY <3>1, <2>1, <2>2, <1>1, <1>6
  <2>3. CASE j # l
    <3>1. j \in DOMAIN calls' /\ calls'[j] = calls[j]
      BY <2>3, <1>2, <1>3
    <3>2. stack'[k][i] = stack[k][i]
      OBVIOUS
    <3> QED BY <3>1, <3>2, <2>1 DEF JustPushed
  <2> QED BY <2>2, <2>3
<1>7. ASSUME NEW k \in Kinds, Tracked(k) PROVE StackInScene(k)' /\ Follows(k)'
  <2>1. StackInScene(k) /\ Follows(k)
    BY <1>7 DEF ActiveInv
  <2>2. StackInScene(k)'
    BY <2>1, <1>5, <1>6, <1>7, StackInSceneKept
  <2>3. CASE k = here
    BY <2>2, <2>3, <1>7 DEF Follows, Top
  <2>4. CASE k # here
    <3>1. ASSUME InCall(k) PROVE InCall(k)'
      <4>1. PICK j \in DOMAIN calls : KindOf[calls[j].node] = k
        BY <3>1 DEF InCall
      <4>2. j # l
        BY <4>1, <2>4, <1>1
      <4>3. j \in DOMAIN calls' /\ calls'[j] = calls[j]
        BY <4>2, <1>2, <1>3
      <4> QED BY <4>1, <4>3 DEF InCall
    <3> QED BY <3>1, <2>1, <2>2, <2>4, FollowsKept
  <2> QED BY <2>3, <2>4
<1>8. ListsInScene'
  <2>1. CASE Current.op = "unbind" /\ Current.shutdown
    <3>1. /\ viewpoints' = viewpoints \ {n} /\ scene' = scene \ {n}
          /\ first' = [k \in Kinds |-> IF first[k] = n THEN NoNode ELSE first[k]]
      BY <2>1, <1>1 DEF ForgetNode
    <3> QED BY <3>1 DEF ActiveInv, ListsInScene
  <2>2. CASE ~(Current.op = "unbind" /\ Current.shutdown)
    BY <2>2, ListsKept DEF ActiveInv
  <2> QED BY <2>1, <2>2
<1>9. ASSUME NEW m \in scene', ShuttingDown(m) PROVE ShuttingDown(m)'
  <2>1. l # 1
    <3>1. ASSUME l = 1 PROVE FALSE
      <4>1. Current.op = "unbind" /\ Current.shutdown /\ m = n
        BY <3>1, <1>1, <1>9 DEF ShuttingDown
      <4>2. scene' = scene \ {n}
        BY <4>1, <1>1 DEF ForgetNode
      <4> QED BY <4>1, <4>2, <1>9
    <3> QED BY <3>1
  <2> QED BY <2>1, <1>2, <1>3, <1>9 DEF ShuttingDown
<1>10. scene' \subseteq scene
  BY DEF ForgetNode
<1>11. ShutdownInv'
  BY <1>9, <1>10 DEF ActiveInv, ShutdownInv
<1> QED BY <1>4, <1>7, <1>8, <1>11 DEF ActiveInv

LEMMA FailedActive ==
  ASSUME ActiveInv, UNCHANGED <<nodeVars, worldVars, calls>>
  PROVE  ActiveInv'
<1> USE DEF nodeVars, worldVars
<1>1. ASSUME NEW i \in DOMAIN calls PROVE CallInv(i)'
  BY DEF ActiveInv, CallInv
<1>2. ASSUME NEW k \in Kinds, Tracked(k) PROVE StackInScene(k)' /\ Follows(k)'
  BY <1>2 DEF ActiveInv, StackInScene, JustPushed, Follows, Top, InCall
<1>3. ListsInScene' /\ ShutdownInv'
  BY DEF ActiveInv, ListsInScene, ShutdownInv, ShuttingDown
<1> QED BY <1>1, <1>2, <1>3 DEF ActiveInv

LEMMA BindReturnActive ==
  ASSUME NEW rank \in [Kinds -> Nat], TypeOK, CascadeInv(rank), ActiveInv, BindReturn
  PROVE  ActiveInv'
<1>1. /\ calls # <<>> /\ Current.op = "bind" /\ Current.pc = "return"
  BY DEF BindReturn, Running, Current
<1>2. PICK l \in DOMAIN calls, here \in Kinds :
        /\ l = Len(calls) /\ here = KindHere /\ here = KindOf[Current.node]
        /\ Current = calls[l]
  BY <1>1, CurrentTyped, CallsTyped DEF KindHere
<1>3. stack[here] # <<>> /\ Last(stack[here]) = Current.node
  BY <1>1, <1>2 DEF CascadeInv, FrameInv
<1>4. CASE Fail("assert")
  BY <1>4, FailedActive DEF Fail
<1>5. CASE /\ IF Tracked(here) THEN SetActive(here, Current.node) ELSE UNCHANGED active
           /\ Return
           /\ UNCHANGED <<stack, isBound, first, viewpoints, scene, worldVars, fault>>
  <2>1. \A k \in Kinds \ {here} : active'[k] = active[k]
    BY <1>5 DEF SetActive, TypeOK
  <2>2. Tracked(here) => active'[here] = Top(here) /\ Current.node \in scene
    BY <1>3, <1>5 DEF SetActive, TypeOK, Top
  <2> QED BY <2>1, <2>2, <1>1, <1>2, <1>5, ReturnActive DEF worldVars
<1> QED BY <1>2, <1>4, <1>5 DEF BindReturn

LEMMA UnbindReturnActive ==
  ASSUME NEW rank \in [Kinds -> Nat], TypeOK, CascadeInv(rank), ActiveInv, UnbindReturn
  PROVE  ActiveInv'
<1>1. /\ calls # <<>> /\ Current.op = "unbind" /\ Current.pc = "return"
  BY DEF UnbindReturn, Running, Current
<1>2. PICK here \in Kinds : here = KindHere /\ Current.shutdown \in BOOLEAN
  BY <1>1, CurrentTyped DEF Frame
<1>3. CASE Fail("assert")
  BY <1>3, FailedActive DEF Fail
<1>4. CASE /\ CASE ~Tracked(here) -> UNCHANGED active
                [] Tracked(here) /\ stack[here] = <<>> -> ResetDefault(here)
                [] OTHER -> SetActive(here, Last(stack[here]))
           /\ IF Current.shutdown
              THEN ForgetNode(Current.node)
              ELSE UNCHANGED <<first, viewpoints, scene>>
           /\ Return
           /\ UNCHANGED <<stack, isBound, worldVars, fault>>
  <2>1. \A k \in Kinds \ {here} : active'[k] = active[k]
    BY <1>4 DEF SetActive, ResetDefault, TypeOK
  <2>2. Tracked(here) => active'[here] = Top(here)
    BY <1>4 DEF SetActive, ResetDefault, TypeOK, Top
  <2> QED BY <2>1, <2>2, <1>1, <1>2, <1>4, ReturnActive DEF worldVars
<1> QED BY <1>2, <1>3, <1>4 DEF UnbindReturn

(***************************************************************************)
(* emit_event calls a listener: the calls in progress keep what they are   *)
(* about, and the new one is about to begin.                               *)
(***************************************************************************)
LEMMA DeliverEffect ==
  ASSUME TypeOK, NEW r \in Routes, Deliver(r)
  PROVE  /\ UNCHANGED <<nodeVars, worldVars>>
         /\ \/ UNCHANGED calls
            \/ /\ DOMAIN calls' = 1..(Len(calls) + 1)
               /\ \A i \in DOMAIN calls :
                    /\ calls'[i].op = calls[i].op /\ calls'[i].pc = calls[i].pc
                    /\ calls'[i].node = calls[i].node /\ calls'[i].seen = calls[i].seen
                    /\ calls'[i].shutdown = calls[i].shutdown
               /\ calls'[Len(calls) + 1].pc = "enter"
<1>1. CASE Len(calls) = MaxDepth
  BY <1>1 DEF Deliver, Fail
<1>2. CASE Len(calls) # MaxDepth
  <2> DEFINE rest == [Current EXCEPT !.todo = @ \ {r}]
             c == Call(IF isBound[r.from] # r.negate THEN "bind" ELSE "unbind", r.to, FALSE)
             held == [calls EXCEPT ![Len(calls)] = rest]
  <2>1. /\ calls' = Append(held, c) /\ UNCHANGED <<nodeVars, worldVars>>
        /\ calls # <<>> /\ r \in Current.todo
    BY <1>2, Zenon DEF Deliver
  <2>2. Len(calls) \in DOMAIN calls /\ Current = calls[Len(calls)] /\ Current \in Frame
    BY <2>1, CurrentTyped, CallsTyped
  <2>3. /\ rest \in Frame /\ rest.op = Current.op /\ rest.pc = Current.pc
        /\ rest.node = Current.node /\ rest.seen = Current.seen
        /\ rest.shutdown = Current.shutdown
    BY <2>2 DEF Frame
  <2>4. c \in Frame /\ c.pc = "enter"
    <3>1. c \in Frame
      BY CallTyped, NodesAssumption
    <3> QED BY <3>1 DEF Call
  <2> HIDE DEF rest, c
  <2>5. /\ held \in Seq(Frame) /\ Len(held) = Len(calls)
        /\ \A i \in 1..Len(calls) : held[i] = IF i = Len(calls) THEN rest ELSE calls[i]
    BY <2>2, <2>3, ExceptSeq, CallsTyped DEF TypeOK
  <2> HIDE DEF held
  <2>6. /\ calls' \in Seq(Frame) /\ Len(calls') = Len(calls) + 1
        /\ \A i \in 1..Len(calls) : calls'[i] = IF i = Len(calls) THEN rest ELSE calls[i]
        /\ calls'[Len(calls) + 1] = c
    BY <2>1, <2>4, <2>5, AppendedCall
  <2>7. DOMAIN calls' = 1..(Len(calls) + 1) /\ DOMAIN calls = 1..Len(calls)
    BY <2>6, LenProperties, CallsTyped
  <2> QED BY <2>1, <2>2, <2>3, <2>4, <2>6, <2>7
<1> QED BY <1>1, <1>2

LEMMA DeliverActive ==
  ASSUME TypeOK, ActiveInv, NEW r \in Routes, Deliver(r)
  PROVE  ActiveInv'
<1>1. UNCHANGED <<nodeVars, worldVars>>
  BY DeliverEffect
<1>2. CASE UNCHANGED calls
  BY <1>1, <1>2, FailedActive
<1>3. CASE /\ DOMAIN calls' = 1..(Len(calls) + 1)
           /\ \A i \in DOMAIN calls :
                /\ calls'[i].op = calls[i].op /\ calls'[i].pc = calls[i].pc
                /\ calls'[i].node = calls[i].node /\ calls'[i].seen = calls[i].seen
                /\ calls'[i].shutdown = calls[i].shutdown
           /\ calls'[Len(calls) + 1].pc = "enter"
  <2>1. /\ UNCHANGED <<stack, first, active, viewpoints, scene, phase, at>>
        /\ DOMAIN calls \subseteq DOMAIN calls'
        /\ \A i \in DOMAIN calls' : i \in DOMAIN calls \/ i = Len(calls) + 1
    BY <1>1, <1>3, CallsTyped DEF nodeVars, worldVars
  <2>2. ASSUME NEW i \in DOMAIN calls' PROVE CallInv(i)'
    BY <2>1, <1>3 DEF ActiveInv, CallInv
  <2>3. \A n : JustPushed(n) => JustPushed(n)'
    BY <2>1, <1>3 DEF JustPushed
  <2>4. \A n : ShuttingDown(n) => ShuttingDown(n)'
    BY <2>1, <1>3 DEF ShuttingDown
  <2>5. \A k \in Kinds : InCall(k) => InCall(k)'
    BY <2>1, <1>3 DEF InCall
  <2>6. ASSUME NEW k \in Kinds, Tracked(k) PROVE StackInScene(k)' /\ Follows(k)'
    BY <2>1, <2>3, <2>5, <2>6, StackInSceneKept, FollowsKept DEF ActiveInv
  <2> QED BY <2>1, <2>2, <2>4, <2>6, ListsKept, ShutdownKept DEF ActiveInv
<1> QED BY <1>2, <1>3, DeliverEffect

LEMMA CallStepActive ==
  ASSUME NEW rank \in [Kinds -> Nat], TypeOK, CascadeInv(rank), ActiveInv, CallStep
  PROVE  ActiveInv'
BY DeliverActive, BindEnterActive, BindPushActive, BindReturnActive, UnbindEnterActive,
   UnbindEraseActive, UnbindReturnActive DEF CallStep

-----------------------------------------------------------------------------
(* The steps of the world keep the invariant. *)

LEMMA IdleActive ==
  ASSUME ActiveInv, Idle, \A i \in DOMAIN calls' : calls'[i].pc = "enter",
         UNCHANGED <<stack, active>>, scene \subseteq scene',
         ListsInScene', ShutdownInv'
  PROVE  ActiveInv'
<1>1. DOMAIN calls = {}
  BY DEF Idle
<1>2. ASSUME NEW i \in DOMAIN calls' PROVE CallInv(i)'
  BY DEF CallInv
<1>3. ASSUME NEW k \in Kinds, Tracked(k) PROVE StackInScene(k)' /\ Follows(k)'
  <2>1. StackInScene(k) /\ Follows(k)
    BY <1>3 DEF ActiveInv
  <2>2. StackInScene(k)'
    BY <2>1, <1>1 DEF StackInScene, JustPushed
  <2>3. Follows(k)'
    BY <2>1, <1>1 DEF Follows, InCall, Top
  <2> QED BY <2>2, <2>3
<1> QED BY <1>2, <1>3 DEF ActiveInv

LEMMA FirstCallActive ==
  ASSUME TypeOK, ActiveInv, Idle, NEW op \in {"bind", "unbind"}, NEW n \in Nodes,
         NEW shutdown \in BOOLEAN, calls' = Append(calls, Call(op, n, shutdown)),
         UNCHANGED <<stack, first, active, viewpoints, scene>>, ShutdownInv'
  PROVE  ActiveInv'
<1>1. /\ calls' \in Seq(Frame) /\ Len(calls') = 1
      /\ calls'[1] = Call(op, n, shutdown)
  BY FirstCallTyped
<1>2. DOMAIN calls' = {1}
  BY <1>1, LenProperties
<1>3. \A i \in DOMAIN calls' : calls'[i].pc = "enter"
  BY <1>1, <1>2 DEF Call
<1>4. ListsInScene'
  BY ListsKept DEF ActiveInv
<1> QED BY <1>3, <1>4, IdleActive

(* At the end of the shutdown nothing is left in the scene. *)
LEMMA ShutdownEmpties ==
  ASSUME TypeOK, ActiveInv, Idle, phase = "shutdown", at = Len(World)
  PROVE  /\ scene = {} /\ viewpoints = {}
         /\ \A k \in Kinds : Tracked(k) => stack[k] = <<>> /\ active[k] = Default
<1>1. DOMAIN calls = {}
  BY DEF Idle
<1>2. Len(World) \in Nat
  BY NodesAssumption, LenProperties
<1>3. scene = {}
  BY <1>1, <1>2 DEF ActiveInv, ShutdownInv, ShuttingDown
<1>4. viewpoints = {}
  BY <1>3 DEF ActiveInv, ListsInScene
<1>5. ASSUME NEW k \in Kinds, Tracked(k) PROVE stack[k] = <<>> /\ active[k] = Default
  <2>1. StackInScene(k) /\ Follows(k)
    BY <1>5 DEF ActiveInv
  <2>2. DOMAIN stack[k] = {}
    BY <2>1, <1>1, <1>3 DEF StackInScene, JustPushed
  <2>3. stack[k] \in Seq(Nodes) /\ Len(stack[k]) = 0
    <3>1. stack[k] \in Seq(Nodes)
      BY DEF TypeOK
    <3>2. 1..Len(stack[k]) = {} /\ Len(stack[k]) \in Nat
      BY <2>2, <3>1, LenProperties
    <3>3. \A m \in Nat : 1..m = {} => m = 0
      <4>1. \A m \in Nat : m # 0 => m \in 1..m
        OBVIOUS
      <4> QED BY <4>1
    <3> QED BY <3>1, <3>2, <3>3
  <2>4. stack[k] = <<>>
    BY <2>3, EmptySeq
  <2> QED BY <2>1, <2>4, <1>1 DEF Follows, InCall, Top
<1> QED BY <1>3, <1>4, <1>5

LEMMA WorldStepActive ==
  ASSUME TypeOK, ActiveInv, WorldStep
  PROVE  ActiveInv'
<1>1. Len(World) \in Nat /\ \A j \in 1..Len(World) : World[j] \in Nodes
  BY NodesAssumption, LenProperties, ElementOfSeq
<1>2. Idle
  BY DEF WorldStep, InitializeNode, FindInitialViewpoint, InitializeMetatype, StartWorld,
         SetBind, BeginShutdown, ShutdownNode, ReplaceScene
<1>3. calls = <<>> /\ DOMAIN calls = {} /\ ListsInScene /\ ShutdownInv /\ at \in Nat
  BY <1>1, <1>2 DEF Idle, ActiveInv, TypeOK
<1>4. \A n : ~ShuttingDown(n)
  BY <1>3 DEF ShuttingDown
<1>5. CASE InitializeNode
  <2>1. /\ phase = "loading" /\ phase' = phase /\ calls' = calls
        /\ UNCHANGED <<stack, active>> /\ at + 1 \in 1..Len(World)
    BY <1>1, <1>3, <1>5 DEF InitializeNode
  <2>2. PICK n \in Nodes : n = World[at + 1] /\ KindOf[n] \in Kinds
    BY <1>1, <2>1, NodesAssumption
  <2>3. CASE n \in scene
    <3>1. UNCHANGED <<scene, first, viewpoints>>
      BY <2>2, <2>3, <1>5 DEF InitializeNode
    <3>2. ShutdownInv'
      BY <3>1, <2>1, <1>3 DEF ShutdownInv
    <3> QED BY <3>1, <3>2, <2>1, <1>2, <1>3, ListsKept, IdleActive
  <2>4. CASE n \notin scene
    <3>1. /\ scene' = scene \cup {n}
          /\ first' = [first EXCEPT ![KindOf[n]] = IF @ = NoNode THEN n ELSE @]
          /\ viewpoints' = IF KindOf[n] = "Viewpoint" THEN viewpoints \cup {n} ELSE viewpoints
      BY <2>2, <2>4, <1>5 DEF InitializeNode
    <3>2. ListsInScene'
      <4>1. \A k \in Kinds : first'[k] = first[k] \/ first'[k] = n
        BY <3>1 DEF TypeOK
      <4>2. \A k \in Kinds : first'[k] \in scene' \cup {NoNode}
        BY <4>1, <3>1, <1>3 DEF ListsInScene
      <4>3. viewpoints' = {m \in scene' : KindOf[m] = "Viewpoint"}
        BY <3>1, <1>3 DEF ListsInScene
      <4> QED BY <4>2, <4>3 DEF ListsInScene
    <3>3. ShutdownInv'
      BY <3>1, <2>1, <2>2, <1>3 DEF ShutdownInv
    <3> QED BY <3>1, <3>2, <3>3, <2>1, <1>2, <1>3, IdleActive
  <2> QED BY <2>3, <2>4
<1>6. CASE FindInitialViewpoint \/ StartWorld \/ BeginShutdown
  <2>1. /\ UNCHANGED <<stack, active, scene, first, viewpoints, calls>>
        /\ phase' # "shutdown" \/ at' = 0
    BY <1>6 DEF FindInitialViewpoint, StartWorld, BeginShutdown, nodeVars
  <2>2. ShutdownInv'
    <3>1. (at' = 0) => (at' + 1)..Len(World) = 1..Len(World)
      OBVIOUS
    <3> QED BY <3>1, <2>1, <1>3 DEF ShutdownInv
  <2> QED BY <2>1, <2>2, <1>2, <1>3, ListsKept, IdleActive
<1>7. ASSUME NEW k \in Kinds, InitializeMetatype(k) PROVE ActiveInv'
  <2>1. /\ UNCHANGED <<stack, active, scene, first, viewpoints, phase, at>>
    BY <1>7 DEF InitializeMetatype, nodeVars
  <2>2. ShutdownInv'
    BY <2>1, <1>3, <1>4, ShutdownKept
  <2>3. CASE first[k] = NoNode
    <3>1. calls' = calls
      BY <2>3, <1>7 DEF InitializeMetatype
    <3> QED BY <3>1, <2>1, <2>2, <1>2, <1>3, ListsKept, IdleActive
  <2>4. CASE first[k] # NoNode
    <3>1. first[k] \in Nodes /\ calls' = Append(calls, Call("bind", first[k], FALSE))
      BY <2>4, <1>7 DEF InitializeMetatype, TypeOK
    <3> QED BY <3>1, <2>1, <2>2, <1>2, FirstCallActive
  <2> QED BY <2>3, <2>4
<1>8. ASSUME NEW n \in Nodes, NEW value \in BOOLEAN, SetBind(n, value) PROVE ActiveInv'
  <2>1. UNCHANGED <<stack, active, scene, first, viewpoints, phase, at>>
    BY <1>8 DEF SetBind, nodeVars, worldVars
  <2>2. ShutdownInv'
    BY <2>1, <1>3, <1>4, ShutdownKept
  <2>3. PICK op \in {"bind", "unbind"} : calls' = Append(calls, Call(op, n, FALSE))
    BY <1>8 DEF SetBind
  <2> QED BY <2>1, <2>2, <2>3, <1>2, FirstCallActive
<1>9. CASE ShutdownNode
  <2>1. /\ UNCHANGED <<stack, active, scene, first, viewpoints, phase>>
        /\ at' = at + 1 /\ at + 1 \in 1..Len(World) /\ phase = "shutdown"
    BY <1>1, <1>3, <1>9 DEF ShutdownNode, nodeVars
  <2>2. PICK n \in Nodes : n = World[at + 1]
    BY <1>1, <2>1
  <2>3. ASSUME NEW m \in scene, m # n
        PROVE  \E j \in (at' + 1)..Len(World) : World[j] = m
    <3>1. PICK j \in (at + 1)..Len(World) : World[j] = m
      BY <2>1, <1>3, <1>4 DEF ShutdownInv
    <3>2. j \in (at' + 1)..Len(World)
      BY <3>1, <2>1, <2>2, <2>3, <1>1, <1>3
    <3> QED BY <3>1, <3>2
  <2>4. CASE n \notin scene
    <3>1. calls' = calls
      BY <2>2, <2>4, <1>9 DEF ShutdownNode
    <3>2. ShutdownInv'
      BY <2>1, <2>3, <2>4, <1>3 DEF ShutdownInv
    <3> QED BY <3>1, <3>2, <2>1, <1>2, <1>3, ListsKept, IdleActive
  <2>5. CASE n \in scene
    <3>1. calls' = Append(calls, Call("unbind", n, TRUE))
      BY <2>2, <2>5, <1>9 DEF ShutdownNode
    <3>2. /\ calls' \in Seq(Frame) /\ Len(calls') = 1
          /\ calls'[1] = Call("unbind", n, TRUE)
      BY <3>1, <1>2, FirstCallTyped
    <3>3. ShuttingDown(n)'
      BY <3>2, LenProperties DEF ShuttingDown, Call
    <3>4. ShutdownInv'
      BY <3>3, <2>1, <2>3, <1>3 DEF ShutdownInv
    <3> QED BY <3>1, <3>4, <2>1, <1>2, FirstCallActive
  <2> QED BY <2>4, <2>5
<1>10. CASE ReplaceScene
  <2>1. scene = {} /\ viewpoints = {} /\ \A k \in Kinds : Tracked(k) => active[k] = Default
    BY <1>2, <1>10, ShutdownEmpties DEF ReplaceScene
  <2>2. /\ phase' = "loading" /\ stack' = [k \in Kinds |-> <<>>]
        /\ first' = [k \in Kinds |-> NoNode]
        /\ UNCHANGED <<active, viewpoints, scene, calls>>
    BY <2>1, <1>10 DEF ReplaceScene
  <2>3. ASSUME NEW k \in Kinds, Tracked(k) PROVE StackInScene(k)' /\ Follows(k)'
    <3>1. stack'[k] = <<>> /\ active'[k] = Default
      BY <2>1, <2>2, <2>3
    <3>2. DOMAIN stack'[k] = {}
      BY <3>1
    <3> QED BY <3>1, <3>2 DEF StackInScene, Follows, Top
  <2>4. ListsInScene'
    BY <2>2, <1>3 DEF ListsInScene
  <2>5. ShutdownInv'
    BY <2>1, <2>2 DEF ShutdownInv
  <2> QED BY <2>2, <2>3, <2>4, <2>5, <1>3 DEF ActiveInv
<1> QED BY <1>5, <1>6, <1>7, <1>8, <1>9, <1>10 DEF WorldStep

LEMMA ActiveInit == Init => ActiveInv
<1> SUFFICES ASSUME Init PROVE ActiveInv
  OBVIOUS
<1>1. /\ stack = [k \in Kinds |-> <<>>] /\ calls = <<>> /\ DOMAIN calls = {}
      /\ first = [k \in Kinds |-> NoNode] /\ active = [k \in Kinds |-> Default]
      /\ viewpoints = {} /\ scene = {} /\ phase = "loading"
  BY DEF Init
<1>2. ASSUME NEW k \in Kinds PROVE StackInScene(k) /\ Follows(k)
  <2>1. stack[k] = <<>> /\ active[k] = Default
    BY <1>1
  <2>2. DOMAIN stack[k] = {}
    BY <2>1
  <2> QED BY <2>1, <2>2 DEF StackInScene, Follows, Top
<1>3. ListsInScene /\ ShutdownInv
  BY <1>1 DEF ListsInScene, ShutdownInv
<1> QED BY <1>1, <1>2, <1>3 DEF ActiveInv

LEMMA ActiveStep ==
  ASSUME NEW rank \in [Kinds -> Nat], TypeOK, CascadeInv(rank), ActiveInv, [Next]_vars
  PROVE  ActiveInv'
<1>1. CASE UNCHANGED vars
  BY <1>1, FailedActive DEF vars
<1> QED BY <1>1, CallStepActive, WorldStepActive DEF Next, Halted

-----------------------------------------------------------------------------
(* What the invariant gives. *)

LEMMA ActiveSafe ==
  ASSUME TypeOK, ActiveInv
  PROVE  BrowserFollowsStack /\ NoDanglingNode
<1>1. BrowserFollowsStack
  BY DEF ActiveInv, Follows, Top, BrowserFollowsStack
<1>2. ASSUME Idle, NEW k \in Kinds, Tracked(k) PROVE ToSet(stack[k]) \subseteq scene
  <2>1. DOMAIN calls = {} /\ StackInScene(k)
    BY <1>2 DEF Idle, ActiveInv
  <2> QED BY <2>1 DEF StackInScene, JustPushed, ToSet
<1>3. NoDanglingNode
  BY <1>2 DEF NoDanglingNode, ActiveInv, ListsInScene
<1> QED BY <1>1, <1>3

(***************************************************************************)
(* With layered routes the stacks that the browser follows stay within the *)
(* scene but for a node just pushed, the lists of the browser and of the   *)
(* metatypes stay within it at every step, and scene::shutdown leaves no   *)
(* node that it has passed.                                                *)
(***************************************************************************)
THEOREM ActiveNodesFollow ==
  ASSUME Layered PROVE Spec => []ActiveInv
<1>1. PICK rank \in [Kinds -> 0..(MaxDepth - 1)] : LayeredBy(rank)
  BY DEF Layered
<1>2. rank \in [Kinds -> Nat]
  BY <1>1 DEF LayeredBy
<1>3. Spec => []CascadeInv(rank)
  BY <1>1, CascadesAreIsolated
<1>4. Init => ActiveInv
  BY ActiveInit
<1>5. TypeOK /\ CascadeInv(rank) /\ ActiveInv /\ [Next]_vars => ActiveInv'
  BY <1>2, ActiveStep
<1> QED BY <1>3, <1>4, <1>5, TypeCorrect, PTL DEF Spec

(* With layered routes the browser's active viewpoint and navigation info  *)
(* are the tops of their stacks, or the default ones, whenever no call of  *)
(* the metatype is in progress, across any number of worlds.               *)
THEOREM BrowserFollows ==
  ASSUME Layered PROVE Spec => []BrowserFollowsStack
<1>1. TypeOK /\ ActiveInv => BrowserFollowsStack
  BY ActiveSafe
<1> QED BY <1>1, ActiveNodesFollow, TypeCorrect, PTL

(* With layered routes nothing points to a node that was shut down, once   *)
(* the cascades that its shutdown set off have ended.                      *)
THEOREM NothingDangles ==
  ASSUME Layered PROVE Spec => []NoDanglingNode
<1>1. TypeOK /\ ActiveInv => NoDanglingNode
  BY ActiveSafe
<1> QED BY <1>1, ActiveNodesFollow, TypeCorrect, PTL

(***************************************************************************)
(* With layered routes the shutdown of a world, when it is not stopped by  *)
(* an assertion, takes every node out of the scene and leaves the default  *)
(* viewpoint and navigation info active: browser::set_world's assertion    *)
(* that viewpoint_list_ is empty holds.                                    *)
(***************************************************************************)
ShutdownIsComplete ==
  Idle /\ phase = "shutdown" /\ at = Len(World) =>
    /\ scene = {} /\ viewpoints = {}
    /\ \A k \in Kinds : Tracked(k) => stack[k] = <<>> /\ active[k] = Default

THEOREM ShutdownCompletes ==
  ASSUME Layered PROVE Spec => []ShutdownIsComplete
<1>1. TypeOK /\ ActiveInv => ShutdownIsComplete
  BY ShutdownEmpties DEF ShutdownIsComplete
<1> QED BY <1>1, ActiveNodesFollow, TypeCorrect, PTL

(***************************************************************************)
(* With layered routes one assertion alone can fail, the one that the node *)
(* being bound belongs to the scene: what unbinding leaves on top, and     *)
(* what is left of viewpoint_list_ when the world is replaced, always pass *)
(* theirs (browser::active_viewpoint, active_navigation_info, set_world).  *)
(***************************************************************************)
OnlyBindAsserts ==
  fault = "assert" =>
    /\ calls # <<>> /\ Current.op = "bind" /\ Current.pc = "return"
    /\ Tracked(KindHere) /\ Current.node \notin scene

THEOREM OnlyBindingAsserts ==
  ASSUME Layered PROVE Spec => []OnlyBindAsserts
<1>1. PICK rank \in [Kinds -> 0..(MaxDepth - 1)] : LayeredBy(rank)
  BY DEF Layered
<1>2. rank \in [Kinds -> Nat]
  BY <1>1 DEF LayeredBy
<1>3. Spec => []CascadeInv(rank)
  BY <1>1, CascadesAreIsolated
<1>4. Init => OnlyBindAsserts
  BY DEF Init, OnlyBindAsserts
<1>5. ASSUME TypeOK, CascadeInv(rank), ActiveInv, OnlyBindAsserts, [Next]_vars
      PROVE  OnlyBindAsserts'
  <2>1. CASE UNCHANGED vars
    BY <2>1, <1>5 DEF vars, nodeVars, OnlyBindAsserts, Current, KindHere
  <2>2. CASE CallStep
    <3>1. ASSUME NEW r \in Routes, Deliver(r) PROVE OnlyBindAsserts'
      BY <3>1 DEF Deliver, Fail, OnlyBindAsserts
    <3>2. CASE BindEnter \/ BindPush \/ UnbindEnter
      BY <3>2 DEF BindEnter, BindPush, UnbindEnter, Running, OnlyBindAsserts
    <3>3. CASE UnbindErase
      BY <3>3 DEF UnbindErase, Running, Fail, OnlyBindAsserts
    <3>4. CASE BindReturn
      BY <3>4 DEF BindReturn, Running, Fail, OnlyBindAsserts, Current, KindHere, nodeVars
    <3>5. CASE UnbindReturn
      <4>1. calls # <<>> /\ fault = "none" /\ Current.op = "unbind"
        BY <3>5 DEF UnbindReturn, Running, Current
      <4>2. ASSUME Tracked(KindHere), stack[KindHere] # <<>>
            PROVE  Last(stack[KindHere]) \in scene
        <5>1. stack[KindHere] \in Seq(Nodes)
          BY <1>5, <4>1, CurrentTyped
        <5>2. Len(stack[KindHere]) \in DOMAIN stack[KindHere]
          BY <5>1, <4>2, LastProperties, LenProperties
        <5> QED BY <5>2, <4>1, <4>2, <1>2, <1>5, HereInScene DEF Last
      <4> QED BY <4>1, <4>2, <3>5 DEF UnbindReturn, OnlyBindAsserts
    <3> QED BY <2>2, <3>1, <3>2, <3>3, <3>4, <3>5 DEF CallStep
  <2>3. CASE WorldStep
    <3>1. ~ReplaceScene => fault' = fault /\ Idle
      BY <2>3 DEF WorldStep, InitializeNode, FindInitialViewpoint, InitializeMetatype,
                  StartWorld, SetBind, BeginShutdown, ShutdownNode
    <3>2. ReplaceScene => fault' = fault /\ Idle
      BY <1>5, ShutdownEmpties DEF ReplaceScene
    <3> QED BY <3>1, <3>2 DEF Idle, OnlyBindAsserts
  <2>4. CASE Halted
    BY <2>4, <1>5 DEF Halted, vars, nodeVars, OnlyBindAsserts, Current, KindHere
  <2> QED BY <2>1, <2>2, <2>3, <2>4, <1>5 DEF Next
<1> QED BY <1>3, <1>4, <1>5, ActiveNodesFollow, TypeCorrect, PTL DEF Spec

-----------------------------------------------------------------------------
(* Every cascade binds and unbinds as bound_node_stack promises. *)

(* The call at i of cs has taken its node off the stack of metatype k. *)
Holds(cs, i, k) == KindOf[cs[i].node] = k /\ cs[i].op = "bind" /\ cs[i].pc = "change"

VisibleOf(cs, st) ==
  [k \in Kinds |-> IF \E i \in DOMAIN cs : Holds(cs, i, k)
                   THEN cs[CHOOSE i \in DOMAIN cs : Holds(cs, i, k)].seen
                   ELSE st[k]]

LEMMA VisibleIs ==
  /\ VisibleStack = VisibleOf(calls, stack)
  /\ VisibleStack' = VisibleOf(calls', stack')
BY DEF VisibleStack, VisibleOf, Holds

LEMMA VisibleHeld ==
  ASSUME NEW cs, NEW st, NEW k \in Kinds, NEW i \in DOMAIN cs, Holds(cs, i, k),
         \A j \in DOMAIN cs : Holds(cs, j, k) => j = i
  PROVE  VisibleOf(cs, st)[k] = cs[i].seen
<1>1. (CHOOSE j \in DOMAIN cs : Holds(cs, j, k)) = i
  OBVIOUS
<1> QED BY <1>1 DEF VisibleOf

LEMMA VisibleFree ==
  ASSUME NEW cs, NEW st, NEW k \in Kinds, \A j \in DOMAIN cs : ~Holds(cs, j, k)
  PROVE  VisibleOf(cs, st)[k] = st[k]
BY DEF VisibleOf

(* A metatype whose stack and calls keep what they have is seen unchanged. *)
LEMMA VisibleSame ==
  ASSUME NEW k \in Kinds, stack'[k] = stack[k],
         \A i, j \in DOMAIN calls : Holds(calls, i, k) /\ Holds(calls, j, k) => i = j,
         \A i \in DOMAIN calls : Holds(calls, i, k) =>
           i \in DOMAIN calls' /\ Holds(calls', i, k) /\ calls'[i].seen = calls[i].seen,
         \A i \in DOMAIN calls' : Holds(calls', i, k) =>
           i \in DOMAIN calls /\ Holds(calls, i, k)
  PROVE  VisibleOf(calls', stack')[k] = VisibleOf(calls, stack)[k]
<1>1. CASE \E i \in DOMAIN calls : Holds(calls, i, k)
  <2>1. PICK i \in DOMAIN calls : Holds(calls, i, k)
    BY <1>1
  <2>2. VisibleOf(calls, stack)[k] = calls[i].seen
    BY <2>1, VisibleHeld
  <2>3. i \in DOMAIN calls' /\ Holds(calls', i, k) /\ calls'[i].seen = calls[i].seen
    BY <2>1
  <2>4. \A j \in DOMAIN calls' : Holds(calls', j, k) => j = i
    BY <2>1
  <2>5. VisibleOf(calls', stack')[k] = calls'[i].seen
    BY <2>3, <2>4, VisibleHeld
  <2> QED BY <2>2, <2>3, <2>5
<1>2. CASE \A i \in DOMAIN calls : ~Holds(calls, i, k)
  BY <1>2, VisibleFree
<1> QED BY <1>1, <1>2

LEMMA VisibleUnchanged ==
  ASSUME \A k \in Kinds : VisibleOf(calls', stack')[k] = VisibleOf(calls, stack)[k]
  PROVE  UNCHANGED VisibleStack
<1>1. VisibleOf(calls', stack') = VisibleOf(calls, stack)
  BY DEF VisibleOf
<1> QED BY <1>1, VisibleIs

(* The running call goes on: only its own metatype may be seen to change. *)
LEMMA HereVisible ==
  ASSUME NEW rank \in [Kinds -> Nat], TypeOK, CascadeInv(rank), calls # <<>>,
         NEW pc \in {"enter", "change", "return"}, NEW todo \in SUBSET Routes,
         Resume(pc, todo),
         \A k \in Kinds \ {KindHere} : stack'[k] = stack[k]
  PROVE  /\ \A k \in Kinds \ {KindHere} :
              VisibleOf(calls', stack')[k] = VisibleOf(calls, stack)[k]
         /\ VisibleOf(calls, stack)[KindHere] =
              IF Current.op = "bind" /\ Current.pc = "change"
              THEN Current.seen ELSE stack[KindHere]
         /\ VisibleOf(calls', stack')[KindHere] =
              IF Current.op = "bind" /\ pc = "change"
              THEN stack[KindHere] ELSE stack'[KindHere]
<1>1. PICK l \in DOMAIN calls, here \in Kinds :
        /\ l = Len(calls) /\ here = KindHere /\ here = KindOf[Current.node]
        /\ Current = calls[l]
  BY CurrentTyped, CallsTyped DEF KindHere
<1>2. /\ calls'[l].op = Current.op /\ calls'[l].node = Current.node
      /\ calls'[l].pc = pc /\ calls'[l].seen = Remembered(pc)
  BY <1>1, HereFrame
<1>3. /\ DOMAIN calls' = DOMAIN calls
      /\ \A i \in DOMAIN calls : i # l => calls'[i] = calls[i]
  <2>1. /\ calls' \in Seq(Frame) /\ Len(calls') = Len(calls)
        /\ \A i \in 1..Len(calls) :
             calls'[i] = IF i = Len(calls) THEN Last(calls') ELSE calls[i]
    BY ResumeProperties
  <2> QED BY <2>1, <1>1, LenProperties, CallsTyped
<1>4. \A i, j \in DOMAIN calls : KindOf[calls[i].node] = KindOf[calls[j].node] => i = j
  BY OneCallPerKind
<1>5. \A i \in DOMAIN calls' : KindOf[calls'[i].node] = here => i = l
  BY <1>1, <1>2, <1>3, <1>4
<1>6. ASSUME NEW k \in Kinds \ {here}
      PROVE  VisibleOf(calls', stack')[k] = VisibleOf(calls, stack)[k]
  <2>1. ASSUME NEW i \in DOMAIN calls, Holds(calls, i, k) \/ Holds(calls', i, k)
        PROVE  calls'[i] = calls[i]
    BY <2>1, <1>1, <1>2, <1>3 DEF Holds
  <2>2. /\ \A i \in DOMAIN calls : Holds(calls, i, k) =>
             i \in DOMAIN calls' /\ Holds(calls', i, k) /\ calls'[i].seen = calls[i].seen
        /\ \A i \in DOMAIN calls' : Holds(calls', i, k) => i \in DOMAIN calls /\ Holds(calls, i, k)
    BY <2>1, <1>3 DEF Holds
  <2>3. \A i, j \in DOMAIN calls : Holds(calls, i, k) /\ Holds(calls, j, k) => i = j
    BY <1>4 DEF Holds
  <2>4. k \in Kinds /\ stack'[k] = stack[k]
    BY <1>1
  <2> QED BY <2>2, <2>3, <2>4, VisibleSame
<1>7. VisibleOf(calls, stack)[here] =
        IF Current.op = "bind" /\ Current.pc = "change" THEN Current.seen ELSE stack[here]
  <2>1. \A i \in DOMAIN calls : Holds(calls, i, here) => i = l
    BY <1>1, <1>4 DEF Holds
  <2>2. Holds(calls, l, here) <=> Current.op = "bind" /\ Current.pc = "change"
    BY <1>1 DEF Holds
  <2> QED BY <2>1, <2>2, <1>1, VisibleHeld, VisibleFree
<1>8. VisibleOf(calls', stack')[here] =
        IF Current.op = "bind" /\ pc = "change" THEN stack[here] ELSE stack'[here]
  <2>1. \A i \in DOMAIN calls' : Holds(calls', i, here) => i = l
    BY <1>5 DEF Holds
  <2>2. Holds(calls', l, here) <=> Current.op = "bind" /\ pc = "change"
    BY <1>1, <1>2 DEF Holds
  <2>3. pc = "change" => calls'[l].seen = stack[here]
    BY <1>1, <1>2 DEF Remembered
  <2>4. l \in DOMAIN calls'
    BY <1>3
  <2> QED BY <2>1, <2>2, <2>3, <2>4, VisibleHeld, VisibleFree
<1> QED BY <1>1, <1>6, <1>7, <1>8

LEMMA VisibleChange ==
  ASSUME NEW here \in Kinds,
         \A k \in Kinds \ {here} : VisibleOf(calls', stack')[k] = VisibleOf(calls, stack)[k]
  PROVE  VisibleStack' = [VisibleStack EXCEPT ![here] = VisibleOf(calls', stack')[here]]
<1> DEFINE f == VisibleOf(calls, stack)
           g == VisibleOf(calls', stack')
<1>1. f = [k \in Kinds |-> f[k]] /\ g = [k \in Kinds |-> g[k]]
  BY DEF VisibleOf
<1> HIDE DEF f, g
<1>2. ASSUME \A k \in Kinds \ {here} : g[k] = f[k]
      PROVE  g = [f EXCEPT ![here] = g[here]]
  BY <1>1, <1>2
<1> QED BY <1>2, VisibleIs DEF f, g

(* BindingStack's RemoveAt is the one used here. *)
LEMMA SameRemoval == \A s, i : Binding!RemoveAt(s, i) = RemoveAt(s, i)
BY DEF RemoveAt, Binding!RemoveAt

LEMMA BindPushBinds ==
  ASSUME NEW rank \in [Kinds -> Nat], TypeOK, CascadeInv(rank), ActiveInv, BindPush
  PROVE  \E n \in Nodes : Binding!BindNew(n) \/ Binding!BindAgain(n)
<1>1. calls # <<>> /\ Current.op = "bind" /\ Current.pc = "change"
  BY DEF BindPush, Running, Current
<1>2. PICK todo \in SUBSET Routes :
        /\ Resume("return", todo)
        /\ \A k \in Kinds \ {KindHere} : stack'[k] = stack[k]
        /\ stack'[KindHere] = Append(stack[KindHere], Current.node)
  BY BindPushEffect
<1>3. PICK l \in DOMAIN calls, here \in Kinds, n \in Nodes :
        /\ l = Len(calls) /\ here = KindHere /\ n = Current.node /\ here = KindOf[n]
        /\ Current = calls[l]
  BY <1>1, CurrentTyped, CallsTyped DEF KindHere
<1>4. PICK seen : seen = Current.seen
  OBVIOUS
<1>5. /\ \A k \in Kinds \ {here} : VisibleOf(calls', stack')[k] = VisibleOf(calls, stack)[k]
      /\ VisibleOf(calls, stack)[here] = seen
      /\ VisibleOf(calls', stack')[here] = Append(stack[here], n)
  BY <1>1, <1>2, <1>3, <1>4, HereVisible
<1>6. /\ VisibleStack' = [VisibleStack EXCEPT ![here] = Append(stack[here], n)]
      /\ VisibleStack[here] = seen
  BY <1>5, VisibleChange, VisibleIs
<1>7. LostFrom(n, stack[here], seen)
  BY <1>1, <1>3, <1>4 DEF ActiveInv, CallInv
<1>8. seen \in Seq(Nodes)
  BY <1>1, <1>4, CurrentTyped DEF Frame
<1>9. CASE stack[here] = seen /\ Gone(n, seen)
  <2>1. ~Binding!On(n)
    BY <1>3, <1>6, <1>9 DEF Gone, Binding!On
  <2> QED BY <2>1, <1>3, <1>6, <1>9 DEF Binding!BindNew
<1>10. CASE \E p \in 1..Len(seen) : seen[p] = n /\ stack[here] = RemoveAt(seen, p)
  <2>1. PICK p \in 1..Len(seen) : seen[p] = n /\ stack[here] = RemoveAt(seen, p)
    BY <1>10
  <2>2. p \in DOMAIN seen
    BY <1>8, <2>1, LenProperties
  <2>3. Binding!BindAgain(n)
    BY <2>1, <2>2, <1>3, <1>6, SameRemoval DEF Binding!BindAgain
  <2> QED BY <2>3
<1> QED BY <1>7, <1>9, <1>10 DEF LostFrom

LEMMA UnbindEraseUnbinds ==
  ASSUME NEW rank \in [Kinds -> Nat], TypeOK, CascadeInv(rank), UnbindErase
  PROVE  \E n \in Nodes : Binding!Unbind(n)
<1>1. calls # <<>> /\ Current.op = "unbind" /\ Current.pc = "change"
  BY DEF UnbindErase, Running, Current
<1>2. PICK p \in 1..Len(stack[KindHere]), todo \in SUBSET Routes :
        /\ stack[KindHere][p] = Current.node
        /\ Resume("return", todo)
        /\ \A k \in Kinds \ {KindHere} : stack'[k] = stack[k]
        /\ stack'[KindHere] = RemoveAt(stack[KindHere], p)
  BY UnbindEraseEffect
<1>3. PICK here \in Kinds, n \in Nodes :
        /\ here = KindHere /\ n = Current.node /\ here = KindOf[n]
        /\ stack[here] \in Seq(Nodes)
  BY <1>1, CurrentTyped DEF KindHere
<1>4. /\ \A k \in Kinds \ {here} : VisibleOf(calls', stack')[k] = VisibleOf(calls, stack)[k]
      /\ VisibleOf(calls, stack)[here] = stack[here]
      /\ VisibleOf(calls', stack')[here] = RemoveAt(stack[here], p)
  BY <1>1, <1>2, <1>3, HereVisible
<1>5. /\ VisibleStack' = [VisibleStack EXCEPT ![here] = RemoveAt(stack[here], p)]
      /\ VisibleStack[here] = stack[here]
  BY <1>4, VisibleChange, VisibleIs
<1>6. p \in DOMAIN stack[here] /\ stack[here][p] = n
  BY <1>2, <1>3, LenProperties
<1>7. Binding!Unbind(n)
  BY <1>3, <1>5, <1>6, SameRemoval DEF Binding!Unbind
<1> QED BY <1>7

(* The other steps of a call are not seen. *)
LEMMA EnterUnseen ==
  ASSUME NEW rank \in [Kinds -> Nat], TypeOK, CascadeInv(rank), BindEnter \/ UnbindEnter
  PROVE  UNCHANGED VisibleStack
<1>1. calls # <<>> /\ Current.pc = "enter"
  BY DEF BindEnter, UnbindEnter, Running, Current
<1>2. KindHere \in Kinds
  BY <1>1, CurrentTyped
<1>3. CASE BindEnter
  <2>1. PICK pc \in {"change", "return"}, todo \in SUBSET Routes :
          /\ Resume(pc, todo)
          /\ \A k \in Kinds \ {KindHere} : stack'[k] = stack[k]
          /\ pc = "return" => stack'[KindHere] = stack[KindHere]
    BY <1>3, BindEnterEffect
  <2>2. Current.op = "bind"
    BY <1>3 DEF BindEnter, Running, Current
  <2>3. \A k \in Kinds : VisibleOf(calls', stack')[k] = VisibleOf(calls, stack)[k]
    BY <1>1, <1>2, <2>1, <2>2, HereVisible
  <2> QED BY <2>3, VisibleUnchanged
<1>4. CASE UnbindEnter
  <2>1. PICK pc \in {"change", "return"}, todo \in SUBSET Routes :
          Resume(pc, todo) /\ stack' = stack
    BY <1>4, UnbindEnterEffect
  <2>2. Current.op = "unbind"
    BY <1>4 DEF UnbindEnter, Running, Current
  <2>3. \A k \in Kinds : VisibleOf(calls', stack')[k] = VisibleOf(calls, stack)[k]
    BY <1>1, <1>2, <2>1, <2>2, HereVisible
  <2> QED BY <2>3, VisibleUnchanged
<1> QED BY <1>3, <1>4

LEMMA DeliverUnseen ==
  ASSUME NEW rank \in [Kinds -> Nat], TypeOK, CascadeInv(rank), NEW r \in Routes, Deliver(r)
  PROVE  UNCHANGED VisibleStack
<1>1. stack' = stack
  BY DeliverEffect DEF nodeVars
<1>2. CASE UNCHANGED calls
  BY <1>1, <1>2, VisibleIs
<1>3. CASE /\ DOMAIN calls' = 1..(Len(calls) + 1)
           /\ \A i \in DOMAIN calls :
                /\ calls'[i].op = calls[i].op /\ calls'[i].pc = calls[i].pc
                /\ calls'[i].node = calls[i].node /\ calls'[i].seen = calls[i].seen
           /\ calls'[Len(calls) + 1].pc = "enter"
  <2>1. /\ DOMAIN calls \subseteq DOMAIN calls'
        /\ \A i \in DOMAIN calls' : i \in DOMAIN calls \/ i = Len(calls) + 1
    BY <1>3, CallsTyped
  <2>2. ASSUME NEW k \in Kinds PROVE VisibleOf(calls', stack')[k] = VisibleOf(calls, stack)[k]
    <3>1. \A i, j \in DOMAIN calls : Holds(calls, i, k) /\ Holds(calls, j, k) => i = j
      BY OneCallPerKind DEF Holds
    <3> QED BY <3>1, <2>1, <1>1, <1>3, VisibleSame DEF Holds
  <2> QED BY <2>2, VisibleUnchanged
<1> QED BY <1>2, <1>3, DeliverEffect

LEMMA ReturnUnseen ==
  ASSUME NEW rank \in [Kinds -> Nat], TypeOK, CascadeInv(rank), BindReturn \/ UnbindReturn
  PROVE  UNCHANGED VisibleStack
<1>1. calls # <<>> /\ Current.pc = "return"
  BY DEF BindReturn, UnbindReturn, Running, Current
<1>2. CASE UNCHANGED <<stack, calls>>
  BY <1>2, VisibleIs
<1>3. CASE stack' = stack /\ Return
  <2>1. PICK l \in DOMAIN calls : l = Len(calls) /\ Current = calls[l]
    BY <1>1, CurrentTyped, CallsTyped
  <2>2. /\ calls' \in Seq(Frame) /\ Len(calls') = Len(calls) - 1
        /\ \A i \in 1..(Len(calls) - 1) : calls'[i] = calls[i]
    BY <1>1, <1>3, ReturnTyped
  <2>3. /\ DOMAIN calls' = 1..(l - 1) /\ DOMAIN calls = 1..l /\ l \in Nat
        /\ \A i \in DOMAIN calls' : calls'[i] = calls[i]
    BY <2>1, <2>2, LenProperties, CallsTyped
  <2>4. /\ DOMAIN calls' \subseteq DOMAIN calls
        /\ \A i \in DOMAIN calls : i # l => i \in DOMAIN calls'
    BY <2>3
  <2>5. ASSUME NEW k \in Kinds PROVE VisibleOf(calls', stack')[k] = VisibleOf(calls, stack)[k]
    <3>1. \A i, j \in DOMAIN calls : Holds(calls, i, k) /\ Holds(calls, j, k) => i = j
      BY OneCallPerKind DEF Holds
    <3>2. ~Holds(calls, l, k)
      BY <1>1, <2>1 DEF Holds
    <3>3. \A i \in DOMAIN calls : Holds(calls, i, k) =>
            i \in DOMAIN calls' /\ Holds(calls', i, k) /\ calls'[i].seen = calls[i].seen
      BY <3>2, <2>3, <2>4 DEF Holds
    <3>4. \A i \in DOMAIN calls' : Holds(calls', i, k) => i \in DOMAIN calls /\ Holds(calls, i, k)
      BY <2>3, <2>4 DEF Holds
    <3> QED BY <3>1, <3>3, <3>4, <1>3, VisibleSame
  <2> QED BY <2>5, VisibleUnchanged
<1>4. (stack' = stack /\ Return) \/ UNCHANGED <<stack, calls>>
  BY DEF BindReturn, UnbindReturn, Fail, nodeVars
<1> QED BY <1>2, <1>3, <1>4

(* A step of the world starts a new one, or is not seen. *)
LEMMA WorldStepSeen ==
  ASSUME TypeOK, WorldStep
  PROVE  Binding!NewWorld \/ UNCHANGED VisibleStack
<1>1. Idle /\ DOMAIN calls = {}
  <2>1. Idle
    BY DEF WorldStep, InitializeNode, FindInitialViewpoint, InitializeMetatype, StartWorld,
           SetBind, BeginShutdown, ShutdownNode, ReplaceScene
  <2> QED BY <2>1 DEF Idle
<1>2. \A k \in Kinds : VisibleOf(calls, stack)[k] = stack[k]
  BY <1>1, VisibleFree
<1>3. ASSUME UNCHANGED <<stack, calls>> PROVE UNCHANGED VisibleStack
  BY <1>3, VisibleIs
<1>4. ASSUME stack' = stack, NEW op \in {"bind", "unbind"}, NEW n \in Nodes,
             NEW shutdown \in BOOLEAN, calls' = Append(calls, Call(op, n, shutdown))
      PROVE  UNCHANGED VisibleStack
  <2>1. /\ calls' \in Seq(Frame) /\ Len(calls') = 1
        /\ calls'[1] = Call(op, n, shutdown)
    BY <1>1, <1>4, FirstCallTyped
  <2>2. DOMAIN calls' = {1} /\ calls'[1].pc = "enter"
    BY <2>1, LenProperties DEF Call
  <2>3. \A k \in Kinds : VisibleOf(calls', stack')[k] = stack'[k]
    BY <2>2, VisibleFree DEF Holds
  <2> QED BY <2>3, <1>2, <1>4, VisibleUnchanged
<1>5. CASE InitializeNode \/ FindInitialViewpoint \/ StartWorld \/ BeginShutdown
  BY <1>3, <1>5 DEF InitializeNode, FindInitialViewpoint, StartWorld, BeginShutdown, nodeVars
<1>6. ASSUME NEW k \in Kinds, InitializeMetatype(k) PROVE UNCHANGED VisibleStack
  <2>1. stack' = stack /\ (first[k] # NoNode => first[k] \in Nodes)
    BY <1>6 DEF InitializeMetatype, nodeVars, TypeOK
  <2> QED BY <2>1, <1>3, <1>4, <1>6 DEF InitializeMetatype
<1>7. ASSUME NEW n \in Nodes, NEW value \in BOOLEAN, SetBind(n, value)
      PROVE  UNCHANGED VisibleStack
  BY <1>4, <1>7 DEF SetBind, nodeVars
<1>8. CASE ShutdownNode
  <2>1. stack' = stack /\ (World[at + 1] \in scene => World[at + 1] \in Nodes)
    BY <1>8 DEF ShutdownNode, nodeVars, TypeOK
  <2> QED BY <2>1, <1>3, <1>4, <1>8 DEF ShutdownNode
<1>9. CASE ReplaceScene
  <2>1. CASE UNCHANGED <<stack, calls>>
    BY <2>1, <1>3
  <2>2. CASE stack' = [k \in Kinds |-> <<>>] /\ calls' = calls
    <3>1. \A k \in Kinds : VisibleOf(calls', stack')[k] = <<>>
      BY <2>2, <1>1, VisibleFree
    <3>2. VisibleOf(calls', stack') = [k \in Kinds |-> <<>>]
      BY <3>1 DEF VisibleOf
    <3> QED BY <3>2, VisibleIs DEF Binding!NewWorld
  <2> QED BY <2>1, <2>2, <1>9 DEF ReplaceScene, Fail, nodeVars
<1> QED BY <1>5, <1>6, <1>7, <1>8, <1>9 DEF WorldStep

LEMMA EveryStepIsBinding ==
  ASSUME NEW rank \in [Kinds -> Nat], TypeOK, CascadeInv(rank), ActiveInv, [Next]_vars
  PROVE  [Binding!Next]_VisibleStack
<1>1. CASE UNCHANGED vars
  BY <1>1, VisibleIs DEF vars, nodeVars
<1>2. CASE CallStep
  BY <1>2, DeliverUnseen, EnterUnseen, BindPushBinds, UnbindEraseUnbinds, ReturnUnseen
  DEF CallStep, Binding!Next
<1>3. CASE WorldStep
  BY <1>3, WorldStepSeen DEF Binding!Next
<1> QED BY <1>1, <1>2, <1>3 DEF Next, Halted

(***************************************************************************)
(* With layered routes the bindable nodes implement BindingStack: however  *)
(* the callbacks of bound_node_stack::bind and unbind cascade, each stack  *)
(* is seen to change by one binding, one unbinding or a new world at once. *)
(***************************************************************************)
THEOREM BindingIsImplemented ==
  ASSUME Layered PROVE Spec => ImplementsBinding
<1>1. PICK rank \in [Kinds -> 0..(MaxDepth - 1)] : LayeredBy(rank)
  BY DEF Layered
<1>2. rank \in [Kinds -> Nat]
  BY <1>1 DEF LayeredBy
<1>3. Spec => []CascadeInv(rank)
  BY <1>1, CascadesAreIsolated
<1>4. Init => Binding!Init
  <2> SUFFICES ASSUME Init PROVE Binding!Init
    OBVIOUS
  <2>1. stack = [k \in Kinds |-> <<>>] /\ DOMAIN calls = {}
    BY DEF Init
  <2>2. \A k \in Kinds : VisibleOf(calls, stack)[k] = <<>>
    BY <2>1, VisibleFree
  <2>3. VisibleOf(calls, stack) = [k \in Kinds |-> <<>>]
    BY <2>2 DEF VisibleOf
  <2> QED BY <2>3, VisibleIs DEF Binding!Init
<1>5. TypeOK /\ CascadeInv(rank) /\ ActiveInv /\ [Next]_vars => [Binding!Next]_VisibleStack
  BY <1>2, EveryStepIsBinding
<1> QED BY <1>3, <1>4, <1>5, ActiveNodesFollow, TypeCorrect, PTL
        DEF Spec, ImplementsBinding, Binding!Spec
=============================================================================
