--------------------------- MODULE ParseFaults_proof ---------------------------
(***************************************************************************)
(* What stops a parse, for every profile, all names and files of any       *)
(* length that break off anywhere: each assertion of the parse actions     *)
(* that fails, and the throw from their destructor, has a cause in the     *)
(* file.  The stacks of nodes and of lists are as high as the grammar's    *)
(* rules call for, and the root can be made a scene of wherever the file   *)
(* breaks off.                                                             *)
(***************************************************************************)
EXTENDS ParseActions_proof

-----------------------------------------------------------------------------
(* The causes of faults: the lists of nodes in progress, and what the root *)
(* scope must be for a scene to be made of it.                             *)

(* An exposedField, a field or an event of one type is like another's.     *)
Alike(N, n, m) ==
  n = m \/ (N[n].type = N[m].type /\ N[n].type # Script /\ N[n].interfaces = N[m].interfaces)

ScopeRoutes(p, defs) ==
  \A j \in DOMAIN p.routes : p.routes[j].from \in DOMAIN defs /\ p.routes[j].to \in DOMAIN defs

\* The innermost scope's rules with a list have one each, and so have the outer scopes'.
ScopeLists(p, Q, R, k) ==
  (k = 1 \/ "script event" \notin Q) => Len(p.children) = CountIn(R, k, Listing)

\* The types at the root: the profile's, and those of the file; and the nodes of them.
RootTypes(g) ==
  ~g.proto /\ \A t \in DOMAIN BuiltIn : t \in DOMAIN g.types /\ g.types[t] = BuiltIn[t]
Typed(n, g) == n.type \in DOMAIN g.types /\ (n.type # Script => n.interfaces = g.types[n.type])
Profiled(n) == n.type \in DOMAIN BuiltIn /\ n.type # Script

\* A node that can be created of what was read of it.
Plain(n, d) ==
  /\ Creatable(n, d)
  /\ Profiled(n) => d.current = None \/ (d.current \in n.interfaces /\ ~IsEvent(d.current))

RootData(p, g, N, Q) ==
  \A i \in DOMAIN p.data :
    Typed(N[p.data[i].node], g) /\ ("event" \notin Q => Plain(N[p.data[i].node], p.data[i]))

\* A name's node, for the actions, has the events that the grammar's node of the name has.
Clear(Q) == "renamed" \notin Q /\ "instance" \notin Q
RootNames(p, g, N) ==
  /\ \A i \in DOMAIN p.data :
       p.data[i].name # Anonymous => Alike(N, p.data[i].node, g.defs[p.data[i].name])
  /\ \A name \in DOMAIN g.defs :
       InProgress(p, name) \/ (name \in DOMAIN p.names /\ Alike(N, p.names[name], g.defs[name]))
RootEnds(p, g, N) ==
  \A j \in DOMAIN p.routes :
    /\ p.routes[j].out \in Ids(N[g.defs[p.routes[j].from]].interfaces)
    /\ p.routes[j].in \in Ids(N[g.defs[p.routes[j].to]].interfaces)

RootPart(p, g, N, Q) ==
  /\ RootTypes(g) /\ RootData(p, g, N, Q)
  /\ \A name \in DOMAIN g.defs : Typed(N[g.defs[name]], g)
  /\ Clear(Q) => RootNames(p, g, N) /\ RootEnds(p, g, N)

(* R: the rules that the lists of nodes are those of, also while the       *)
(* actions of one statement are half done.                                 *)
More(s, Q, R) ==
  /\ \A k \in 1 .. Len(s.ps) :
       ScopeRoutes(s.ps[k], s.scopes[k].defs) /\ ScopeLists(s.ps[k], Q, R, k)
  /\ RootPart(s.ps[1], s.scopes[1], s.nodes, Q)

(* What the destructor finds at the root.                                  *)
Broken(s, Q) ==
  LET p == s.ps[1]
  IN /\ RootNodes(s) /\ ScopeBodies(p, s.nodes)
     /\ \/ Len(p.children) = Len(p.data) /\ (p.data = << >> => ~Clear(Q))
        \/ Len(p.children) = Len(p.data) + 1
     /\ "event" \notin Q => \A i \in DOMAIN p.data : Creatable(s.nodes[p.data[i].node], p.data[i])
     /\ \A j \in DOMAIN p.routes :
          /\ p.routes[j].from \in DOMAIN p.names \/ InProgress(p, p.routes[j].from)
          /\ p.routes[j].to \in DOMAIN p.names \/ InProgress(p, p.routes[j].to)

Causes(f, Q) ==
  /\ f = "field" => "twice" \in Q
  /\ f = "type" => "typed" \in Q
  /\ f = "use" => "enclosing" \in Q
  /\ f = "empty" => "rooted" \in Q
  /\ f # "routes"
  /\ f = "scene" => Q \cap {"open", "script event"} # {}
  /\ f = "children" => Q \cap {"renamed", "instance", "script event"} # {}
  /\ f = "terminate" => "event" \in Q

Sound(s, Q, R) ==
  /\ s.fault = "parsing" => More(s, Q, R)
  /\ s.fault = "exception" => Broken(s, Q)
  /\ Causes(s.fault, Q)

\* The more is odd about a file, the less is asked of it.
LEMMA MoreGrows ==
  ASSUME NEW s, NEW Q, NEW S, Q \subseteq S, NEW R, More(s, Q, R)
  PROVE  More(s, S, R)
<1>1. /\ "event" \notin S => "event" \notin Q
      /\ Clear(S) => Clear(Q)
      /\ "script event" \notin S => "script event" \notin Q
  BY DEF Clear
<1>2. \A k \in 1 .. Len(s.ps) : ScopeRoutes(s.ps[k], s.scopes[k].defs) /\ ScopeLists(s.ps[k], S, R, k)
  BY <1>1 DEF More, ScopeLists
<1>3. RootPart(s.ps[1], s.scopes[1], s.nodes, S)
  BY <1>1 DEF More, RootPart, RootData
<1> QED BY <1>2, <1>3 DEF More

-----------------------------------------------------------------------------
(* The rules with a list of nodes.                                         *)

LEMMA ListedPush ==
  ASSUME NEW q \in Seq(RuleNames), NEW x \in Listed
  PROVE  /\ Append(q, x) \in Seq(RuleNames) /\ Top(Append(q, x)) = Top(q)
         /\ CountIn(q, Top(q), Listing) \in Nat
         /\ CountIn(Append(q, x), Top(q), Listing) = CountIn(q, Top(q), Listing) + 1
         /\ \A k : k # Top(q) => CountIn(Append(q, x), k, Listing) = CountIn(q, k, Listing)
<1>1. x \in RuleNames /\ x \notin Scoped /\ x \in Listing
  BY DEF Listed, RuleNames, Scoped, Listing
<1>2. Top(q) \in Nat /\ Top(Append(q, x)) = Top(q)
  BY <1>1, TopPush
<1>3. \A k : /\ CountIn(q, k, Listing) \in Nat
             /\ CountIn(Append(q, x), k, Listing) =
                  CountIn(q, k, Listing) + IF k = Top(Append(q, x)) /\ x \in Listing THEN 1 ELSE 0
  BY <1>1, CountPush
<1>4. Append(q, x) \in Seq(RuleNames)
  BY <1>1, Pushed
<1> QED BY <1>1, <1>2, <1>3, <1>4

LEMMA OtherPush ==
  ASSUME NEW q \in Seq(RuleNames), NEW x \in Holding
  PROVE  /\ Append(q, x) \in Seq(RuleNames)
         /\ \A k : CountIn(Append(q, x), k, Listing) = CountIn(q, k, Listing)
<1>1. x \in RuleNames /\ x \notin Listing
  BY DEF Holding, RuleNames, Listing
<1>2. \A k : /\ CountIn(q, k, Listing) \in Nat
             /\ CountIn(Append(q, x), k, Listing) =
                  CountIn(q, k, Listing) + IF k = Top(Append(q, x)) /\ x \in Listing THEN 1 ELSE 0
  BY <1>1, CountPush
<1>3. Append(q, x) \in Seq(RuleNames)
  BY <1>1, Pushed
<1> QED BY <1>1, <1>2, <1>3

\* The rule that reads nodes has a list.
LEMMA ListedInmost ==
  ASSUME NEW q \in Seq(RuleNames), Grammar(q), Inmost(q) \in Listing
  PROVE  CountIn(q, Top(q), Listing) \in Nat \ {0}
<1>1. q # << >>
  BY DEF Grammar
<1> DEFINE o == Outer(q)
           x == Inmost(q)
<1>2. o \in Seq(RuleNames) /\ x \in RuleNames /\ q = Append(o, x)
  BY <1>1, StackOfSeq, StackIsPushed
<1>3. x \in Listing
  OBVIOUS
<1> HIDE DEF o, x
<1>4. /\ CountIn(o, Top(q), Listing) \in Nat
      /\ CountIn(Append(o, x), Top(q), Listing) =
           CountIn(o, Top(q), Listing) + IF Top(q) = Top(Append(o, x)) /\ x \in Listing THEN 1 ELSE 0
  BY <1>2, CountPush
<1> QED BY <1>2, <1>3, <1>4

\* At the root, a node in progress is in the list of the rule that it is called from.
RootHeld(q) ==
  IF Top(q) = 1
  THEN IF Inmost(q) = "node" THEN CountIn(q, 1, Listing) = CountIn(q, 1, Holding)
       ELSE CountIn(q, 1, Listing) = CountIn(q, 1, Holding) + 1
  ELSE CountIn(q, 1, Listing) \in {CountIn(q, 1, Holding), CountIn(q, 1, Holding) + 1}

LEMMA RootHeldFirst ==
  ASSUME NEW q \in Seq(RuleNames), Grammar(q), Inmost(q) = "scene"
  PROVE  RootHeld(q)
<1> DEFINE o == Outer(q)
           x == Inmost(q)
<1>1. q # << >> /\ q[1] = "scene" /\ \A j \in 2 .. Len(q) : q[j - 1] \in Callers[q[j]]
  BY DEF Grammar
<1>2. Len(q) \in Nat \ {0} /\ x = q[Len(q)] /\ o \in Seq(RuleNames) /\ Len(o) = Len(q) - 1
  BY <1>1, StackOfSeq
<1>3. Len(q) = 1
  <2>1. SUFFICES ASSUME Len(q) \in 2 .. Len(q) PROVE FALSE
    BY <1>2
  <2>2. q[Len(q) - 1] \in Callers["scene"]
    BY <1>1, <1>2, <2>1
  <2> QED BY <2>2 DEF Callers
<1>4. q = Append(o, x) /\ x \in RuleNames
  BY <1>1, StackIsPushed, StackOfSeq
<1>5. x = "scene"
  OBVIOUS
<1>6. Top(o) = 0
  <2>1. 0 \in 0 .. Len(o) /\ Len(o) = 0
    BY <1>2, <1>3
  <2>2. ScopeAt(o, 0) = 0
    BY <1>2, <2>1, ScopeAtStep
  <2> QED BY <2>1, <2>2 DEF Top
<1> HIDE DEF o, x
<1>7. Top(q) = 1
  <2>1. Top(Append(o, x)) = Top(o) + IF x \in Scoped THEN 1 ELSE 0
    BY <1>2, <1>4, TopPush
  <2>2. x \in Scoped
    BY <1>5 DEF Scoped
  <2> QED BY <1>4, <1>6, <2>1, <2>2
<1>8. ASSUME NEW S PROVE CountIn(q, 1, S) = IF x \in S THEN 1 ELSE 0
  <2> DEFINE k == 1
  <2>1. k \in Nat /\ k > Top(o)
    BY <1>6
  <2> HIDE DEF k
  <2>2. CountIn(o, k, S) = 0
    BY <1>2, <2>1, CountAbove
  <2>3. CountIn(Append(o, x), k, S) = CountIn(o, k, S) + IF k = Top(Append(o, x)) /\ x \in S THEN 1 ELSE 0
    BY <1>2, <1>4, CountPush
  <2> QED BY <1>4, <1>7, <2>2, <2>3 DEF k
<1>9. CountIn(q, 1, Listing) = 1 /\ CountIn(q, 1, Holding) = 0
  BY <1>5, <1>8 DEF Listing, Holding
<1> QED BY <1>5, <1>7, <1>9 DEF RootHeld, x

LEMMA RootHeldStep ==
  ASSUME NEW q \in Seq(RuleNames), Grammar(q), Inmost(q) # "scene", RootHeld(Outer(q))
  PROVE  RootHeld(q)
<1> DEFINE o == Outer(q)
           x == Inmost(q)
<1>1. /\ o \in Seq(RuleNames) /\ o # << >> /\ Grammar(o) /\ Inmost(o) \in Callers[x]
      /\ x \in RuleNames /\ q = Append(o, x) /\ x # "scene"
  BY GrammarPop
<1>2. RootHeld(o)
  OBVIOUS
<1>3. Inmost(q) = x
  OBVIOUS
<1> HIDE DEF o, x
<1>4. Top(o) \in Nat /\ Top(q) = Top(o) + IF x \in Scoped THEN 1 ELSE 0
  BY <1>1, TopPush
<1>5. Top(o) \in Nat \ {0} /\ CountIn(o, 1, Openers) = 0
  BY <1>1, RootScope
<1>6. \A S : /\ CountIn(o, 1, S) \in Nat
             /\ CountIn(q, 1, S) = CountIn(o, 1, S) + IF 1 = Top(q) /\ x \in S THEN 1 ELSE 0
  BY <1>1, CountPush
<1>7. PICK l, h : l = CountIn(o, 1, Listing) /\ h = CountIn(o, 1, Holding) /\ l \in Nat /\ h \in Nat
  BY <1>6
<1>8. /\ CountIn(q, 1, Listing) = l + IF 1 = Top(q) /\ x \in Listing THEN 1 ELSE 0
      /\ CountIn(q, 1, Holding) = h + IF 1 = Top(q) /\ x \in Holding THEN 1 ELSE 0
  BY <1>6, <1>7
<1>9. CASE Top(q) # 1
  <2>1. CountIn(q, 1, Listing) = l /\ CountIn(q, 1, Holding) = h
    BY <1>7, <1>8, <1>9
  <2>2. l \in {h, h + 1}
    BY <1>2, <1>7 DEF RootHeld
  <2> QED BY <1>9, <2>1, <2>2 DEF RootHeld
<1>10. CASE Top(q) = 1
  <2>1. x \notin Scoped /\ Top(o) = 1
    BY <1>4, <1>5, <1>10
  <2>2. CASE x = "node"
    <3>1. Inmost(o) # "node"
      BY <1>1, <2>2 DEF Callers, ScopeRules, Listed
    <3>2. l = h + 1
      BY <1>2, <1>7, <2>1, <3>1 DEF RootHeld
    <3>3. x \in Holding /\ x \notin Listing
      BY <2>2 DEF Holding, Listing
    <3> QED BY <1>3, <1>7, <1>8, <1>10, <2>2, <3>2, <3>3 DEF RootHeld
  <2>3. CASE x \in Listed
    <3>1. Inmost(o) \in {"node", "default"}
      BY <1>1, <2>3 DEF Callers, Listed
    <3>2. Inmost(o) # "default"
      <4> DEFINE b == Outer(o)
                 y == Inmost(o)
      <4>1. b \in Seq(RuleNames) /\ y \in RuleNames /\ o = Append(b, y)
        BY <1>1, StackOfSeq, StackIsPushed
      <4>2. y \in {"node", "default"}
        BY <3>1
      <4> HIDE DEF b, y
      <4>3. /\ CountIn(b, 1, Openers) \in Nat
            /\ CountIn(Append(b, y), 1, Openers) =
                 CountIn(b, 1, Openers) + IF 1 = Top(Append(b, y)) /\ y \in Openers THEN 1 ELSE 0
        BY <4>1, CountPush
      <4>4. y \notin Openers
        BY <1>5, <2>1, <4>1, <4>3
      <4> QED BY <4>4 DEF Openers, y
    <3>3. l = h
      BY <1>2, <1>7, <2>1, <3>1, <3>2 DEF RootHeld
    <3>4. x \notin Holding /\ x \in Listing /\ x # "node"
      BY <2>3 DEF Holding, Listing, Listed
    <3> QED BY <1>3, <1>7, <1>8, <1>10, <3>3, <3>4 DEF RootHeld
  <2>4. x \in {"node"} \cup Listed
    BY <1>1, <2>1 DEF RuleNames, Scoped, Listed
  <2> QED BY <2>2, <2>3, <2>4
<1> QED BY <1>9, <1>10

LEMMA RootIsHeld ==
  ASSUME NEW q \in Seq(RuleNames), Grammar(q)
  PROVE  RootHeld(q)
<1> DEFINE Wrong == {n \in Nat : \E r \in Seq(RuleNames) : Len(r) = n /\ Grammar(r) /\ ~RootHeld(r)}
<1>1. SUFFICES ASSUME ~RootHeld(q) PROVE FALSE
  OBVIOUS
<1>2. Len(q) \in Wrong
  BY <1>1, LenProperties
<1>3. PICK n \in Wrong : \A m \in Wrong : n <= m
  BY <1>2, LeastElement
<1>4. PICK r \in Seq(RuleNames) : Len(r) = n /\ Grammar(r) /\ ~RootHeld(r)
  OBVIOUS
<1>5. Inmost(r) # "scene"
  BY <1>4, RootHeldFirst
<1>6. Outer(r) \in Seq(RuleNames) /\ Grammar(Outer(r)) /\ r # << >>
  BY <1>4, <1>5, GrammarPop
<1>7. ~RootHeld(Outer(r))
  BY <1>4, <1>5, RootHeldStep
<1>8. Len(Outer(r)) = n - 1 /\ Len(Outer(r)) \in Nat /\ n \in Nat
  BY <1>4, <1>6, StackOfSeq, LenProperties
<1>9. n - 1 \in Wrong
  BY <1>6, <1>7, <1>8
<1> QED BY <1>3, <1>8, <1>9

-----------------------------------------------------------------------------
(* Steps that change the innermost scope.                                  *)

Stacks(s) == s \in StateSet /\ s.ps # << >> /\ s.scopes # << >> /\ Len(s.scopes) = Len(s.ps)

LEMMA StacksAre ==
  ASSUME NEW s, Stacks(s)
  PROVE  LET n == Len(s.ps)
         IN /\ n \in Nat \ {0} /\ 1 \in 1 .. n /\ n \in 1 .. n
            /\ DOMAIN s.ps = 1 .. n /\ DOMAIN s.scopes = 1 .. n
            /\ Inmost(s.ps) = s.ps[n] /\ Inmost(s.ps) \in ParseScopeSet
            /\ Inmost(s.scopes) = s.scopes[n] /\ Inmost(s.scopes) \in ScopeSet
            /\ s.ps \in Seq(ParseScopeSet) /\ s.scopes \in Seq(ScopeSet)
            /\ Inmost(s.ps).data \in Seq(DataSet) /\ Inmost(s.ps).children \in Seq(Seq(Nat))
            /\ DOMAIN s = Fields
<1>1. s.ps \in Seq(ParseScopeSet) /\ s.scopes \in Seq(ScopeSet) /\ DOMAIN s = Fields
  BY StateFields DEF Stacks, StateSet
<1>2. /\ Len(s.ps) \in Nat \ {0} /\ DOMAIN s.ps = 1 .. Len(s.ps) /\ Inmost(s.ps) \in ParseScopeSet
      /\ Inmost(s.ps) = s.ps[Len(s.ps)]
  BY <1>1, StackOfSeq DEF Stacks
<1>3. /\ DOMAIN s.scopes = 1 .. Len(s.scopes) /\ Inmost(s.scopes) \in ScopeSet
      /\ Inmost(s.scopes) = s.scopes[Len(s.scopes)] /\ Len(s.scopes) = Len(s.ps)
  BY <1>1, StackOfSeq DEF Stacks
<1>4. Inmost(s.ps).data \in Seq(DataSet) /\ Inmost(s.ps).children \in Seq(Seq(Nat))
  BY <1>2 DEF ParseScopeSet
<1> QED BY <1>1, <1>2, <1>3, <1>4

LEMMA GoodStacks ==
  ASSUME NEW s, NEW Q, Good(s, Q)
  PROVE  Stacks(s)
<1>1. Shape(s)
  BY DEF Good
<1>2. s.ps # << >> /\ s.scopes # << >> /\ Len(s.scopes) = Len(s.ps)
  BY <1>1, Shapes
<1> QED BY <1>1, <1>2 DEF Stacks, Shape

LEMMA InmostMore ==
  ASSUME NEW s, Stacks(s), NEW Q, NEW R, NEW S, More(s, Q, R), NEW q \in ParseScopeSet,
         NEW t, t.ps = SetInmost(s.ps, q), t.scopes = s.scopes, t.nodes = s.nodes,
         \A k : k # Len(s.ps) => CountIn(S, k, Listing) = CountIn(R, k, Listing),
         ScopeRoutes(q, Inmost(s.scopes).defs), ScopeLists(q, Q, S, Len(s.ps)),
         Len(s.ps) = 1 => RootPart(q, s.scopes[1], s.nodes, Q)
  PROVE  More(t, Q, S)
<1> DEFINE n == Len(s.ps)
<1>1. /\ n \in Nat \ {0} /\ 1 \in 1 .. n /\ n \in 1 .. n /\ Inmost(s.scopes) = s.scopes[n]
      /\ s.ps \in Seq(ParseScopeSet) /\ s.ps # << >>
  BY StacksAre DEF Stacks
<1>2. /\ Len(t.ps) = n /\ t.ps[n] = q /\ \A k \in 1 .. n - 1 : t.ps[k] = s.ps[k]
  <2>1. /\ Len(SetInmost(s.ps, q)) = n /\ SetInmost(s.ps, q)[n] = q
        /\ \A k \in 1 .. n - 1 : SetInmost(s.ps, q)[k] = s.ps[k]
    BY <1>1, ReplacedScope
  <2> QED BY <2>1
<1> HIDE DEF n
<1>3. ASSUME NEW k \in 1 .. n
      PROVE  ScopeRoutes(t.ps[k], t.scopes[k].defs) /\ ScopeLists(t.ps[k], Q, S, k)
  <2>1. CASE k = n
    BY <1>1, <1>2, <2>1 DEF n
  <2>2. CASE k # n
    <3>1. t.ps[k] = s.ps[k]
      BY <1>1, <1>2, <2>2
    <3>2. ScopeRoutes(s.ps[k], s.scopes[k].defs) /\ ScopeLists(s.ps[k], Q, R, k)
      BY DEF More, n
    <3>3. CountIn(S, k, Listing) = CountIn(R, k, Listing)
      BY <2>2 DEF n
    <3> QED BY <3>1, <3>2, <3>3 DEF ScopeLists
  <2> QED BY <2>1, <2>2
<1>4. RootPart(t.ps[1], t.scopes[1], t.nodes, Q)
  <2>1. CASE n = 1
    BY <1>2, <2>1 DEF n
  <2>2. CASE n # 1
    <3>1. t.ps[1] = s.ps[1]
      BY <1>1, <1>2, <2>2
    <3> QED BY <3>1 DEF More
  <2> QED BY <2>1, <2>2
<1> QED BY <1>2, <1>3, <1>4 DEF More

LEMMA RootSame ==
  ASSUME NEW p, NEW g, NEW N, NEW Q, RootPart(p, g, N, Q),
         NEW q, q.names = p.names, q.routes = p.routes, DOMAIN q.data = DOMAIN p.data,
         \A i \in DOMAIN p.data :
           /\ q.data[i].node = p.data[i].node /\ q.data[i].name = p.data[i].name
           /\ ("event" \notin Q /\ Typed(N[p.data[i].node], g) /\ Plain(N[p.data[i].node], p.data[i])) =>
                Plain(N[p.data[i].node], q.data[i])
  PROVE  RootPart(q, g, N, Q)
<1>1. RootData(q, g, N, Q)
  BY DEF RootPart, RootData
<1>2. Clear(Q) => RootNames(q, g, N) /\ RootEnds(q, g, N)
  <2> SUFFICES ASSUME Clear(Q) PROVE RootNames(q, g, N) /\ RootEnds(q, g, N)
    OBVIOUS
  <2>1. RootNames(p, g, N) /\ RootEnds(p, g, N)
    BY DEF RootPart
  <2>2. \A name : InProgress(p, name) => InProgress(q, name)
    BY DEF InProgress
  <2>3. RootNames(q, g, N)
    BY <2>1, <2>2 DEF RootNames
  <2> QED BY <2>1, <2>3 DEF RootEnds
<1> QED BY <1>1, <1>2 DEF RootPart

\* The innermost node_data and the lists change.
LEMMA DataMore ==
  ASSUME NEW s, Stacks(s), NEW Q, NEW R, NEW S, More(s, Q, R), NEW q \in ParseScopeSet,
         NEW t, t.ps = SetInmost(s.ps, q), t.scopes = s.scopes, t.nodes = s.nodes,
         \A k : k # Len(s.ps) => CountIn(S, k, Listing) = CountIn(R, k, Listing),
         ScopeLists(q, Q, S, Len(s.ps)), Inmost(s.ps).data # << >>, NEW e \in DataSet,
         q.data = SetInmost(Inmost(s.ps).data, e), q.names = Inmost(s.ps).names,
         q.routes = Inmost(s.ps).routes, e.node = Inmost(Inmost(s.ps).data).node,
         e.name = Inmost(Inmost(s.ps).data).name,
         (Len(s.ps) = 1 /\ "event" \notin Q /\ Typed(s.nodes[e.node], s.scopes[1])
            /\ Plain(s.nodes[e.node], Inmost(Inmost(s.ps).data))) => Plain(s.nodes[e.node], e)
  PROVE  More(t, Q, S)
<1> DEFINE n == Len(s.ps)
           p == Inmost(s.ps)
           m == Len(p.data)
<1>1. /\ n \in Nat \ {0} /\ n \in 1 .. n /\ p = s.ps[n] /\ Inmost(s.scopes) = s.scopes[n]
      /\ p \in ParseScopeSet /\ p.data \in Seq(DataSet)
  BY StacksAre
<1>2. /\ Inmost(p.data) = p.data[m] /\ m \in DOMAIN p.data /\ DOMAIN p.data = 1 .. m /\ m \in Nat \ {0}
  BY <1>1, InmostData
<1>3. /\ DOMAIN q.data = DOMAIN p.data /\ q.data[m] = e /\ \A i \in 1 .. m - 1 : q.data[i] = p.data[i]
  <2>1. p.data # << >> /\ q.data = SetInmost(p.data, e)
    OBVIOUS
  <2>2. /\ DOMAIN SetInmost(p.data, e) = DOMAIN p.data /\ SetInmost(p.data, e)[m] = e
        /\ \A i \in 1 .. m - 1 : SetInmost(p.data, e)[i] = p.data[i]
    BY <1>1, <2>1, ReplacedData
  <2> QED BY <2>1, <2>2
<1>4. \A i \in DOMAIN p.data : i # m => q.data[i] = p.data[i]
  BY <1>2, <1>3
<1>5. ScopeRoutes(q, Inmost(s.scopes).defs)
  <2>1. ScopeRoutes(s.ps[n], s.scopes[n].defs)
    BY <1>1 DEF More
  <2>2. q.routes = p.routes
    OBVIOUS
  <2> QED BY <1>1, <2>1, <2>2 DEF ScopeRoutes
<1>6. ASSUME n = 1 PROVE RootPart(q, s.scopes[1], s.nodes, Q)
  <2>1. RootPart(p, s.scopes[1], s.nodes, Q)
    BY <1>1, <1>6 DEF More
  <2>2. ASSUME NEW i \in DOMAIN p.data
        PROVE  /\ q.data[i].node = p.data[i].node /\ q.data[i].name = p.data[i].name
               /\ ("event" \notin Q /\ Typed(s.nodes[p.data[i].node], s.scopes[1])
                     /\ Plain(s.nodes[p.data[i].node], p.data[i])) =>
                    Plain(s.nodes[p.data[i].node], q.data[i])
    <3>1. CASE i = m
      BY <1>2, <1>3, <1>6, <3>1
    <3>2. CASE i # m
      BY <1>4, <3>2
    <3> QED BY <3>1, <3>2
  <2>3. q.names = p.names /\ q.routes = p.routes
    OBVIOUS
  <2> HIDE DEF p
  <2> QED BY <1>3, <2>1, <2>2, <2>3, RootSame
<1> HIDE DEF p
<1> QED BY <1>5, <1>6, InmostMore

\* Only the lists change.
LEMMA ListMore ==
  ASSUME NEW s, Stacks(s), NEW Q, NEW R, NEW S, More(s, Q, R), NEW q \in ParseScopeSet,
         NEW t, t.ps = SetInmost(s.ps, q), t.scopes = s.scopes, t.nodes = s.nodes,
         \A k : k # Len(s.ps) => CountIn(S, k, Listing) = CountIn(R, k, Listing),
         ScopeLists(q, Q, S, Len(s.ps)), q.data = Inmost(s.ps).data, q.names = Inmost(s.ps).names,
         q.routes = Inmost(s.ps).routes
  PROVE  More(t, Q, S)
<1> DEFINE n == Len(s.ps)
           p == Inmost(s.ps)
<1>1. n \in Nat \ {0} /\ n \in 1 .. n /\ p = s.ps[n] /\ Inmost(s.scopes) = s.scopes[n]
  BY StacksAre
<1>2. q.data = p.data /\ q.names = p.names /\ q.routes = p.routes
  OBVIOUS
<1> HIDE DEF p
<1>3. ScopeRoutes(q, Inmost(s.scopes).defs)
  <2>1. ScopeRoutes(s.ps[n], s.scopes[n].defs)
    BY <1>1 DEF More
  <2> QED BY <1>1, <1>2, <2>1 DEF ScopeRoutes
<1>4. ASSUME n = 1 PROVE RootPart(q, s.scopes[1], s.nodes, Q)
  <2>1. RootPart(p, s.scopes[1], s.nodes, Q)
    BY <1>1, <1>4 DEF More
  <2> QED BY <1>2, <2>1, RootSame
<1> QED BY <1>3, <1>4, InmostMore

\* A value that is not one of an event leaves a node of the profile as it is.
LEMMA PlainStep ==
  ASSUME NEW n, NEW g, Typed(n, g), RootTypes(g), NEW d, Plain(n, d), NEW i,
         Profiled(n) => i = None \/ (i \in n.interfaces /\ ~IsEvent(i)),
         NEW e, DOMAIN e.values \subseteq DOMAIN d.values \cup {i.id},
         e.current \in {None, i, d.current}
  PROVE  Plain(n, e)
<1>1. CASE ~Profiled(n)
  BY <1>1 DEF Plain, Creatable, Profiled
<1>2. CASE Profiled(n)
  <2>1. n.interfaces = BuiltIn[n.type] /\ n.type \in DOMAIN BuiltIn /\ n.type # Script
    BY <1>2 DEF Typed, RootTypes, Profiled
  <2>2. \A j, k \in n.interfaces : j.id # "" /\ (j.id = k.id => j = k)
    BY <2>1, ParseAssumption
  <2>3. \A j \in n.interfaces : j.id \in DOMAIN d.values => ~IsEvent(j)
    BY <2>1 DEF Plain, Creatable
  <2>4. ASSUME NEW j \in n.interfaces, j.id \in DOMAIN e.values PROVE ~IsEvent(j)
    <3>1. CASE j.id \in DOMAIN d.values
      BY <2>3, <3>1
    <3>2. CASE j.id = i.id
      <4>1. i # None
        <5>1. None.id = "" /\ j.id # ""
          BY <2>2 DEF None
        <5> QED BY <3>2, <5>1
      <4>2. i = j
        BY <1>2, <2>2, <3>2, <4>1
      <4> QED BY <1>2, <4>1, <4>2
    <3> QED BY <2>4, <3>1, <3>2
  <2>5. Creatable(n, e)
    BY <2>4 DEF Creatable
  <2>6. e.current = None \/ (e.current \in n.interfaces /\ ~IsEvent(e.current))
    <3>1. d.current = None \/ (d.current \in n.interfaces /\ ~IsEvent(d.current))
      BY <1>2 DEF Plain
    <3> QED BY <1>2, <3>1
  <2> QED BY <2>5, <2>6 DEF Plain
<1> QED BY <1>1, <1>2

-----------------------------------------------------------------------------
(* The parts of the actions.                                               *)

LEMMA FailsSound ==
  ASSUME NEW s, DOMAIN s = Fields, NEW Q, NEW f, f # "parsing", f # "exception", Causes(f, Q)
  PROVE  \A R : Sound([s EXCEPT !.fault = f], Q, R)
<1> DEFINE t == [s EXCEPT !.fault = f]
<1>1. t.fault = f
  BY FaultSet
<1> HIDE DEF t
<1>2. \A R : Sound(t, Q, R)
  BY <1>1 DEF Sound
<1> QED BY <1>2 DEF t

LEMMA OverSound ==
  ASSUME NEW s, NEW Q, NEW R, Sound(s, Q, R), s.fault # "parsing", NEW S
  PROVE  Sound(s, Q, S)
BY DEF Sound

LEMMA ChildrenCause ==
  ASSUME NEW Q, "script event" \in Q
  PROVE  Causes("children", Q) /\ Causes("scene", Q)
BY DEF Causes

LEMMA NoCause ==
  ASSUME NEW Q
  PROVE  Causes("parsing", Q) /\ Causes("exception", Q) /\ Causes("done", Q) /\ Causes("invalid", Q)
BY DEF Causes

\* The innermost list of nodes is there.
LEMMA ListThere ==
  ASSUME NEW s, Stacks(s), NEW Q, NEW R, More(s, Q, R), CountIn(R, Len(s.ps), Listing) \in Nat \ {0},
         "script event" \notin Q \/ Len(s.ps) = 1
  PROVE  Inmost(s.ps).children # << >>
<1> DEFINE n == Len(s.ps)
<1>1. n \in 1 .. n /\ Inmost(s.ps) = s.ps[n]
  BY StacksAre
<1>2. ScopeLists(s.ps[n], Q, R, n)
  BY <1>1 DEF More
<1>3. Len(s.ps[n].children) # 0
  BY <1>2 DEF ScopeLists
<1>4. Len(<< >>) = 0
  OBVIOUS
<1> QED BY <1>1, <1>3, <1>4

LEMMA PoppedScope ==
  ASSUME NEW p \in ParseScopeSet, p.children # << >>
  PROVE  LET q == [p EXCEPT !.children = Outer(@)]
         IN /\ q \in ParseScopeSet /\ q.data = p.data /\ q.names = p.names /\ q.routes = p.routes
            /\ q.bodies = p.bodies /\ q.children = Outer(p.children)
            /\ Len(q.children) = Len(p.children) - 1 /\ Len(p.children) \in Nat
<1>1. p.children \in Seq(Seq(Nat))
  BY DEF ParseScopeSet
<1>2. Outer(p.children) \in Seq(Seq(Nat)) /\ Len(Outer(p.children)) = Len(p.children) - 1 /\ Len(p.children) \in Nat
  BY <1>1, StackOfSeq
<1> DEFINE q == [p EXCEPT !.children = Outer(@)]
<1>3. /\ q \in ParseScopeSet /\ q.data = p.data /\ q.names = p.names /\ q.routes = p.routes
      /\ q.children = Outer(p.children) /\ q.bodies = p.bodies
  BY <1>2 DEF ParseScopeSet
<1> HIDE DEF q
<1>4. Len(q.children) = Len(p.children) - 1
  BY <1>2, <1>3
<1> QED BY <1>2, <1>3, <1>4 DEF q

LEMMA Popped ==
  ASSUME NEW s, Stacks(s), Inmost(s.ps).children # << >>
  PROVE  LET p == Inmost(s.ps)
             q == [p EXCEPT !.children = Outer(@)]
         IN /\ q \in ParseScopeSet /\ q.data = p.data /\ q.names = p.names /\ q.routes = p.routes
            /\ Len(q.children) = Len(p.children) - 1 /\ Len(p.children) \in Nat
BY StacksAre, PoppedScope

\* As many lists more, or less, as rules with a list.
LEMMA ListsShift ==
  ASSUME NEW p, NEW q, NEW Q, NEW R, NEW S, NEW k, ScopeLists(p, Q, R, k), NEW a \in Int,
         CountIn(R, k, Listing) \in Nat, CountIn(S, k, Listing) = CountIn(R, k, Listing) + a,
         Len(q.children) = Len(p.children) + a
  PROVE  ScopeLists(q, Q, S, k)
<1>1. SUFFICES ASSUME k = 1 \/ "script event" \notin Q
               PROVE  Len(q.children) = CountIn(S, k, Listing)
  BY DEF ScopeLists
<1>2. Len(p.children) = CountIn(R, k, Listing)
  BY <1>1 DEF ScopeLists
<1> QED BY <1>2

LEMMA PopChildrenIs ==
  ASSUME NEW s, DOMAIN s = Fields, s.fault = "parsing"
  PROVE  LET p == Inmost(s.ps)
             q == [p EXCEPT !.children = Outer(@)]
             t == PopChildren(s)
         IN /\ p.children = << >> => t = [s EXCEPT !.fault = "children"]
            /\ p.children # << >> => /\ t.fault = "parsing" /\ t.ps = SetInmost(s.ps, q)
                                     /\ t.scopes = s.scopes /\ t.nodes = s.nodes /\ t.rules = s.rules
<1> DEFINE p == Inmost(s.ps)
           q == [p EXCEPT !.children = Outer(@)]
           u == [s EXCEPT !.ps = SetInmost(@, q)]
<1>1. PopChildren(s) = IF p.children = << >> THEN [s EXCEPT !.fault = "children"] ELSE u
  BY DEF PopChildren, Unless
<1>3. /\ u.fault = "parsing" /\ u.ps = SetInmost(s.ps, q) /\ u.scopes = s.scopes /\ u.nodes = s.nodes
      /\ u.rules = s.rules
  BY DEF Fields
<1> HIDE DEF u
<1> QED BY <1>1, <1>3

LEMMA PopChildrenIsSound ==
  ASSUME NEW s, NEW Q, NEW R \in Seq(RuleNames), NEW x \in Listed, Sound(s, Q, Append(R, x)),
         s.fault = "parsing" => Stacks(s) /\ Top(R) = Len(s.ps)
  PROVE  Sound(PopChildren(s), Q, R)
<1> DEFINE n == Len(s.ps)
           p == Inmost(s.ps)
           q == [p EXCEPT !.children = Outer(@)]
           t == PopChildren(s)
<1>1. CASE s.fault # "parsing"
  <2>1. t = s
    BY <1>1 DEF PopChildren, Unless
  <2> QED BY <1>1, <2>1, OverSound
<1>2. CASE s.fault = "parsing"
  <2>1. Stacks(s) /\ Top(R) = n /\ More(s, Q, Append(R, x)) /\ DOMAIN s = Fields /\ n \in 1 .. n
    BY <1>2, StacksAre DEF Sound
  <2>2. /\ CountIn(R, n, Listing) \in Nat /\ CountIn(Append(R, x), n, Listing) = CountIn(R, n, Listing) + 1
        /\ \A k : k # n => CountIn(Append(R, x), k, Listing) = CountIn(R, k, Listing)
    BY <2>1, ListedPush
  <2>3. CASE p.children = << >>
    <3>1. t = [s EXCEPT !.fault = "children"]
      BY <1>2, <2>1, <2>3, PopChildrenIs
    <3>2. "script event" \in Q
      <4>1. CountIn(Append(R, x), n, Listing) \in Nat \ {0}
        BY <2>2
      <4> QED BY <2>1, <2>3, <4>1, ListThere
    <3> HIDE DEF t
    <3>3. Sound(t, Q, R)
      BY <2>1, <3>1, <3>2, ChildrenCause, FailsSound
    <3> QED BY <3>3 DEF t
  <2>4. CASE p.children # << >>
    <3>1. /\ t.fault = "parsing" /\ t.ps = SetInmost(s.ps, q) /\ t.scopes = s.scopes
          /\ t.nodes = s.nodes
      BY <1>2, <2>1, <2>4, PopChildrenIs
    <3>2. /\ q \in ParseScopeSet /\ q.data = p.data /\ q.names = p.names /\ q.routes = p.routes
          /\ Len(q.children) = Len(p.children) - 1 /\ Len(p.children) \in Nat
      BY <2>1, <2>4, Popped
    <3> HIDE DEF t, q
    <3>3. ScopeLists(q, Q, R, n)
      <4>1. ScopeLists(s.ps[n], Q, Append(R, x), n) /\ p = s.ps[n]
        BY <2>1, StacksAre DEF More
      <4> DEFINE S == Append(R, x)
                 a == 0 - 1
      <4>2. /\ CountIn(S, n, Listing) \in Nat /\ CountIn(R, n, Listing) = CountIn(S, n, Listing) + a
            /\ Len(q.children) = Len(p.children) + a /\ a \in Int
        BY <2>2, <3>2
      <4>3. ScopeLists(p, Q, S, n)
        BY <4>1
      <4> HIDE DEF S, a, n, p
      <4>4. ScopeLists(q, Q, R, n)
        BY <4>2, <4>3, ListsShift
      <4> QED BY <4>4
    <3>4. More(t, Q, R)
      BY <2>1, <2>2, <3>1, <3>2, <3>3, ListMore
    <3>5. Sound(t, Q, R)
      BY <3>1, <3>4, NoCause DEF Sound
    <3> QED BY <3>5 DEF t
  <2> QED BY <2>3, <2>4
<1> QED BY <1>1, <1>2

\* In a PROTO where an event of a Script was IS'd, the lists are not asked for.
LEMMA LoosePopIsSound ==
  ASSUME NEW s, NEW Q, NEW R, Sound(s, Q, R), "script event" \in Q,
         s.fault = "parsing" => Stacks(s) /\ Len(s.ps) # 1
  PROVE  Sound(PopChildren(s), Q, R)
<1> DEFINE n == Len(s.ps)
           p == Inmost(s.ps)
           q == [p EXCEPT !.children = Outer(@)]
           t == PopChildren(s)
<1>1. CASE s.fault # "parsing"
  <2>1. t = s
    BY <1>1 DEF PopChildren, Unless
  <2> QED BY <1>1, <2>1, OverSound
<1>2. CASE s.fault = "parsing"
  <2>1. Stacks(s) /\ n # 1 /\ More(s, Q, R) /\ DOMAIN s = Fields
    BY <1>2, StacksAre DEF Sound
  <2>2. CASE p.children = << >>
    <3>1. t = [s EXCEPT !.fault = "children"]
      BY <1>2, <2>1, <2>2, PopChildrenIs
    <3> HIDE DEF t
    <3>2. Sound(t, Q, R)
      BY <2>1, <3>1, ChildrenCause, FailsSound
    <3> QED BY <3>2 DEF t
  <2>3. CASE p.children # << >>
    <3>1. /\ t.fault = "parsing" /\ t.ps = SetInmost(s.ps, q) /\ t.scopes = s.scopes
          /\ t.nodes = s.nodes
      BY <1>2, <2>1, <2>3, PopChildrenIs
    <3>2. /\ q \in ParseScopeSet /\ q.data = p.data /\ q.names = p.names /\ q.routes = p.routes
      BY <2>1, <2>3, Popped
    <3> HIDE DEF t, q
    <3>3. ScopeLists(q, Q, R, n)
      BY <2>1 DEF ScopeLists
    <3>4. More(t, Q, R)
      BY <2>1, <3>1, <3>2, <3>3, ListMore
    <3>5. Sound(t, Q, R)
      BY <3>1, <3>4, NoCause DEF Sound
    <3> QED BY <3>5 DEF t
  <2> QED BY <2>2, <2>3
<1> QED BY <1>1, <1>2

\* The lists, while the field or event i of a node is read.
ListsFor(R, i) == IF HoldsNodes(i) THEN Append(R, i.value) ELSE R

LEMMA ListsForField ==
  ASSUME NEW R \in Seq(RuleNames), NEW i \in Interface
  PROVE  /\ CountIn(R, Top(R), Listing) \in Nat
         /\ CountIn(ListsFor(R, i), Top(R), Listing) =
              CountIn(R, Top(R), Listing) + IF HoldsNodes(i) THEN 1 ELSE 0
         /\ \A k : k # Top(R) => CountIn(ListsFor(R, i), k, Listing) = CountIn(R, k, Listing)
         /\ HoldsNodes(i) => i.value \in Listed
<1>1. HoldsNodes(i) => i.value \in Listed
  BY DEF HoldsNodes, Interface, Listed
<1>2. CASE HoldsNodes(i)
  <2>1. ListsFor(R, i) = Append(R, i.value)
    BY <1>2 DEF ListsFor
  <2> QED BY <1>1, <1>2, <2>1, ListedPush
<1>3. CASE ~HoldsNodes(i)
  <2>1. ListsFor(R, i) = R
    BY <1>3 DEF ListsFor
  <2>2. CountIn(R, Top(R), Listing) \in Nat
    <3>1. "sfnode" \in Listed
      BY DEF Listed
    <3> QED BY <3>1, ListedPush
  <2> QED BY <1>1, <1>3, <2>1, <2>2
<1> QED BY <1>2, <1>3

\* The interface i is one that the node may be given a value of.
Given(n, i, Q) == "event" \in Q \/ (Profiled(n) => i \in n.interfaces /\ ~IsEvent(i))

LEMMA FieldStartIsSound ==
  ASSUME NEW s, NEW Q, Fine(s, Q), s.fault = "parsing" => Inmost(s.rules) = "node",
         NEW i \in Interface, NEW R \in Seq(RuleNames), Sound(s, Q, R), Top(R) = Top(s.rules),
         s.fault = "parsing" =>
           LET d == Inmost(Inmost(s.ps).data)
           IN Given(s.nodes[d.node], i, Q) /\ (i.id \in DOMAIN d.values => "twice" \in Q)
  PROVE  Sound(FieldStart(s, i), Q, ListsFor(R, i))
<1> DEFINE p == Inmost(s.ps)
           d == Inmost(p.data)
           e == [d EXCEPT !.values = With(@, i.id, << >>), !.current = i]
           q == [p EXCEPT !.data = SetInmost(@, e),
                          !.children = IF HoldsNodes(i) THEN Append(@, << >>) ELSE @]
           t == [s EXCEPT !.ps = SetInmost(@, q)]
           n == Len(s.ps)
<1>1. CASE s.fault # "parsing"
  <2>1. FieldStart(s, i) = s
    BY <1>1 DEF FieldStart, Unless
  <2> QED BY <1>1, <2>1, OverSound
<1>2. CASE s.fault = "parsing" /\ i.id \in DOMAIN d.values
  <2>1. DOMAIN s = Fields
    BY <1>2, StateFields DEF Fine, Good, Shape
  <2>2. FieldStart(s, i) = [s EXCEPT !.fault = "field"]
    BY <1>2 DEF FieldStart, Unless
  <2>3. Causes("field", Q)
    BY <1>2 DEF Causes
  <2>4. "field" # "parsing" /\ "field" # "exception"
    OBVIOUS
  <2>5. \A S : Sound([s EXCEPT !.fault = "field"], Q, S)
    BY <2>1, <2>3, <2>4, FailsSound
  <2> QED BY <2>2, <2>5
<1>3. CASE s.fault = "parsing" /\ i.id \notin DOMAIN d.values
  <2>1. Good(s, Q) /\ Inmost(s.rules) = "node" /\ More(s, Q, R)
    BY <1>3 DEF Fine, Sound
  <2>2. FieldStart(s, i) = t
    BY <1>3 DEF FieldStart, Unless
  <2>3. p.data # << >> /\ d \in DataSet
    BY <2>1, NodeRead
  <2>4. p \in ParseScopeSet /\ p.data \in Seq(DataSet) /\ s \in StateSet
    BY <2>1, GoodInmost
  <2>5. Stacks(s)
    BY <2>1, GoodStacks
  <2>6. n = Top(R) /\ n \in 1 .. n /\ p = s.ps[n]
    <3>1. Len(s.ps) = Top(s.rules)
      BY <2>1, Shapes DEF Good
    <3> QED BY <2>5, <3>1, StacksAre
  <2>7. /\ With(d.values, i.id, << >>) \in Maps(Text, Seq(Nat))
        /\ DOMAIN With(d.values, i.id, << >>) = DOMAIN d.values \cup {i.id}
    <3>1. d.values \in Maps(Text, Seq(Nat)) /\ i.id \in Text /\ << >> \in Seq(Nat)
      BY <2>3, EmptySeq DEF DataSet, Interface, Text
    <3>2. With(d.values, i.id, << >>) \in Maps(Text, Seq(Nat))
      BY <3>1, WithMap
    <3>3. DOMAIN With(d.values, i.id, << >>) = DOMAIN d.values \cup {i.id}
      BY DEF With
    <3> QED BY <3>2, <3>3
  <2>8. /\ e \in DataSet /\ e.node = d.node /\ e.name = d.name /\ e.current = i
        /\ DOMAIN e.values = DOMAIN d.values \cup {i.id}
    BY <2>3, <2>7 DEF DataSet
  <2>9. SetInmost(p.data, e) \in Seq(DataSet)
    BY <2>3, <2>4, <2>8, ReplacedData
  <2>10. p.children \in Seq(Seq(Nat))
    BY <2>4 DEF ParseScopeSet
  <2>11. /\ Append(p.children, << >>) \in Seq(Seq(Nat)) /\ Len(p.children) \in Nat
         /\ Len(Append(p.children, << >>)) = Len(p.children) + 1
    BY <2>10, Pushed, EmptySeq
  <2>12. /\ q \in ParseScopeSet /\ q.data = SetInmost(p.data, e) /\ q.names = p.names
         /\ q.routes = p.routes
         /\ q.children = IF HoldsNodes(i) THEN Append(p.children, << >>) ELSE p.children
    BY <2>4, <2>9, <2>10, <2>11 DEF ParseScopeSet
  <2> HIDE DEF q, e
  <2>13. Len(q.children) = Len(p.children) + IF HoldsNodes(i) THEN 1 ELSE 0
    <3> HIDE DEF p
    <3>1. CASE HoldsNodes(i)
      BY <2>11, <2>12, <3>1
    <3>2. CASE ~HoldsNodes(i)
      BY <2>11, <2>12, <3>2
    <3> QED BY <3>1, <3>2
  <2>14. ScopeLists(q, Q, ListsFor(R, i), n)
    <3>1. ScopeLists(s.ps[n], Q, R, n)
      BY <2>1, <2>6 DEF More
    <3> DEFINE S == ListsFor(R, i)
               a == IF HoldsNodes(i) THEN 1 ELSE 0
    <3>2. CountIn(R, n, Listing) \in Nat /\ CountIn(S, n, Listing) = CountIn(R, n, Listing) + a
      BY <2>6, ListsForField
    <3>3. a \in Int /\ Len(q.children) = Len(p.children) + a
      BY <2>13
    <3>4. ScopeLists(p, Q, R, n)
      BY <2>6, <3>1
    <3> HIDE DEF S, a, n, p
    <3>5. ScopeLists(q, Q, S, n)
      BY <3>2, <3>3, <3>4, ListsShift
    <3> QED BY <3>5 DEF S
  <2>15. ASSUME "event" \notin Q, Typed(s.nodes[e.node], s.scopes[1]), Plain(s.nodes[e.node], d), n = 1
         PROVE  Plain(s.nodes[e.node], e)
    <3>1. RootTypes(s.scopes[1])
      BY <2>1 DEF More, RootPart
    <3>2. Given(s.nodes[e.node], i, Q)
      BY <1>3, <2>8
    <3>3. Profiled(s.nodes[e.node]) => i = None \/ (i \in s.nodes[e.node].interfaces /\ ~IsEvent(i))
      BY <2>15, <3>2 DEF Given
    <3>4. e.current \in {None, i, d.current} /\ DOMAIN e.values \subseteq DOMAIN d.values \cup {i.id}
      BY <2>8
    <3> HIDE DEF d
    <3> QED BY <2>15, <3>1, <3>3, <3>4, PlainStep
  <2>16. t.ps = SetInmost(s.ps, q) /\ t.scopes = s.scopes /\ t.nodes = s.nodes /\ t.fault = "parsing"
    BY <1>3, <2>4 DEF StateSet
  <2> HIDE DEF t
  <2>17. \A k : k # n => CountIn(ListsFor(R, i), k, Listing) = CountIn(R, k, Listing)
    BY <2>6, ListsForField
  <2>18. More(t, Q, ListsFor(R, i))
    BY <2>1, <2>3, <2>5, <2>8, <2>12, <2>14, <2>15, <2>16, <2>17, DataMore
  <2> QED BY <2>2, <2>16, <2>18, NoCause DEF Sound
<1> QED BY <1>1, <1>2, <1>3

MappedTo(s, t, q, e) ==
  LET p == Inmost(s.ps)
      d == Inmost(p.data)
  IN /\ t = [s EXCEPT !.ps = SetInmost(@, q)]
     /\ q \in ParseScopeSet /\ e \in DataSet
     /\ q.data = SetInmost(p.data, e) /\ q.names = p.names /\ q.routes = p.routes
     /\ q.children = p.children /\ e.node = d.node /\ e.name = d.name
     /\ DOMAIN e.values \subseteq DOMAIN d.values /\ e.current = None

LEMMA MappedIs ==
  ASSUME NEW s, Stacks(s), Inmost(s.ps).data # << >>, NEW i \in Interface, NEW j \in Interface
  PROVE  \E q, e : MappedTo(s, Mapped(s, i, j), q, e)
<1> DEFINE p == Inmost(s.ps)
           d == Inmost(p.data)
           v == IF s.nodes[d.node].type = Script THEN d.values
                ELSE Restrict(d.values, DOMAIN d.values \ {i.id})
           e == [d EXCEPT !.isMap = @ \cup {<<i.id, j.id>>}, !.values = v, !.current = None]
           q == [p EXCEPT !.data = SetInmost(@, e), !.said = @ \cup {<<d.node, i.id, j.id>>}]
<1>1. Mapped(s, i, j) = [s EXCEPT !.ps = SetInmost(@, q)]
  BY DEF Mapped
<1>2. p \in ParseScopeSet /\ p.data \in Seq(DataSet) /\ p.data # << >>
  BY StacksAre
<1>3. d \in DataSet
  BY <1>2, InmostData
<1>4. i.id \in STRING /\ j.id \in STRING
  BY DEF Interface
<1>5. d.values \in Maps(Text, Seq(Nat))
  BY <1>3 DEF DataSet
<1>6. Restrict(d.values, DOMAIN d.values \ {i.id}) \in Maps(Text, Seq(Nat))
  BY <1>5, RestrictMap
<1>7. v \in Maps(Text, Seq(Nat)) /\ DOMAIN v \subseteq DOMAIN d.values
  <2>1. DOMAIN Restrict(d.values, DOMAIN d.values \ {i.id}) = DOMAIN d.values \ {i.id}
    BY DEF Restrict
  <2>2. CASE s.nodes[d.node].type = Script
    BY <1>5, <2>2
  <2>3. CASE s.nodes[d.node].type # Script
    BY <1>6, <2>1, <2>3
  <2> QED BY <2>2, <2>3
<1>8. <<i.id, j.id>> \in STRING \X STRING
  BY <1>4
<1> HIDE DEF v
<1>9. e \in DataSet /\ e.node = d.node /\ e.name = d.name /\ e.values = v /\ e.current = None
  BY <1>3, <1>7, <1>8 DEF DataSet
<1> HIDE DEF e
<1>10. SetInmost(p.data, e) \in Seq(DataSet)
  BY <1>2, <1>9, ReplacedData
<1>11. <<d.node, i.id, j.id>> \in Nat \X STRING \X STRING
  BY <1>3, <1>4 DEF DataSet
<1>12. /\ q \in ParseScopeSet /\ q.data = SetInmost(p.data, e) /\ q.names = p.names
       /\ q.routes = p.routes /\ q.children = p.children
  BY <1>2, <1>10, <1>11 DEF ParseScopeSet
<1>13. DOMAIN e.values \subseteq DOMAIN d.values
  BY <1>7, <1>9
<1> HIDE DEF q
<1>14. MappedTo(s, Mapped(s, i, j), q, e)
  BY <1>1, <1>9, <1>12, <1>13 DEF MappedTo
<1> QED BY <1>14

LEMMA MappedIsSound ==
  ASSUME NEW s, NEW Q, Good(s, Q), Inmost(s.rules) = "node", s.fault = "parsing",
         NEW i \in Interface, NEW j \in Interface, NEW R, More(s, Q, R)
  PROVE  Sound(Mapped(s, i, j), Q, R)
<1> DEFINE p == Inmost(s.ps)
           d == Inmost(p.data)
           n == Len(s.ps)
           t == Mapped(s, i, j)
<1>1. Stacks(s) /\ p.data # << >>
  BY GoodStacks, NodeRead
<1>14. PICK q, e : MappedTo(s, t, q, e)
  BY <1>1, MappedIs
<1>2. /\ t = [s EXCEPT !.ps = SetInmost(@, q)]
      /\ q \in ParseScopeSet /\ e \in DataSet
      /\ q.data = SetInmost(p.data, e) /\ q.names = p.names /\ q.routes = p.routes
      /\ q.children = p.children /\ e.node = d.node /\ e.name = d.name
      /\ DOMAIN e.values \subseteq DOMAIN d.values /\ e.current = None
  BY <1>14 DEF MappedTo
<1>3. t.ps = SetInmost(s.ps, q) /\ t.scopes = s.scopes /\ t.nodes = s.nodes /\ t.fault = "parsing"
  <2>1. DOMAIN s = Fields
    BY <1>1, StacksAre
  <2> QED BY <1>2, <2>1 DEF Fields
<1>4. ScopeLists(q, Q, R, n)
  <2>1. ScopeLists(s.ps[n], Q, R, n) /\ p = s.ps[n]
    BY <1>1, StacksAre DEF More
  <2>2. ScopeLists(p, Q, R, n)
    BY <2>1
  <2> QED BY <1>2, <2>2 DEF ScopeLists
<1>5. ASSUME n = 1, "event" \notin Q, Typed(s.nodes[e.node], s.scopes[1]), Plain(s.nodes[e.node], d)
      PROVE  Plain(s.nodes[e.node], e)
  <2>1. RootTypes(s.scopes[1])
    BY DEF More, RootPart
  <2>2. DOMAIN e.values \subseteq DOMAIN d.values \cup {None.id} /\ e.current \in {None, None, d.current}
    BY <1>2
  <2> HIDE DEF d
  <2> QED BY <1>5, <2>1, <2>2, PlainStep
<1> HIDE DEF t
<1>6. More(t, Q, R)
  BY <1>1, <1>2, <1>3, <1>4, <1>5, DataMore
<1> QED BY <1>3, <1>6, NoCause DEF Sound, t

\* The field, or event, i IS the PROTO's j: its list is done with.
LEMMA IsMappingIsSound ==
  ASSUME NEW s, NEW Q, Fine(s, Q), s.fault = "parsing" => Inmost(s.rules) = "node",
         NEW i \in Interface, NEW j \in Interface, NEW R \in Seq(RuleNames),
         Sound(s, Q, ListsFor(R, i)), s.fault = "parsing" => Top(R) = Len(s.ps)
  PROVE  Sound(IsMapping(s, i, j), Q, R)
<1>1. CASE s.fault # "parsing"
  <2>1. IsMapping(s, i, j) = s
    BY <1>1 DEF IsMapping, Unless
  <2> QED BY <1>1, <2>1, OverSound
<1>2. CASE s.fault = "parsing"
  <2> DEFINE t == Mapped(s, i, j)
  <2>1. Good(s, Q) /\ More(s, Q, ListsFor(R, i)) /\ Inmost(s.rules) = "node"
    BY <1>2 DEF Fine, Sound
  <2>2. Sound(t, Q, ListsFor(R, i)) /\ Fine(t, Q) /\ Len(t.ps) = Len(s.ps)
    <3>1. Len(t.ps) = Len(s.ps)
      <4>1. Stacks(s) /\ s.ps # << >> /\ s.ps \in Seq(ParseScopeSet) /\ Inmost(s.ps).data # << >> /\ DOMAIN s = Fields
        BY <2>1, GoodStacks, NodeRead, StacksAre DEF Stacks
      <4>2. PICK q \in ParseScopeSet : t = [s EXCEPT !.ps = SetInmost(@, q)]
        BY <4>1, MappedIs DEF MappedTo
      <4>3. t.ps = SetInmost(s.ps, q)
        BY <4>1, <4>2 DEF Fields
      <4>4. Len(SetInmost(s.ps, q)) = Len(s.ps)
        BY <4>1, ReplacedScope
      <4> QED BY <4>3, <4>4
    <3> QED BY <1>2, <2>1, <3>1, MappedIsSound, MappedIsFine
  <2>3. IsMapping(s, i, j) = IF HoldsNodes(i) THEN PopChildren(t) ELSE t
    BY <1>2 DEF IsMapping, Unless
  <2> HIDE DEF t
  <2>4. CASE HoldsNodes(i)
    <3>1. ListsFor(R, i) = Append(R, i.value) /\ i.value \in Listed
      BY <2>4, ListsForField DEF ListsFor
    <3>2. t.fault = "parsing" => Stacks(t) /\ Top(R) = Len(t.ps)
      BY <1>2, <2>2, GoodStacks DEF Fine
    <3>3. Sound(t, Q, Append(R, i.value))
      BY <2>2, <3>1
    <3>4. Sound(PopChildren(t), Q, R)
      BY <3>1, <3>2, <3>3, PopChildrenIsSound
    <3> QED BY <2>3, <2>4, <3>4
  <2>5. CASE ~HoldsNodes(i)
    <3>1. ListsFor(R, i) = R
      BY <2>5 DEF ListsFor
    <3> QED BY <2>2, <2>3, <2>5, <3>1
  <2> QED BY <2>4, <2>5
<1> QED BY <1>1, <1>2

\* The value of the field i, of which there is one list of nodes more.
LEMMA ValueIsSound ==
  ASSUME NEW s, NEW Q, Fine(s, Q), s.fault = "parsing" => Inmost(s.rules) = "node",
         NEW i \in Interface, Sound(s, Q, ListsFor(s.rules, i))
  PROVE  Sound(Value(s, i), Q, Value(s, i).rules)
<1> DEFINE t == [s EXCEPT !.rules = Append(@, i.value)]
<1>1. CASE s.fault # "parsing"
  <2>1. Value(s, i) = s
    BY <1>1 DEF Value
  <2> QED BY <1>1, <2>1, OverSound
<1>2. CASE s.fault = "parsing" /\ ~HoldsNodes(i)
  <2>1. Value(s, i) = s /\ ListsFor(s.rules, i) = s.rules
    BY <1>2 DEF Value, ListsFor
  <2> QED BY <2>1
<1>3. CASE s.fault = "parsing" /\ HoldsNodes(i)
  <2>1. Value(s, i) = t /\ ListsFor(s.rules, i) = Append(s.rules, i.value)
    BY <1>3 DEF Value, ListsFor
  <2>2. s \in StateSet
    BY <1>3 DEF Fine, Good, Shape
  <2>3. /\ t.rules = Append(s.rules, i.value) /\ t.ps = s.ps /\ t.scopes = s.scopes
        /\ t.nodes = s.nodes /\ t.fault = "parsing"
    BY <1>3, <2>2 DEF StateSet
  <2> HIDE DEF t
  <2>4. More(s, Q, t.rules)
    BY <1>3, <2>1, <2>3 DEF Sound
  <2>5. More(t, Q, t.rules)
    BY <2>3, <2>4 DEF More
  <2> QED BY <2>1, <2>3, <2>5, NoCause DEF Sound
<1> QED BY <1>1, <1>2, <1>3

\* The value of the field is the list of nodes that was read.
SetTo(s, t, q, e) ==
  LET p == Inmost(s.ps)
      d == Inmost(p.data)
  IN /\ t = [s EXCEPT !.ps = SetInmost(@, q)]
     /\ q \in ParseScopeSet /\ e \in DataSet
     /\ q.data = SetInmost(p.data, e) /\ q.names = p.names /\ q.routes = p.routes
     /\ q.children = p.children /\ q.bodies = p.bodies /\ e.node = d.node /\ e.name = d.name
     /\ DOMAIN e.values = DOMAIN d.values \cup {d.current.id} /\ e.current = d.current

LEMMA SetValueIs ==
  ASSUME NEW s \in StateSet, s.ps # << >>, Inmost(s.ps).data # << >>, Inmost(s.ps).children # << >>, s.fault = "parsing"
  PROVE  \E q, e, t : SetTo(s, t, q, e) /\ SetValue(s) = PopChildren(t)
<1> DEFINE p == Inmost(s.ps)
           d == Inmost(p.data)
           list == Inmost(p.children)
           value == IF d.current.value = "sfnode" /\ list # << >> THEN << list[1] >> ELSE list
           e == [d EXCEPT !.values = With(@, d.current.id, value)]
           q == [p EXCEPT !.data = SetInmost(@, e)]
           t == [s EXCEPT !.ps = SetInmost(@, q)]
<1>1. SetValue(s) = Unless(p.children = << >>, "children", s, PopChildren(t))
  BY DEF SetValue
<1>2. SetValue(s) = PopChildren(t)
  BY <1>1 DEF Unless
<1>3. p \in ParseScopeSet /\ p.data \in Seq(DataSet) /\ p.data # << >> /\ p.children \in Seq(Seq(Nat))
  <2>1. p \in ParseScopeSet
    BY StackOfSeq DEF StateSet
  <2> HIDE DEF p
  <2>2. p.data \in Seq(DataSet) /\ p.children \in Seq(Seq(Nat))
    BY <2>1 DEF ParseScopeSet
  <2> QED BY <2>1, <2>2 DEF p
<1>4. d \in DataSet
  BY <1>3, InmostData
<1>5. list \in Seq(Nat)
  BY <1>3, StackOfSeq
<1>6. value \in Seq(Nat)
  <2>1. CASE d.current.value = "sfnode" /\ list # << >>
    <3>1. 1 \in 1 .. Len(list)
      BY <1>5, <2>1, EmptySeq, LenProperties
    <3>2. list[1] \in Nat
      BY <1>5, <3>1, ElementOfSeq
    <3> QED BY <2>1, <3>2
  <2>2. CASE ~(d.current.value = "sfnode" /\ list # << >>)
    BY <1>5, <2>2
  <2> QED BY <2>1, <2>2
<1> HIDE DEF value
<1>7. d.current.id \in Text
  <2>1. d.current \in Interface \/ d.current = None
    BY <1>4 DEF DataSet
  <2>2. None.id = ""
    BY DEF None
  <2>3. \A i \in Interface : i.id \in STRING
    BY DEF Interface
  <2> QED BY <2>1, <2>2, <2>3 DEF Text
<1>8. With(d.values, d.current.id, value) \in Maps(Text, Seq(Nat))
  <2>1. d.values \in Maps(Text, Seq(Nat))
    BY <1>4 DEF DataSet
  <2> QED BY <1>6, <1>7, <2>1, WithMap
<1>9. DOMAIN With(d.values, d.current.id, value) = DOMAIN d.values \cup {d.current.id}
  BY DEF With
<1>10. /\ e \in DataSet /\ e.node = d.node /\ e.name = d.name /\ e.current = d.current
       /\ e.values = With(d.values, d.current.id, value)
  BY <1>4, <1>8 DEF DataSet
<1> HIDE DEF e
<1>11. SetInmost(p.data, e) \in Seq(DataSet)
  BY <1>3, <1>10, ReplacedData
<1>12. /\ q \in ParseScopeSet /\ q.data = SetInmost(p.data, e) /\ q.names = p.names
       /\ q.routes = p.routes /\ q.children = p.children /\ q.bodies = p.bodies
  BY <1>3, <1>11 DEF ParseScopeSet
<1> HIDE DEF q
<1>13. SetTo(s, t, q, e)
  BY <1>9, <1>10, <1>12 DEF SetTo
<1> HIDE DEF t
<1> QED BY <1>2, <1>13

LEMMA SetValueIsSound ==
  ASSUME NEW s, NEW Q, NEW R \in Seq(RuleNames), NEW x \in Listed, Sound(s, Q, Append(R, x)),
         s.fault = "parsing" => Stacks(s) /\ Top(R) = Len(s.ps) /\ Inmost(s.ps).data # << >>
  PROVE  Sound(SetValue(s), Q, R)
<1> DEFINE p == Inmost(s.ps)
           d == Inmost(p.data)
           n == Len(s.ps)
           S == Append(R, x)
<1>0. SetValue(s) = Unless(p.children = << >>, "children", s, SetValue(s))
  BY DEF SetValue, Unless
<1>1. CASE s.fault # "parsing"
  <2>1. SetValue(s) = s
    BY <1>1 DEF SetValue, Unless
  <2> QED BY <1>1, <2>1, OverSound
<1>2. CASE s.fault = "parsing"
  <2>1. Stacks(s) /\ Top(R) = n /\ More(s, Q, S) /\ DOMAIN s = Fields /\ n \in 1 .. n /\ p.data # << >>
    BY <1>2, StacksAre DEF Sound
  <2>2. CASE p.children = << >>
    <3>1. SetValue(s) = [s EXCEPT !.fault = "children"]
      BY <1>2, <2>2 DEF SetValue, Unless
    <3>2. "script event" \in Q
      <4>1. CountIn(S, n, Listing) \in Nat \ {0}
        BY <2>1, ListedPush
      <4> QED BY <2>1, <2>2, <4>1, ListThere
    <3>3. "children" # "parsing" /\ "children" # "exception"
      OBVIOUS
    <3>4. \A T : Sound([s EXCEPT !.fault = "children"], Q, T)
      BY <2>1, <3>2, <3>3, ChildrenCause, FailsSound
    <3> QED BY <3>1, <3>4
  <2>3. CASE p.children # << >>
    <3>1. PICK q, e, t : SetTo(s, t, q, e) /\ SetValue(s) = PopChildren(t)
      BY <1>2, <2>1, <2>3, SetValueIs DEF Stacks
    <3>2. /\ t = [s EXCEPT !.ps = SetInmost(@, q)]
          /\ q \in ParseScopeSet /\ e \in DataSet
          /\ q.data = SetInmost(p.data, e) /\ q.names = p.names /\ q.routes = p.routes
          /\ q.children = p.children /\ e.node = d.node /\ e.name = d.name
          /\ DOMAIN e.values = DOMAIN d.values \cup {d.current.id} /\ e.current = d.current
      BY <3>1 DEF SetTo
    <3>3. t.ps = SetInmost(s.ps, q) /\ t.scopes = s.scopes /\ t.nodes = s.nodes /\ t.fault = "parsing"
      BY <1>2, <2>1, <3>2 DEF Fields
    <3>4. ScopeLists(q, Q, S, n)
      <4>1. ScopeLists(s.ps[n], Q, S, n) /\ p = s.ps[n]
        BY <2>1, StacksAre DEF More
      <4>2. ScopeLists(p, Q, S, n)
        BY <4>1
      <4> QED BY <3>2, <4>2 DEF ScopeLists
    <3>5. ASSUME n = 1, "event" \notin Q, Typed(s.nodes[e.node], s.scopes[1]), Plain(s.nodes[e.node], d)
          PROVE  Plain(s.nodes[e.node], e)
      <4>1. RootTypes(s.scopes[1])
        BY <2>1 DEF More, RootPart
      <4> DEFINE c == d.current
      <4>2. DOMAIN e.values \subseteq DOMAIN d.values \cup {c.id} /\ e.current \in {None, c, d.current}
        BY <3>2
      <4>3. Profiled(s.nodes[e.node]) => c = None \/ (c \in s.nodes[e.node].interfaces /\ ~IsEvent(c))
        BY <3>5 DEF Plain
      <4> HIDE DEF d, c
      <4> QED BY <3>5, <4>1, <4>2, <4>3, PlainStep
    <3> HIDE DEF S
    <3>6. More(t, Q, S)
      BY <2>1, <3>2, <3>3, <3>4, <3>5, DataMore
    <3>7. Sound(t, Q, S)
      BY <3>3, <3>6, NoCause DEF Sound
    <3>8. Stacks(t) /\ Len(t.ps) = n
      <4>1. s.ps \in Seq(ParseScopeSet) /\ s.ps # << >> /\ s \in StateSet
        BY <2>1, StacksAre DEF Stacks
      <4>2. /\ Len(SetInmost(s.ps, q)) = n /\ SetInmost(s.ps, q) # << >>
        BY <3>2, <4>1, ReplacedScope
      <4>3. t \in StateSet
        BY <3>2, <4>1, InnermostScope
      <4> QED BY <2>1, <3>3, <4>2, <4>3 DEF Stacks
    <3>9. Sound(PopChildren(t), Q, R)
      BY <2>1, <3>7, <3>8, PopChildrenIsSound DEF S
    <3> QED BY <3>1, <3>9
  <2> QED BY <2>2, <2>3
<1> QED BY <1>1, <1>2

LEMMA ReplacedLists ==
  ASSUME NEW q \in Seq(Seq(Nat)), q # << >>, NEW x \in Seq(Nat)
  PROVE  SetInmost(q, x) \in Seq(Seq(Nat)) /\ Len(SetInmost(q, x)) = Len(q)
BY Replaced

LEMMA AddChildIsSound ==
  ASSUME NEW s, NEW Q, NEW R, Sound(s, Q, R), NEW x,
         s.fault = "parsing" =>
           Stacks(s) /\ CountIn(R, Len(s.ps), Listing) \in Nat \ {0} /\ x \in Nat
  PROVE  Sound(AddChild(s, x), Q, R)
<1> DEFINE p == Inmost(s.ps)
           n == Len(s.ps)
           c == SetInmost(p.children, Append(Inmost(p.children), x))
           q == [p EXCEPT !.children = c]
           t == [s EXCEPT !.ps = SetInmost(@, q)]
<1>0. AddChild(s, x) = Unless(p.children = << >>, "children", s, t)
  BY DEF AddChild
<1>1. CASE s.fault # "parsing"
  <2>1. AddChild(s, x) = s
    BY <1>0, <1>1 DEF Unless
  <2> QED BY <1>1, <2>1, OverSound
<1>2. CASE s.fault = "parsing"
  <2>1. /\ Stacks(s) /\ More(s, Q, R) /\ DOMAIN s = Fields /\ n \in 1 .. n /\ x \in Nat
        /\ p = s.ps[n] /\ p \in ParseScopeSet /\ p.children \in Seq(Seq(Nat))
    BY <1>2, StacksAre DEF Sound
  <2>2. CASE p.children = << >>
    <3>1. AddChild(s, x) = [s EXCEPT !.fault = "children"]
      BY <1>0, <1>2, <2>2 DEF Unless
    <3>2. "script event" \in Q
      BY <1>2, <2>1, <2>2, ListThere
    <3>3. "children" # "parsing" /\ "children" # "exception"
      OBVIOUS
    <3>4. \A T : Sound([s EXCEPT !.fault = "children"], Q, T)
      BY <2>1, <3>2, <3>3, ChildrenCause, FailsSound
    <3> QED BY <3>1, <3>4
  <2>3. CASE p.children # << >>
    <3>1. AddChild(s, x) = t
      BY <1>0, <1>2, <2>3 DEF Unless
    <3>2. Inmost(p.children) \in Seq(Nat)
      BY <2>1, <2>3, StackOfSeq
    <3>3. Append(Inmost(p.children), x) \in Seq(Nat)
      BY <2>1, <3>2, Pushed
    <3>4. c \in Seq(Seq(Nat)) /\ Len(c) = Len(p.children)
      <4>1. c \in Seq(Seq(Nat))
        BY <2>1, <2>3, <3>3, ReplacedLists
      <4>2. Len(c) = Len(p.children)
        BY <2>1, <2>3, <3>3, ReplacedLists
      <4> QED BY <4>1, <4>2
    <3> HIDE DEF c
    <3>5. /\ q \in ParseScopeSet /\ q.data = p.data /\ q.names = p.names /\ q.routes = p.routes
          /\ q.children = c
      BY <2>1, <3>4 DEF ParseScopeSet
    <3> HIDE DEF q
    <3>6. t.ps = SetInmost(s.ps, q) /\ t.scopes = s.scopes /\ t.nodes = s.nodes /\ t.fault = "parsing"
      BY <1>2, <2>1 DEF Fields
    <3>7. ScopeLists(q, Q, R, n)
      <4>1. ScopeLists(s.ps[n], Q, R, n)
        BY <2>1 DEF More
      <4>2. ScopeLists(p, Q, R, n)
        BY <2>1, <4>1
      <4> QED BY <3>4, <3>5, <4>2 DEF ScopeLists
    <3> HIDE DEF t
    <3>8. More(t, Q, R)
      BY <2>1, <3>5, <3>6, <3>7, ListMore
    <3> QED BY <3>1, <3>6, <3>8, NoCause DEF Sound
  <2> QED BY <2>2, <2>3
<1> QED BY <1>1, <1>2

-----------------------------------------------------------------------------
(* The parse breaks off.                                                   *)

LEMMA RootListed ==
  ASSUME NEW q \in Seq(RuleNames), Grammar(q)
  PROVE  CountIn(q, 1, Listing) \in Nat \ {0}
<1> DEFINE S == {j \in 1 .. Len(q) : ScopeAt(q, j) = 1 /\ q[j] \in Listing}
<1>1. Len(q) \in Nat \ {0} /\ q[1] = "scene"
  BY RootScope DEF Grammar
<1>2. IsFiniteSet(S) /\ Cardinality(S) \in Nat
  <2>1. S \subseteq 1 .. Len(q)
    OBVIOUS
  <2> QED BY <1>1, <2>1, FinitePart
<1>3. 1 \in S
  <2> DEFINE j == 1
  <2>1. j \in 0 .. Len(q) /\ j > 0 /\ j - 1 = 0 /\ 0 \in 0 .. Len(q)
    BY <1>1
  <2> HIDE DEF j
  <2>2. ScopeAt(q, 0) = 0 /\ ScopeAt(q, j) = ScopeAt(q, j - 1) + IF q[j] \in Scoped THEN 1 ELSE 0
    BY <2>1, ScopeAtStep
  <2>3. "scene" \in Scoped /\ "scene" \in Listing
    BY DEF Scoped, Listing
  <2>4. ScopeAt(q, 1) = 1
    BY <1>1, <2>1, <2>2, <2>3 DEF j
  <2> QED BY <1>1, <2>3, <2>4
<1>4. Cardinality(S) # 0
  BY <1>2, <1>3, FS_EmptySet
<1> QED BY <1>2, <1>4 DEF CountIn

\* A name of the innermost scope has its node by the scope's end, or is the name of a node in progress.
LEMMA EndsAre ==
  ASSUME NEW p, NEW defs, NEW N, ScopeRoutes(p, defs), ScopeNames(defs, p, N)
  PROVE  \A j \in DOMAIN p.routes :
           /\ p.routes[j].from \in DOMAIN p.names \/ InProgress(p, p.routes[j].from)
           /\ p.routes[j].to \in DOMAIN p.names \/ InProgress(p, p.routes[j].to)
BY DEF ScopeRoutes, ScopeNames

LEMMA RootIsGood ==
  ASSUME NEW s, NEW P, Good(s, P)
  PROVE  /\ Len(s.ps) \in Nat \ {0} /\ 1 \in 1 .. Len(s.ps) /\ s.ps[1] \in ParseScopeSet
         /\ s.scopes[1] \in ScopeSet /\ ScopeBodies(s.ps[1], s.nodes)
         /\ ScopeNames(s.scopes[1].defs, s.ps[1], s.nodes)
         /\ \A i \in DOMAIN s.ps[1].data :
              s.ps[1].data[i].node \in DOMAIN s.nodes /\ ~s.nodes[s.ps[1].data[i].node].finished
         /\ Len(s.ps[1].data) = CountIn(s.rules, 1, Holding)
         /\ s.ps[1].data \in Seq(DataSet) /\ DOMAIN s.ps[1].data = 1 .. Len(s.ps[1].data)
         /\ Len(s.ps[1].data) \in Nat
<1>1. /\ Len(s.ps) \in Nat \ {0} /\ 1 \in 1 .. Len(s.ps) /\ DOMAIN s.ps = 1 .. Len(s.ps)
      /\ DOMAIN s.scopes = 1 .. Len(s.ps)
  BY Shapes DEF Good
<1>2. /\ s.ps \in Seq(ParseScopeSet) /\ s.scopes \in Seq(ScopeSet) /\ s.rules \in Seq(RuleNames)
      /\ Grammar(s.rules)
  BY DEF Good, Shape, StateSet
<1>3. s.ps[1] \in ParseScopeSet /\ s.scopes[1] \in ScopeSet
  <2>1. Len(s.scopes) = Len(s.ps)
    BY Shapes DEF Good
  <2> QED BY <1>1, <1>2, <2>1, ElementOfSeq
<1>4. GoodScope(s, P, 1) /\ Len(s.ps[1].data) = CountIn(s.rules, 1, Holding)
  BY <1>1 DEF Good, Shape
<1>5. CountIn(s.rules, 1, Openers) = 0
  BY <1>2, RootScope
<1>6. s.ps[1].data \in Seq(DataSet)
  BY <1>3 DEF ParseScopeSet
<1>7. DOMAIN s.ps[1].data = 1 .. Len(s.ps[1].data) /\ Len(s.ps[1].data) \in Nat
  BY <1>6, LenProperties
<1>8. ScopeNodes(s.ps[1], 0, s.nodes)
  BY <1>4, <1>5 DEF GoodScope
<1>9. ASSUME NEW i \in DOMAIN s.ps[1].data
      PROVE  s.ps[1].data[i].node \in DOMAIN s.nodes /\ ~s.nodes[s.ps[1].data[i].node].finished
  <2>1. ~(i <= 0)
    BY <1>7
  <2> QED BY <1>8, <2>1 DEF ScopeNodes
<1> QED BY <1>1, <1>3, <1>4, <1>6, <1>7, <1>9 DEF GoodScope

LEMMA BrokenIs ==
  ASSUME NEW s, NEW P, Good(s, P), NEW Q, More(s, Q, s.rules)
  PROVE  Broken(s, Q)
<1> DEFINE p == s.ps[1]
           r == s.rules
<1>1. RootNodes(s)
  BY RootIsKnown
<1>2. /\ 1 \in 1 .. Len(s.ps) /\ ScopeBodies(p, s.nodes) /\ ScopeNames(s.scopes[1].defs, p, s.nodes)
      /\ Len(p.data) = CountIn(r, 1, Holding)
  BY RootIsGood
<1>3. Len(p.children) = CountIn(r, 1, Listing)
  BY <1>2 DEF More, ScopeLists
<1>4. r \in Seq(RuleNames) /\ Grammar(r)
  BY GoodInmost
<1>5. CountIn(r, 1, Listing) \in Nat \ {0} /\ CountIn(r, 1, Holding) \in Nat
  BY <1>4, RootListed, OpenersHold
<1>6. RootHeld(r)
  BY <1>4, RootIsHeld
<1>7. \/ Len(p.children) = Len(p.data) /\ p.data # << >>
      \/ Len(p.children) = Len(p.data) + 1
  <2>1. CASE CountIn(r, 1, Listing) = CountIn(r, 1, Holding)
    <3>1. Len(p.data) # 0 /\ Len(p.children) = Len(p.data)
      BY <1>2, <1>3, <1>5, <2>1
    <3> QED BY <3>1, EmptySeq
  <2>2. CASE CountIn(r, 1, Listing) = CountIn(r, 1, Holding) + 1
    BY <1>2, <1>3, <2>2
  <2> QED BY <1>6, <2>1, <2>2 DEF RootHeld
<1>8. ScopeRoutes(p, s.scopes[1].defs)
  BY <1>2 DEF More
<1>9. \A j \in DOMAIN p.routes :
        /\ p.routes[j].from \in DOMAIN p.names \/ InProgress(p, p.routes[j].from)
        /\ p.routes[j].to \in DOMAIN p.names \/ InProgress(p, p.routes[j].to)
  BY <1>2, <1>8, EndsAre
<1>10. "event" \notin Q => \A i \in DOMAIN p.data : Creatable(s.nodes[p.data[i].node], p.data[i])
  BY DEF More, RootPart, RootData, Plain
<1> HIDE DEF p
<1> QED BY <1>1, <1>2, <1>7, <1>9, <1>10 DEF Broken, p

LEMMA ThrowsSound ==
  ASSUME NEW s, NEW Q, Broken(s, Q)
  PROVE  \A R : Sound([s EXCEPT !.fault = "exception"], Q, R)
<1> DEFINE t == [s EXCEPT !.fault = "exception"]
<1>1. s \in StateSet
  BY DEF Broken, RootNodes
<1>2. t \in StateSet /\ t.fault = "exception" /\ t.ps = s.ps /\ t.nodes = s.nodes
  BY <1>1 DEF StateSet
<1> HIDE DEF t
<1>3. RootNodes(t)
  BY <1>2 DEF Broken, RootNodes
<1>4. Broken(t, Q)
  BY <1>2, <1>3 DEF Broken
<1>5. \A R : Sound(t, Q, R)
  BY <1>2, <1>4, NoCause DEF Sound
<1> QED BY <1>5 DEF t

-----------------------------------------------------------------------------
(* The scope of a default value ends.                                      *)

Found(p) ==
  \A j \in DOMAIN p.routes : p.routes[j].from \in DOMAIN p.names /\ p.routes[j].to \in DOMAIN p.names

LEMMA RoutesFound ==
  ASSUME NEW p, NEW g \in ScopeSet, NEW N, ScopeRoutes(p, g.defs), ScopeNames(g.defs, p, N),
         \A i \in DOMAIN p.data : p.data[i].name = Anonymous
  PROVE  Found(p)
<1>1. ASSUME NEW name \in DOMAIN g.defs PROVE name \in DOMAIN p.names
  <2>1. name \in Names
    BY DEF ScopeSet, Maps
  <2>2. name # Anonymous
    BY <2>1, ParseAssumption
  <2>3. ~InProgress(p, name)
    BY <2>2 DEF InProgress
  <2> QED BY <2>3 DEF ScopeNames
<1> QED BY <1>1 DEF ScopeRoutes, Found

Events(p, N) ==
  \A j \in DOMAIN p.routes : /\ p.routes[j].out \in Ids(N[p.names[p.routes[j].from]].interfaces)
                             /\ p.routes[j].in \in Ids(N[p.names[p.routes[j].to]].interfaces)

LEMMA RoutesMadeFound ==
  ASSUME NEW s, NEW next, s.fault = "parsing", Found(Inmost(s.ps))
  PROVE  \/ RoutesMade(s, next) = next
         \/ /\ RoutesMade(s, next) = [s EXCEPT !.fault = "exception"]
            /\ ~Events(Inmost(s.ps), s.nodes)
<1> DEFINE p == Inmost(s.ps)
           lost == \E r \in Range(p.routes) : ~({r.from, r.to} \subseteq DOMAIN p.names)
           bad == \E r \in Range(p.routes) :
                    \/ ~(r.out \in Ids(s.nodes[p.names[r.from]].interfaces))
                    \/ ~(r.in \in Ids(s.nodes[p.names[r.to]].interfaces))
<1>1. RoutesMade(s, next) = Unless(lost, "routes", s, Unless(bad, "exception", s, next))
  BY DEF RoutesMade
<1>2. ~lost
  BY DEF Found, Range
<1>3. bad => ~Events(p, s.nodes)
  BY DEF Events, Range
<1> HIDE DEF lost, bad
<1> QED BY <1>1, <1>2, <1>3 DEF Unless

LEMMA PopMore ==
  ASSUME NEW s, NEW P, Good(s, P), Inmost(s.rules) \in Scoped, Inmost(s.rules) # "scene",
         NEW Q, More(s, Q, s.rules),
         NEW t, t.rules = Outer(s.rules), t.scopes = Outer(s.scopes), t.ps = Outer(s.ps), t.nodes = s.nodes
  PROVE  More(t, Q, t.rules) /\ Len(s.ps) # 1
<1> DEFINE n == Len(s.ps)
           o == Outer(s.rules)
           r == Inmost(s.rules)
<1>1. /\ n \in Nat \ {0} /\ s.ps # << >> /\ s.scopes # << >> /\ n = Top(s.rules) /\ Len(s.scopes) = n
  BY Shapes DEF Good
<1>2. s.ps \in Seq(ParseScopeSet) /\ s.scopes \in Seq(ScopeSet) /\ s.rules \in Seq(RuleNames) /\ Grammar(s.rules)
  BY DEF Good, Shape, StateSet
<1>3. o \in Seq(RuleNames) /\ Grammar(o) /\ r \in RuleNames /\ s.rules = Append(o, r)
  BY <1>2, GrammarPop
<1>4. n = Top(o) + 1 /\ Top(o) \in Nat \ {0}
  BY <1>1, <1>3, TopPush, RootScope
<1>5. /\ Len(t.ps) = n - 1 /\ \A k \in 1 .. n - 1 : t.ps[k] = s.ps[k] /\ t.scopes[k] = s.scopes[k]
  <2>1. /\ Len(Outer(s.ps)) = n - 1 /\ \A k \in 1 .. n - 1 : Outer(s.ps)[k] = s.ps[k]
    BY <1>1, <1>2, StackOfSeq
  <2>2. \A k \in 1 .. Len(s.scopes) - 1 : Outer(s.scopes)[k] = s.scopes[k]
    BY <1>1, <1>2, StackOfSeq
  <2> QED BY <1>1, <2>1, <2>2
<1>6. ASSUME NEW k \in 1 .. n - 1 PROVE CountIn(o, k, Listing) = CountIn(s.rules, k, Listing)
  <2> HIDE DEF o, r
  <2>1. Top(Append(o, r)) = n
    BY <1>1, <1>3
  <2>2. k # Top(Append(o, r))
    BY <1>1, <2>1
  <2>3. CountIn(Append(o, r), k, Listing) = CountIn(o, k, Listing) + 0 /\ CountIn(o, k, Listing) \in Nat
    BY <1>3, <2>2, CountPush
  <2> QED BY <1>3, <2>3
<1>7. ASSUME NEW k \in 1 .. n - 1
      PROVE  ScopeRoutes(t.ps[k], t.scopes[k].defs) /\ ScopeLists(t.ps[k], Q, t.rules, k)
  <2>1. k \in 1 .. n
    BY <1>1
  <2>2. ScopeRoutes(s.ps[k], s.scopes[k].defs) /\ ScopeLists(s.ps[k], Q, s.rules, k)
    BY <2>1 DEF More
  <2>3. t.ps[k] = s.ps[k] /\ t.scopes[k] = s.scopes[k]
    BY <1>5
  <2> QED BY <1>6, <2>2, <2>3 DEF ScopeLists
<1>8. 1 \in 1 .. n - 1
  BY <1>1, <1>4
<1>9. RootPart(t.ps[1], t.scopes[1], t.nodes, Q)
  <2>1. t.ps[1] = s.ps[1] /\ t.scopes[1] = s.scopes[1]
    BY <1>5, <1>8
  <2> QED BY <2>1 DEF More
<1>10. n # 1
  BY <1>4
<1> QED BY <1>5, <1>7, <1>9, <1>10 DEF More

LEMMA DefaultFinishIsSound ==
  ASSUME NEW s, NEW P, Fine(s, P), s.fault = "parsing" => Inmost(s.rules) = "default",
         NEW Q, Sound(s, Q, s.rules)
  PROVE  Sound(DefaultFinish(s), Q, DefaultFinish(s).rules)
<1> DEFINE values == Inmost(Inmost(s.ps).data).values
           t == [s EXCEPT !.ps = Outer(@), !.scopes = Outer(@), !.rules = Outer(@)]
           p == Inmost(Outer(s.ps))
           d == Inmost(p.data)
           e == [d EXCEPT !.values = values]
           q == [p EXCEPT !.data = SetInmost(@, e)]
           next == [s EXCEPT !.ps = SetInmost(Outer(@), q), !.scopes = Outer(@), !.rules = Outer(@)]
<1>0. DefaultFinish(s) = RoutesMade(s, next)
  BY DEF DefaultFinish
<1>1. CASE s.fault # "parsing"
  <2>1. DefaultFinish(s) = s
    BY <1>0, <1>1, RoutesMadeIs
  <2> QED BY <1>1, <2>1, OverSound
<1>2. CASE s.fault = "parsing"
  <2>1. Good(s, P) /\ Inmost(s.rules) = "default" /\ s \in StateSet /\ More(s, Q, s.rules)
    BY <1>2, GoodInmost DEF Fine, Sound
  <2>2. \A R : Sound([s EXCEPT !.fault = "exception"], Q, R)
    <3>1. Broken(s, Q)
      BY <2>1, BrokenIs
    <3> QED BY <3>1, ThrowsSound
  <2>3. Found(Inmost(s.ps))
    <3>1. /\ Inmost(s.ps) = s.ps[Len(s.ps)] /\ Inmost(s.scopes) = s.scopes[Len(s.ps)]
          /\ Inmost(s.scopes) \in ScopeSet /\ Len(s.ps) \in 1 .. Len(s.ps)
      BY <2>1, GoodStacks, StacksAre
    <3>2. ScopeNames(s.scopes[Len(s.ps)].defs, s.ps[Len(s.ps)], s.nodes)
      BY <2>1, <3>1 DEF Good, GoodScope
    <3>3. ScopeRoutes(s.ps[Len(s.ps)], s.scopes[Len(s.ps)].defs)
      BY <2>1, <3>1 DEF More
    <3>4. DOMAIN Inmost(s.ps).data = {1} /\ Inmost(s.ps).data[1].name = Anonymous
      <4>1. "default" \in Openers
        BY DEF Openers
      <4> QED BY <2>1, <4>1, InterfacesData
    <3> DEFINE a == Inmost(s.ps)
               g == Inmost(s.scopes)
    <3>5. g \in ScopeSet /\ ScopeRoutes(a, g.defs) /\ ScopeNames(g.defs, a, s.nodes)
      BY <3>1, <3>2, <3>3
    <3>6. \A i \in DOMAIN a.data : a.data[i].name = Anonymous
      BY <3>4
    <3> HIDE DEF a, g
    <3>7. Found(a)
      BY <3>5, <3>6, RoutesFound
    <3> QED BY <3>7 DEF a
  <2>4. Sound(next, Q, next.rules)
    <3>1. /\ s.ps # << >> /\ s.scopes # << >> /\ s.rules # << >> /\ Inmost(s.ps).data # << >>
          /\ Inmost(s.ps) \in ParseScopeSet
      <4>1. Len(Inmost(s.ps).data) = 1
        BY <2>1, Shapes DEF Good, Openers
      <4>2. Inmost(s.ps).data # << >>
        BY <4>1, EmptySeq
      <4> QED BY <2>1, <4>2, Shapes DEF Good
    <3>2. Outer(s.ps) \in Seq(ParseScopeSet)
      BY <2>1, <3>1, StackOfSeq DEF StateSet
    <3>3. Outer(s.scopes) \in Seq(ScopeSet) /\ Outer(s.rules) \in Seq(RuleNames)
      BY <2>1, <3>1, StackOfSeq DEF StateSet
    <3>4. /\ t \in StateSet /\ t.ps = Outer(s.ps) /\ t.scopes = Outer(s.scopes)
          /\ t.rules = Outer(s.rules) /\ t.nodes = s.nodes /\ t.fault = s.fault
      BY <2>1, <3>2, <3>3 DEF StateSet
    <3>5. /\ next.ps = SetInmost(t.ps, q) /\ next.scopes = t.scopes /\ next.rules = t.rules
          /\ next.nodes = t.nodes /\ next.fault = "parsing"
      BY <1>2, <2>1, <3>4 DEF StateSet
    <3> HIDE DEF t, next
    <3>6. Good(t, P) /\ Inmost(t.rules) \in Callers["default"]
      BY <2>1, <3>4, PopScope DEF Scoped
    <3>7. Inmost(t.rules) \in Openers
      BY <3>6 DEF Callers, Openers
    <3>8. More(t, Q, t.rules)
      BY <2>1, <3>4, PopMore DEF Scoped
    <3>9. p = Inmost(t.ps) /\ p \in ParseScopeSet
      BY <3>4, <3>6, GoodInmost
    <3>10. p.data # << >>
      <4>1. Len(p.data) = 1
        BY <3>6, <3>7, <3>9, Shapes DEF Good
      <4> QED BY <4>1, EmptySeq
    <3>11. d \in DataSet /\ p.data \in Seq(DataSet)
      BY <3>9, <3>10, InmostData
    <3>12. values \in Maps(Text, Seq(Nat))
      <4>1. Inmost(Inmost(s.ps).data) \in DataSet
        BY <3>1, InmostData
      <4> QED BY <4>1 DEF DataSet
    <3> HIDE DEF values
    <3>13. e \in DataSet /\ e.node = d.node /\ e.name = d.name
      BY <3>11, <3>12 DEF DataSet
    <3> HIDE DEF e
    <3>14. SetInmost(p.data, e) \in Seq(DataSet)
      BY <3>10, <3>11, <3>13, ReplacedData
    <3>15. /\ q \in ParseScopeSet /\ q.data = SetInmost(p.data, e) /\ q.names = p.names
           /\ q.routes = p.routes /\ q.children = p.children
      BY <3>9, <3>14 DEF ParseScopeSet
    <3> HIDE DEF q
    <3>16. Stacks(t) /\ Len(t.ps) \in 1 .. Len(t.ps) /\ p = t.ps[Len(t.ps)]
      <4>1. Stacks(t)
        BY <3>6, GoodStacks
      <4> QED BY <3>9, <4>1, StacksAre
    <3>17. ScopeLists(q, Q, t.rules, Len(t.ps))
      <4>1. ScopeLists(t.ps[Len(t.ps)], Q, t.rules, Len(t.ps))
        BY <3>8, <3>16 DEF More
      <4>2. ScopeLists(p, Q, t.rules, Len(t.ps))
        BY <3>16, <4>1
      <4> QED BY <3>15, <4>2 DEF ScopeLists
    <3>18. Len(t.ps) # 1
      <4>1. CountIn(t.rules, Len(t.ps), Openers) = 1
        BY <3>6, <3>7, Shapes DEF Good
      <4>2. t.rules \in Seq(RuleNames) /\ Grammar(t.rules)
        BY <3>6, GoodInmost
      <4>3. CountIn(t.rules, 1, Openers) = 0
        BY <4>2, RootScope
      <4>4. ASSUME Len(t.ps) = 1 PROVE FALSE
        <5>1. CountIn(t.rules, 1, Openers) = 1
          BY <4>1, <4>4
        <5>2. 1 # 0
          OBVIOUS
        <5> QED BY ONLY <4>3, <5>1, <5>2
      <4> QED BY <4>4
    <3> HIDE DEF p, d
    <3>19. More(next, Q, t.rules)
      BY <3>5, <3>8, <3>9, <3>10, <3>13, <3>15, <3>16, <3>17, <3>18, DataMore DEF p, d
    <3> QED BY <3>5, <3>19, NoCause DEF Sound
  <2> HIDE DEF next
  <2>5. \/ DefaultFinish(s) = next
        \/ DefaultFinish(s) = [s EXCEPT !.fault = "exception"]
    BY <1>0, <1>2, <2>3, RoutesMadeFound
  <2> QED BY <2>2, <2>4, <2>5
<1> QED BY <1>1, <1>2

LEMMA ValueDoneIsSound ==
  ASSUME NEW s, NEW P, Good(s, P), s.fault = "parsing", Inmost(s.rules) \in Listed,
         NEW Q, More(s, Q, s.rules)
  PROVE  Sound(ValueDone(s), Q, ValueDone(s).rules)
<1> DEFINE o == Outer(s.rules)
           x == Inmost(s.rules)
           t == [s EXCEPT !.rules = o]
           u == SetValue(t)
<1>1. s \in StateSet /\ s.rules \in Seq(RuleNames) /\ Grammar(s.rules) /\ Stacks(s)
  BY GoodInmost, GoodStacks
<1>2. SameRules(s.rules, o)
  BY <1>1, PopListed
<1>3. s.rules = Append(o, x) /\ o \in Seq(RuleNames) /\ x \in Listed
  BY <1>1, <1>2, StackIsPushed DEF Grammar, SameRules
<1>4. Good(t, P)
  BY <1>2, RulesStep
<1>5. t.fault = "parsing" /\ t.ps = s.ps /\ t.scopes = s.scopes /\ t.nodes = s.nodes /\ t.rules = o
  BY <1>1 DEF StateSet
<1>6. Inmost(s.ps).data # << >> /\ Len(s.ps) = Top(s.rules)
  BY Shapes DEF Good
<1>7. ValueDone(s) = IF Inmost(u.rules) = "default" THEN DefaultFinish(u) ELSE u
  BY DEF ValueDone
<1> HIDE DEF t
<1>8. Fine(t, P)
  BY <1>4, <1>5 DEF Fine
<1>9. Fine(u, P) /\ Follows(t, u)
  BY <1>5, <1>6, <1>8, SetValueIsFine
<1>10. Sound(t, Q, Append(o, x))
  <2>1. More(t, Q, s.rules)
    BY <1>5 DEF More
  <2> QED BY <1>3, <1>5, <2>1, NoCause DEF Sound
<1>11. Stacks(t) /\ Top(o) = Len(t.ps) /\ Inmost(t.ps).data # << >>
  BY <1>2, <1>4, <1>5, <1>6, GoodStacks DEF SameRules
<1> HIDE DEF o, x
<1>12. Sound(u, Q, o)
  BY <1>3, <1>10, <1>11, SetValueIsSound
<1> HIDE DEF u
<1>13. Sound(u, Q, u.rules)
  <2>1. CASE u.fault = "parsing"
    <3>1. u.rules = o
      BY <1>5, <1>9, <2>1 DEF Follows
    <3> QED BY <1>12, <3>1
  <2>2. CASE u.fault # "parsing"
    BY <1>12, <2>2, OverSound
  <2> QED BY <2>1, <2>2
<1>14. CASE Inmost(u.rules) = "default"
  <2>1. Sound(DefaultFinish(u), Q, DefaultFinish(u).rules)
    BY <1>9, <1>13, <1>14, DefaultFinishIsSound
  <2> QED BY <1>7, <1>14, <2>1
<1>15. CASE Inmost(u.rules) # "default"
  BY <1>7, <1>13, <1>15
<1> QED BY <1>14, <1>15

\* The first statement of a body, and the rest of them, have the same list.
LEMMA FirstLists ==
  ASSUME NEW q \in Seq(RuleNames), Grammar(q), Inmost(q) = "first"
  PROVE  \A k : CountIn(SetInmost(q, "body"), k, Listing) = CountIn(q, k, Listing)
<1> DEFINE o == Outer(q)
           r == Append(o, "body")
<1>1. o \in Seq(RuleNames) /\ q = Append(o, "first") /\ "first" \in RuleNames /\ "body" \in RuleNames
  BY GrammarPop DEF RuleNames
<1> HIDE DEF o
<1>2. Top(r) = Top(o) + 1 /\ Top(Append(o, "first")) = Top(o) + 1
  BY <1>1, TopPush DEF Scoped
<1>3. "first" \in Listing /\ "body" \in Listing
  BY DEF Listing
<1>4. ASSUME NEW k PROVE CountIn(r, k, Listing) = CountIn(q, k, Listing)
  <2>1. CountIn(r, k, Listing) = CountIn(o, k, Listing) + IF k = Top(o) + 1 THEN 1 ELSE 0
    BY <1>1, <1>2, <1>3, CountPush
  <2>2. CountIn(Append(o, "first"), k, Listing) = CountIn(o, k, Listing) + IF k = Top(o) + 1 THEN 1 ELSE 0
    BY <1>1, <1>2, <1>3, CountPush
  <2> QED BY <1>1, <2>1, <2>2
<1> QED BY <1>4 DEF SetInmost, o

\* What replaces the rules with as many lists, at the same places.
LEMMA SameLists ==
  ASSUME NEW s, s \in StateSet, NEW Q, More(s, Q, s.rules), NEW r,
         \A k : CountIn(r, k, Listing) = CountIn(s.rules, k, Listing)
  PROVE  More([s EXCEPT !.rules = r], Q, r)
<1> DEFINE t == [s EXCEPT !.rules = r]
<1>1. t.ps = s.ps /\ t.scopes = s.scopes /\ t.nodes = s.nodes
  BY DEF StateSet
<1> HIDE DEF t
<1>2. More(t, Q, r)
  BY <1>1 DEF More, ScopeLists
<1> QED BY <1>2 DEF t

LEMMA StatementDoneIsSound ==
  ASSUME NEW s, NEW P, Fine(s, P), NEW Q, Sound(s, Q, s.rules)
  PROVE  Sound(StatementDone(s), Q, StatementDone(s).rules)
<1> DEFINE r == IF Inmost(s.rules) = "first" THEN "body" ELSE Inmost(s.rules)
           b == SetInmost(s.rules, r)
           t == [s EXCEPT !.rules = b]
<1>1. CASE s.fault # "parsing"
  BY <1>1 DEF StatementDone
<1>2. CASE s.fault = "parsing" /\ Inmost(s.rules) \in {"sfnode", "mfnode"}
  <2>1. Good(s, P) /\ Inmost(s.rules) \in Listed /\ More(s, Q, s.rules)
    BY <1>2 DEF Fine, Listed, Sound
  <2>2. StatementDone(s) = ValueDone(s)
    BY <1>2 DEF StatementDone
  <2> QED BY <1>2, <2>1, <2>2, ValueDoneIsSound
<1>3. CASE s.fault = "parsing" /\ Inmost(s.rules) \notin {"sfnode", "mfnode"}
  <2>1. Good(s, P) /\ More(s, Q, s.rules)
    BY <1>3 DEF Fine, Sound
  <2>2. s \in StateSet /\ s.rules \in Seq(RuleNames) /\ Grammar(s.rules)
    BY <2>1, GoodInmost
  <2>3. \A k : CountIn(b, k, Listing) = CountIn(s.rules, k, Listing)
    <3>1. CASE Inmost(s.rules) = "first"
      BY <2>2, <3>1, FirstLists
    <3>2. CASE Inmost(s.rules) # "first"
      <4>1. b = s.rules
        BY <2>2, <3>2, StackIsPushed DEF SetInmost, Grammar
      <4> QED BY <4>1
    <3> QED BY <3>1, <3>2
  <2>4. StatementDone(s) = t
    BY <1>3 DEF StatementDone
  <2> HIDE DEF b
  <2>5. More(t, Q, b)
    BY <2>1, <2>2, <2>3, SameLists
  <2>6. t.fault = "parsing" /\ t.rules = b
    BY <1>3, <2>2 DEF StateSet
  <2> HIDE DEF t
  <2>7. Sound(t, Q, t.rules)
    BY <2>5, <2>6, NoCause DEF Sound
  <2> QED BY <2>4, <2>7
<1> QED BY <1>1, <1>2, <1>3

-----------------------------------------------------------------------------
(* The nodes become more, and Scripts have more interfaces.                *)

Grows(N, M) ==
  /\ DOMAIN N \subseteq DOMAIN M
  /\ \A n \in DOMAIN N : /\ M[n].type = N[n].type /\ N[n].interfaces \subseteq M[n].interfaces
                         /\ N[n].type # Script => M[n].interfaces = N[n].interfaces

LEMMA AlikeGrows ==
  ASSUME NEW N, NEW M, Grows(N, M), NEW n \in DOMAIN N, NEW m \in DOMAIN N, Alike(N, n, m)
  PROVE  Alike(M, n, m)
BY DEF Grows, Alike

LEMMA TypedGrows ==
  ASSUME NEW N, NEW M, Grows(N, M), NEW n \in DOMAIN N, NEW g
  PROVE  /\ Typed(N[n], g) => Typed(M[n], g)
         /\ \A d : Plain(N[n], d) => Plain(M[n], d)
<1>1. /\ M[n].type = N[n].type /\ N[n].interfaces \subseteq M[n].interfaces
      /\ N[n].type # Script => M[n].interfaces = N[n].interfaces
  BY DEF Grows
<1>2. Typed(N[n], g) => Typed(M[n], g)
  BY <1>1 DEF Typed
<1>3. ASSUME NEW d, Plain(N[n], d) PROVE Plain(M[n], d)
  <2>1. Creatable(M[n], d)
    BY <1>1, <1>3 DEF Plain, Creatable
  <2> QED BY <1>1, <1>3, <2>1 DEF Plain, Profiled
<1> QED BY <1>2, <1>3

LEMMA RootGrows ==
  ASSUME NEW p, NEW g, NEW N, NEW Q, RootPart(p, g, N, Q), NEW M, Grows(N, M),
         \A i \in DOMAIN p.data : p.data[i].node \in DOMAIN N, ScopeNames(g.defs, p, N),
         ScopeRoutes(p, g.defs)
  PROVE  RootPart(p, g, M, Q)
<1>1. \A name \in DOMAIN g.defs : g.defs[name] \in DOMAIN N
  BY DEF ScopeNames
<1>2. \A name \in DOMAIN p.names : p.names[name] \in DOMAIN N
  BY DEF ScopeNames
<1>3. RootData(p, g, M, Q)
  BY TypedGrows DEF RootPart, RootData
<1>4. \A name \in DOMAIN g.defs : Typed(M[g.defs[name]], g)
  BY <1>1, TypedGrows DEF RootPart
<1>5. ASSUME Clear(Q) PROVE RootNames(p, g, M) /\ RootEnds(p, g, M)
  <2>1. RootNames(p, g, N) /\ RootEnds(p, g, N)
    BY <1>5 DEF RootPart
  <2>2. ASSUME NEW i \in DOMAIN p.data, p.data[i].name # Anonymous
        PROVE  Alike(M, p.data[i].node, g.defs[p.data[i].name])
    <3>1. p.data[i].name \in DOMAIN g.defs
      BY <2>2 DEF ScopeNames
    <3>2. Alike(N, p.data[i].node, g.defs[p.data[i].name])
      BY <2>1, <2>2 DEF RootNames
    <3> QED BY <1>1, <3>1, <3>2, AlikeGrows
  <2>3. ASSUME NEW name \in DOMAIN g.defs
        PROVE  InProgress(p, name) \/ (name \in DOMAIN p.names /\ Alike(M, p.names[name], g.defs[name]))
    <3>1. InProgress(p, name) \/ (name \in DOMAIN p.names /\ Alike(N, p.names[name], g.defs[name]))
      BY <2>1 DEF RootNames
    <3> QED BY <1>1, <1>2, <3>1, AlikeGrows
  <2>4. RootEnds(p, g, M)
    <3>1. ASSUME NEW n \in DOMAIN N PROVE Ids(N[n].interfaces) \subseteq Ids(M[n].interfaces)
      BY DEF Grows, Ids
    <3> QED BY <1>1, <2>1, <3>1 DEF RootEnds, ScopeRoutes
  <2> QED BY <2>2, <2>3, <2>4 DEF RootNames
<1> QED BY <1>3, <1>4, <1>5 DEF RootPart

LEMMA NodesMore ==
  ASSUME NEW s, NEW P, Good(s, P), NEW Q, NEW R, More(s, Q, R), NEW t, t.ps = s.ps,
         t.scopes = s.scopes, Grows(s.nodes, t.nodes)
  PROVE  More(t, Q, R)
<1> DEFINE p == s.ps[1]
           g == s.scopes[1]
<1>1. /\ 1 \in 1 .. Len(s.ps) /\ ScopeNames(g.defs, p, s.nodes)
      /\ \A i \in DOMAIN p.data : p.data[i].node \in DOMAIN s.nodes
  BY RootIsGood
<1>2. ScopeRoutes(p, g.defs) /\ RootPart(p, g, s.nodes, Q)
  BY <1>1 DEF More
<1> HIDE DEF p, g
<1>3. RootPart(p, g, t.nodes, Q)
  BY <1>1, <1>2, RootGrows
<1> QED BY <1>3 DEF More, p, g

-----------------------------------------------------------------------------
(* The end of a node.                                                      *)

LEMMA StoredSame ==
  ASSUME NEW s \in StateSet, NEW n \in DOMAIN s.nodes
  PROVE  Stored(s).nodes[n].type = s.nodes[n].type /\ Stored(s).nodes[n].interfaces = s.nodes[n].interfaces
<1> DEFINE d == Inmost(Inmost(s.ps).data)
           node == [s.nodes[d.node] EXCEPT !.finished = TRUE, !.children = Own(s)]
           all == [s.nodes EXCEPT ![d.node] = node]
<1>1. Stored(s).nodes = all
  <2>1. Stored(s) = [s EXCEPT !.ps = SetInmost(@, Closed(Inmost(s.ps))), !.nodes = all]
    BY DEF Stored
  <2> QED BY <2>1 DEF StateSet
<1>2. s.nodes[n] \in NodeSet
  <2>1. s.nodes \in Seq(NodeSet)
    BY DEF StateSet
  <2> QED BY <2>1, LenProperties, ElementOfSeq
<1>3. CASE n = d.node
  <2>1. all[n] = node
    BY <1>3
  <2>2. node.type = s.nodes[n].type /\ node.interfaces = s.nodes[n].interfaces
    BY <1>2, <1>3 DEF NodeSet
  <2> QED BY <1>1, <2>1, <2>2
<1>4. CASE n # d.node
  <2>1. all[n] = s.nodes[n]
    BY <1>4
  <2> QED BY <1>1, <2>1
<1> QED BY <1>3, <1>4

\* x: the clones are made; y: the node is stored.
Finishing(h, x, y, q, c, B) ==
  /\ Cloned(Inmost(h.ps), q, h.nodes, x.nodes, B)
  /\ x \in StateSet /\ x.ps = SetInmost(h.ps, q) /\ x.rules = Outer(h.rules) /\ x.scopes = h.scopes
  /\ q.data = Inmost(h.ps).data /\ q.children = Inmost(h.ps).children /\ q.routes = Inmost(h.ps).routes
  /\ q.bodies = Inmost(h.ps).bodies
  /\ NodeDone(h, y, c, B) /\ y.fault = "parsing" /\ c.children = q.children /\ c.routes = q.routes
  /\ Grows(h.nodes, y.nodes)

FinishedOf(h, x, y, t) ==
  LET p == Inmost(h.ps)
      d == Inmost(p.data)
  IN \/ t = [x EXCEPT !.fault = "children"] /\ p.children = << >>
     \/ t = [x EXCEPT !.fault = "exception"]
     \/ t = AddChild(y, d.node)

LEMMA NodeFinishIs ==
  ASSUME NEW h, NEW Q, Good(h, Q), h.fault = "parsing", Inmost(h.rules) = "node", NEW B,
         B = DOMAIN BodyNames(h, h.nodes[Inmost(Inmost(h.ps).data).node].type)
  PROVE  \E x, y, q, c : /\ Finishing(h, x, y, q, c, B)
                         /\ FinishedOf(h, x, y, NodeFinish([h EXCEPT !.rules = Outer(@)]))
<1> DEFINE s == [h EXCEPT !.rules = Outer(@)]
           p == Inmost(h.ps)
           d == Inmost(p.data)
           type == h.nodes[d.node].type
<1>1. /\ h \in StateSet /\ h.ps # << >> /\ p \in ParseScopeSet /\ h.rules \in Seq(RuleNames)
      /\ Grammar(h.rules) /\ h.ps \in Seq(ParseScopeSet)
  BY GoodInmost DEF StateSet
<1>2. Outer(h.rules) \in Seq(RuleNames)
  BY <1>1, GrammarPop
<1>3. /\ s \in StateSet /\ s.rules = Outer(h.rules) /\ s.scopes = h.scopes /\ s.ps = h.ps
      /\ s.nodes = h.nodes /\ s.fault = "parsing"
  BY <1>1, <1>2 DEF StateSet
<1>4. /\ p.data # << >> /\ d \in DataSet /\ d.node \in DOMAIN h.nodes
  BY NodeRead
<1>5. \A k \in DOMAIN h.ps : ScopeBodies(h.ps[k], h.nodes)
  <2>1. DOMAIN h.ps = 1 .. Len(h.ps)
    BY <1>1, LenProperties
  <2> QED BY <2>1 DEF Good, GoodScope
<1> HIDE DEF s
<1>6. BodyNames(s, type) = BodyNames(h, type) /\ B = DOMAIN BodyNames(h, type)
  <2>1. B = DOMAIN BodyNames(h, type)
    OBVIOUS
  <2> HIDE DEF type
  <2> QED BY <1>3, <2>1 DEF BodyNames
<1>7. PICK q, M : /\ Instance(s, type) = [s EXCEPT !.ps = SetInmost(@, q), !.nodes = M]
                  /\ Cloned(Inmost(s.ps), q, s.nodes, M, DOMAIN BodyNames(s, type))
  BY <1>1, <1>3, <1>5, InstanceIs
<1> DEFINE x == [s EXCEPT !.ps = SetInmost(@, q), !.nodes = M]
<1>8. Cloned(p, q, h.nodes, M, B)
  BY <1>3, <1>6, <1>7
<1>9. /\ q \in ParseScopeSet /\ q = [p EXCEPT !.names = q.names] /\ M \in Seq(NodeSet)
      /\ DOMAIN q.names = DOMAIN p.names \cup B /\ DOMAIN h.nodes \subseteq DOMAIN M
      /\ \A z \in DOMAIN p.names \ B : q.names[z] = p.names[z]
      /\ \A z \in B : q.names[z] \in DOMAIN M \ DOMAIN h.nodes
      /\ \A n \in DOMAIN h.nodes : M[n] = h.nodes[n]
  BY <1>8 DEF Cloned
<1>10. Instantiated(s) = x
  BY <1>3, <1>4, <1>7 DEF Instantiated
<1> HIDE DEF p, d, type
<1>11. /\ q.data = p.data /\ q.isMap = p.isMap /\ q.said = p.said /\ q.bodies = p.bodies
       /\ q.children = p.children /\ q.routes = p.routes
  <2>1. p \in ParseScopeSet
    BY <1>1
  <2> QED BY <1>9, <2>1 DEF ParseScopeSet
<1>12. /\ SetInmost(h.ps, q) \in Seq(ParseScopeSet) /\ SetInmost(h.ps, q) # << >>
       /\ Inmost(SetInmost(h.ps, q)) = q
  BY <1>1, <1>9, ReplacedScope
<1>13. /\ x \in StateSet /\ x.ps = SetInmost(h.ps, q) /\ x.nodes = M /\ x.rules = Outer(h.rules)
       /\ x.scopes = h.scopes /\ x.fault = "parsing"
  BY <1>3, <1>9, <1>12 DEF StateSet
<1> HIDE DEF x
<1>14. Inmost(x.ps) = q /\ x.ps # << >> /\ Inmost(q.data) = d
  BY <1>11, <1>12, <1>13 DEF d
<1>15. NodeFinish(s) = Finished(x)
  BY <1>10 DEF NodeFinish
<1> DEFINE y == Stored(x)
           c == Closed(q)
<1>18. /\ y \in StateSet /\ y.ps = SetInmost(x.ps, c) /\ y.rules = x.rules
       /\ y.scopes = x.scopes /\ y.fault = x.fault /\ DOMAIN y.nodes = DOMAIN x.nodes
       /\ y.nodes[d.node].finished /\ \A n \in DOMAIN x.nodes \ {d.node} : y.nodes[n] = x.nodes[n]
  <2>1. Inmost(x.ps).data # << >> /\ Inmost(Inmost(x.ps).data) = d /\ d.node \in DOMAIN x.nodes
    BY <1>4, <1>9, <1>11, <1>13, <1>14 DEF p, d
  <2> QED BY <1>13, <1>14, <2>1, StoredIs
<1>19. /\ c \in ParseScopeSet /\ c.data = Outer(q.data) /\ c.isMap = Targets(q, d)
       /\ c.said = q.said /\ c.bodies = q.bodies /\ c.children = q.children /\ c.routes = q.routes
       /\ DOMAIN c.names = DOMAIN q.names \cup ({d.name} \ {Anonymous})
       /\ d.name # Anonymous => c.names[d.name] = d.node
       /\ \A z \in DOMAIN q.names \ {d.name} : c.names[z] = q.names[z]
  <2>1. q.data # << >>
    BY <1>4, <1>11
  <2> QED BY <1>9, <1>14, <2>1, ClosedIs
<1>20. y.ps = SetInmost(h.ps, c)
  <2> HIDE DEF c
  <2>1. SetInmost(SetInmost(h.ps, q), c) = SetInmost(h.ps, c)
    <3>1. h.ps \in Seq(ParseScopeSet) /\ h.ps # << >> /\ q \in ParseScopeSet
      BY <1>1, <1>9
    <3> QED BY <3>1, ReplacedTwice
  <2> QED BY <1>13, <1>18, <2>1
<1>21. \A n \in DOMAIN x.nodes : y.nodes[n].type = x.nodes[n].type /\ y.nodes[n].interfaces = x.nodes[n].interfaces
  BY <1>13, StoredSame
<1>22. \/ Finished(x) = [x EXCEPT !.fault = "children"] /\ p.children = << >>
       \/ Finished(x) = [x EXCEPT !.fault = "exception"]
       \/ Finished(x) = AddChild(y, d.node)
  <2>1. q.data # << >>
    BY <1>4, <1>11
  <2> QED BY <1>11, <1>13, <1>14, <2>1, FinishedIs
<1> HIDE DEF y, c
<1>23. NodeDone(h, y, c, B)
  <2>1. y \in StateSet /\ y.rules = Outer(h.rules) /\ y.scopes = h.scopes
    BY <1>13, <1>18
  <2>2. c.data = Outer(p.data) /\ c.isMap = Targets(p, d) /\ c.said = p.said /\ c.bodies = p.bodies
    BY <1>11, <1>19 DEF Targets
  <2>3. DOMAIN c.names = DOMAIN p.names \cup B \cup ({d.name} \ {Anonymous})
    BY <1>9, <1>19
  <2>4. \A z \in DOMAIN p.names \ (B \cup {d.name}) : c.names[z] = p.names[z]
    BY <1>9, <1>19
  <2>5. \A z \in B \ {d.name} : c.names[z] \in DOMAIN y.nodes
    BY <1>9, <1>13, <1>18, <1>19
  <2>6. DOMAIN h.nodes \subseteq DOMAIN y.nodes /\ y.nodes[d.node].finished
    BY <1>9, <1>13, <1>18
  <2>7. \A n \in DOMAIN h.nodes \ {d.node} : y.nodes[n].finished = h.nodes[n].finished
    BY <1>9, <1>13, <1>18
  <2> QED BY <1>19, <1>20, <2>1, <2>2, <2>3, <2>4, <2>5, <2>6, <2>7 DEF NodeDone, p, d
<1>24. Grows(h.nodes, y.nodes)
  <2>1. DOMAIN h.nodes \subseteq DOMAIN y.nodes
    BY <1>9, <1>13, <1>18
  <2>2. ASSUME NEW n \in DOMAIN h.nodes
        PROVE  y.nodes[n].type = h.nodes[n].type /\ y.nodes[n].interfaces = h.nodes[n].interfaces
    <3>1. n \in DOMAIN x.nodes /\ x.nodes[n] = h.nodes[n]
      BY <1>9, <1>13
    <3> QED BY <1>21, <3>1
  <2> QED BY <2>1, <2>2 DEF Grows
<1>25. Finishing(h, x, y, q, c, B)
  BY <1>8, <1>11, <1>13, <1>18, <1>19, <1>23, <1>24 DEF Finishing, p
<1>26. FinishedOf(h, x, y, NodeFinish(s))
  BY <1>15, <1>22 DEF FinishedOf, p, d
<1> QED BY <1>25, <1>26 DEF s

\* The root, when a node of it ends.
LEMMA FinishedRoot ==
  ASSUME NEW p \in ParseScopeSet, NEW g \in ScopeSet, NEW N, NEW Q, RootPart(p, g, N, Q), p.data # << >>,
         NEW B, NEW c, c.data = Outer(p.data), c.routes = p.routes,
         DOMAIN c.names = DOMAIN p.names \cup B \cup ({Inmost(p.data).name} \ {Anonymous}),
         Inmost(p.data).name # Anonymous => c.names[Inmost(p.data).name] = Inmost(p.data).node,
         \A z \in DOMAIN p.names \ (B \cup {Inmost(p.data).name}) : c.names[z] = p.names[z],
         Clear(Q) => B \cap DOMAIN p.names = {}
  PROVE  RootPart(c, g, N, Q)
<1> DEFINE d == Inmost(p.data)
           m == Len(p.data)
<1>1. /\ d = p.data[m] /\ m \in DOMAIN p.data /\ DOMAIN p.data = 1 .. m /\ m \in Nat \ {0}
      /\ p.data \in Seq(DataSet)
  BY InmostData
<1>2. DOMAIN c.data = 1 .. m - 1 /\ \A i \in 1 .. m - 1 : c.data[i] = p.data[i]
  <2>1. DOMAIN Outer(p.data) = 1 .. m - 1 /\ \A i \in 1 .. m - 1 : Outer(p.data)[i] = p.data[i]
    BY <1>1, StackOfSeq
  <2> QED BY <2>1
<1>3. \A i \in DOMAIN c.data : i \in DOMAIN p.data /\ c.data[i] = p.data[i]
  BY <1>1, <1>2
<1>4. \A i \in DOMAIN p.data : i # m => i \in DOMAIN c.data
  BY <1>1, <1>2
<1>5. /\ DOMAIN c.names = DOMAIN p.names \cup B \cup ({d.name} \ {Anonymous})
      /\ d.name # Anonymous => c.names[d.name] = d.node
      /\ \A z \in DOMAIN p.names \ (B \cup {d.name}) : c.names[z] = p.names[z]
  OBVIOUS
<1> HIDE DEF d, m
<1>6. RootData(c, g, N, Q)
  BY <1>3 DEF RootPart, RootData
<1>7. ASSUME Clear(Q) PROVE RootNames(c, g, N) /\ RootEnds(c, g, N)
  <2>1. RootNames(p, g, N) /\ RootEnds(p, g, N) /\ B \cap DOMAIN p.names = {}
    BY <1>7 DEF RootPart
  <2>2. \A i \in DOMAIN c.data :
          c.data[i].name # Anonymous => Alike(N, c.data[i].node, g.defs[c.data[i].name])
    BY <1>3, <2>1 DEF RootNames
  <2>3. ASSUME NEW name \in DOMAIN g.defs
        PROVE  InProgress(c, name) \/ (name \in DOMAIN c.names /\ Alike(N, c.names[name], g.defs[name]))
    <3>1. name # Anonymous
      <4>1. name \in Names
        BY DEF ScopeSet, Maps
      <4> QED BY <4>1, ParseAssumption
    <3>2. CASE name = d.name
      <4>1. Alike(N, d.node, g.defs[name])
        BY <1>1, <2>1, <3>1, <3>2 DEF RootNames
      <4> QED BY <1>5, <3>1, <3>2, <4>1
    <3>3. CASE name # d.name
      <4>1. CASE InProgress(p, name)
        <5>1. PICK i \in DOMAIN p.data : p.data[i].name = name
          BY <4>1 DEF InProgress
        <5>2. i # m
          BY <1>1, <3>3, <5>1
        <5>3. i \in DOMAIN c.data /\ c.data[i].name = name
          BY <1>3, <1>4, <5>1, <5>2
        <5> QED BY <5>3 DEF InProgress
      <4>2. CASE ~InProgress(p, name)
        <5>1. name \in DOMAIN p.names /\ Alike(N, p.names[name], g.defs[name])
          BY <2>1, <4>2 DEF RootNames
        <5>2. name \notin B
          BY <2>1, <5>1
        <5>3. name \in DOMAIN c.names /\ c.names[name] = p.names[name]
          BY <1>5, <3>3, <5>1, <5>2
        <5> QED BY <5>1, <5>3
      <4> QED BY <4>1, <4>2
    <3> QED BY <3>2, <3>3
  <2>4. RootEnds(c, g, N)
    BY <2>1 DEF RootEnds
  <2> QED BY <2>2, <2>3, <2>4 DEF RootNames
<1> QED BY <1>6, <1>7 DEF RootPart

LEMMA BrokenClone ==
  ASSUME NEW h, Stacks(h), NEW Q, Broken(h, Q), NEW x \in StateSet, NEW q, NEW B,
         Cloned(Inmost(h.ps), q, h.nodes, x.nodes, B), x.ps = SetInmost(h.ps, q),
         q.data = Inmost(h.ps).data, q.children = Inmost(h.ps).children,
         q.routes = Inmost(h.ps).routes, q.bodies = Inmost(h.ps).bodies
  PROVE  Broken(x, Q)
<1> DEFINE p == h.ps[1]
           r == x.ps[1]
<1>1. /\ Len(h.ps) \in Nat \ {0} /\ 1 \in 1 .. Len(h.ps) /\ Inmost(h.ps) = h.ps[Len(h.ps)]
      /\ h.ps \in Seq(ParseScopeSet) /\ h.ps # << >>
  BY StacksAre DEF Stacks
<1>2. /\ q \in ParseScopeSet /\ DOMAIN h.nodes \subseteq DOMAIN x.nodes
      /\ \A n \in DOMAIN h.nodes : x.nodes[n] = h.nodes[n]
      /\ DOMAIN Inmost(h.ps).names \subseteq DOMAIN q.names
  BY DEF Cloned
<1>3. /\ SetInmost(h.ps, q)[Len(h.ps)] = q
      /\ \A k \in 1 .. Len(h.ps) - 1 : SetInmost(h.ps, q)[k] = h.ps[k]
  BY <1>1, <1>2, ReplacedScope
<1>4. /\ r.data = p.data /\ r.children = p.children /\ r.routes = p.routes /\ r.bodies = p.bodies
      /\ DOMAIN p.names \subseteq DOMAIN r.names
  <2>1. CASE Len(h.ps) = 1
    <3>1. r = q /\ p = Inmost(h.ps)
      BY <1>1, <1>3, <2>1
    <3> HIDE DEF r, p
    <3> QED BY <1>2, <3>1
  <2>2. CASE Len(h.ps) # 1
    <3>1. 1 \in 1 .. Len(h.ps) - 1
      BY <1>1, <2>2, NotOnlyOne
    <3>2. r = p
      BY <1>3, <3>1
    <3> HIDE DEF r, p
    <3> QED BY <3>2
  <2> QED BY <2>1, <2>2
<1>5. RootNodes(x)
  <2>1. RootNodes(h)
    BY DEF Broken
  <2>2. Cloned(Inmost(h.ps), q, h.nodes, x.nodes, B)
    OBVIOUS
  <2> QED BY <2>1, <2>2, ClonedRoot
<1>6. \A i \in DOMAIN p.data : p.data[i].node \in DOMAIN h.nodes
  BY DEF Broken, RootNodes
<1>7. ScopeBodies(r, x.nodes)
  <2>1. ScopeBodies(p, h.nodes) /\ SameNodes(h.nodes, x.nodes)
    BY <1>2 DEF Broken, SameNodes
  <2> HIDE DEF r, p
  <2> QED BY <1>4, <2>1, BodiesStay
<1>8. /\ \/ Len(r.children) = Len(r.data) /\ (r.data = << >> => ~Clear(Q))
         \/ Len(r.children) = Len(r.data) + 1
      /\ "event" \notin Q => \A i \in DOMAIN p.data : Creatable(h.nodes[p.data[i].node], p.data[i])
      /\ \A j \in DOMAIN p.routes :
           /\ p.routes[j].from \in DOMAIN p.names \/ InProgress(p, p.routes[j].from)
           /\ p.routes[j].to \in DOMAIN p.names \/ InProgress(p, p.routes[j].to)
  <2>1. /\ \/ Len(p.children) = Len(p.data) /\ (p.data = << >> => ~Clear(Q))
           \/ Len(p.children) = Len(p.data) + 1
        /\ "event" \notin Q => \A i \in DOMAIN p.data : Creatable(h.nodes[p.data[i].node], p.data[i])
        /\ \A j \in DOMAIN p.routes :
             /\ p.routes[j].from \in DOMAIN p.names \/ InProgress(p, p.routes[j].from)
             /\ p.routes[j].to \in DOMAIN p.names \/ InProgress(p, p.routes[j].to)
    BY DEF Broken
  <2> HIDE DEF r, p
  <2> QED BY <1>4, <2>1
<1> HIDE DEF r, p
<1>9. "event" \notin Q => \A i \in DOMAIN r.data : Creatable(x.nodes[r.data[i].node], r.data[i])
  BY <1>2, <1>4, <1>6, <1>8
<1>10. \A j \in DOMAIN r.routes :
         /\ r.routes[j].from \in DOMAIN r.names \/ InProgress(r, r.routes[j].from)
         /\ r.routes[j].to \in DOMAIN r.names \/ InProgress(r, r.routes[j].to)
  <2>1. \A name : InProgress(p, name) <=> InProgress(r, name)
    BY <1>4 DEF InProgress
  <2> QED BY <1>4, <1>8, <2>1
<1> QED BY <1>5, <1>7, <1>8, <1>9, <1>10 DEF Broken, r

LEMMA CallersOfNode ==
  ASSUME NEW q \in Seq(RuleNames), Grammar(q), Inmost(q) = "node"
  PROVE  LET o == Outer(q)
         IN /\ o \in Seq(RuleNames) /\ Grammar(o) /\ Top(o) = Top(q) /\ Inmost(o) \in Listing
            /\ CountIn(o, Top(q), Listing) \in Nat \ {0}
            /\ \A k : CountIn(o, k, Listing) = CountIn(q, k, Listing)
<1> DEFINE o == Outer(q)
<1>1. /\ o \in Seq(RuleNames) /\ Grammar(o) /\ Inmost(o) \in Callers["node"] /\ q = Append(o, "node")
      /\ "node" \in RuleNames
  BY GrammarPop
<1> HIDE DEF o
<1>2. "node" \in Holding /\ "node" \notin Scoped
  BY DEF Holding, Scoped
<1>3. \A k : CountIn(q, k, Listing) = CountIn(o, k, Listing)
  BY <1>1, <1>2, OtherPush
<1>4. Top(q) = Top(o)
  BY <1>1, <1>2, TopPush
<1>5. Inmost(o) \in Listing
  BY <1>1 DEF Callers, ScopeRules, Listed, Listing
<1>6. CountIn(o, Top(o), Listing) \in Nat \ {0}
  BY <1>1, <1>5, ListedInmost
<1> QED BY <1>1, <1>3, <1>4, <1>5, <1>6 DEF o

LEMMA NodeFinishIsSound ==
  ASSUME NEW h, NEW P, Good(h, P), h.fault = "parsing", Inmost(h.rules) = "node",
         NEW Q, More(h, Q, h.rules),
         LET p == Inmost(h.ps)
         IN Clear(Q) => DOMAIN BodyNames(h, h.nodes[Inmost(p.data).node].type) \cap DOMAIN p.names = {}
  PROVE  Sound(NodeFinish([h EXCEPT !.rules = Outer(@)]), Q, Outer(h.rules))
<1> DEFINE p == Inmost(h.ps)
           d == Inmost(p.data)
           n == Len(h.ps)
           o == Outer(h.rules)
           t == NodeFinish([h EXCEPT !.rules = Outer(@)])
           B == DOMAIN BodyNames(h, h.nodes[d.node].type)
<1>1. Stacks(h) /\ h \in StateSet /\ Grammar(h.rules) /\ h.rules \in Seq(RuleNames)
  BY GoodStacks, GoodInmost
<1>2. /\ n \in Nat \ {0} /\ n \in 1 .. n /\ p = h.ps[n] /\ p \in ParseScopeSet
      /\ h.ps \in Seq(ParseScopeSet) /\ h.ps # << >>
      /\ Inmost(h.scopes) = h.scopes[n] /\ Inmost(h.scopes) \in ScopeSet
  BY <1>1, StacksAre DEF Stacks
<1>3. n = Top(h.rules)
  BY Shapes DEF Good
<1>4. p.data # << >> /\ d \in DataSet /\ d.node \in DOMAIN h.nodes
  BY NodeRead
<1>5. /\ o \in Seq(RuleNames) /\ CountIn(o, n, Listing) \in Nat \ {0}
      /\ \A k : CountIn(o, k, Listing) = CountIn(h.rules, k, Listing)
  BY <1>1, <1>3, CallersOfNode
<1>6. Clear(Q) => B \cap DOMAIN p.names = {}
  OBVIOUS
<1>7. PICK x, y, q, c : Finishing(h, x, y, q, c, B) /\ FinishedOf(h, x, y, t)
  BY NodeFinishIs
<1> HIDE DEF B, t
<1>8. \/ t = [x EXCEPT !.fault = "children"] /\ p.children = << >>
      \/ t = [x EXCEPT !.fault = "exception"]
      \/ t = AddChild(y, d.node)
  BY <1>7 DEF FinishedOf
<1>9. /\ Cloned(p, q, h.nodes, x.nodes, B)
      /\ x \in StateSet /\ x.ps = SetInmost(h.ps, q) /\ x.rules = Outer(h.rules) /\ x.scopes = h.scopes
      /\ q.data = p.data /\ q.children = p.children /\ q.routes = p.routes /\ q.bodies = p.bodies
      /\ NodeDone(h, y, c, B) /\ y.fault = "parsing" /\ c.children = q.children /\ c.routes = q.routes
      /\ Grows(h.nodes, y.nodes)
  BY <1>7 DEF Finishing
<1> HIDE DEF p, d, n, o
<1>10. CASE t = [x EXCEPT !.fault = "children"] /\ p.children = << >>
  <2>1. "script event" \in Q
    <3>1. SUFFICES ASSUME "script event" \notin Q PROVE FALSE
      OBVIOUS
    <3>2. CountIn(h.rules, Len(h.ps), Listing) \in Nat \ {0}
      BY <1>5 DEF n
    <3>3. Inmost(h.ps).children # << >>
      BY <1>1, <3>1, <3>2, ListThere
    <3> QED BY <1>10, <3>3 DEF p
  <2>2. Causes("children", Q)
    BY <2>1, ChildrenCause
  <2>3. DOMAIN x = Fields
    BY <1>9, StateFields
  <2>4. Sound([x EXCEPT !.fault = "children"], Q, o)
    BY <2>2, <2>3, FailsSound
  <2>5. Sound(t, Q, o)
    BY <1>10, <2>4
  <2> QED BY <2>5 DEF t, o
<1>11. CASE t = [x EXCEPT !.fault = "exception"]
  <2>1. Broken(h, Q)
    BY BrokenIs
  <2>2. Broken(x, Q)
    BY <1>1, <1>9, <2>1, BrokenClone DEF p
  <2>3. Sound([x EXCEPT !.fault = "exception"], Q, o)
    BY <2>2, ThrowsSound
  <2>4. Sound(t, Q, o)
    BY <1>11, <2>3
  <2> QED BY <2>4 DEF t, o
<1>12. CASE t = AddChild(y, d.node)
  <2> DEFINE u == [h EXCEPT !.nodes = y.nodes]
  <2>1. /\ y \in StateSet /\ y.rules = o /\ y.scopes = h.scopes /\ y.ps = SetInmost(h.ps, c)
        /\ c \in ParseScopeSet /\ c.data = Outer(p.data)
        /\ DOMAIN c.names = DOMAIN p.names \cup B \cup ({d.name} \ {Anonymous})
        /\ d.name # Anonymous => c.names[d.name] = d.node
        /\ \A z \in DOMAIN p.names \ (B \cup {d.name}) : c.names[z] = p.names[z]
    BY <1>9 DEF NodeDone, p, d, o
  <2>2. u \in StateSet /\ u.ps = h.ps /\ u.scopes = h.scopes /\ u.nodes = y.nodes /\ u.rules = h.rules
    BY <1>1, <2>1 DEF StateSet
  <2> HIDE DEF u
  <2>3. Stacks(u) /\ Inmost(u.ps) = p /\ Len(u.ps) = n
    BY <1>1, <2>2 DEF Stacks, p, n
  <2>4. More(u, Q, h.rules)
    BY <1>9, <2>2, NodesMore
  <2>5. ScopeRoutes(p, Inmost(h.scopes).defs) /\ ScopeLists(p, Q, h.rules, n)
    BY <1>2 DEF More, n
  <2>6. ScopeRoutes(c, Inmost(h.scopes).defs)
    BY <1>9, <2>5 DEF ScopeRoutes
  <2>7. ScopeLists(c, Q, o, n)
    BY <1>5, <1>9, <2>5 DEF ScopeLists
  <2>8. ASSUME n = 1 PROVE RootPart(c, h.scopes[1], y.nodes, Q)
    <3>1. h.scopes[1] \in ScopeSet /\ p = h.ps[1]
      BY <1>2, <2>8
    <3>2. RootPart(p, h.scopes[1], y.nodes, Q)
      BY <2>2, <2>4, <3>1 DEF More
    <3> QED BY <1>2, <1>4, <1>6, <1>9, <2>1, <3>1, <3>2, FinishedRoot DEF d
  <2>9. More(y, Q, o)
    <3>1. /\ y.ps = SetInmost(u.ps, c) /\ y.scopes = u.scopes /\ y.nodes = u.nodes /\ c \in ParseScopeSet
          /\ ScopeRoutes(c, Inmost(u.scopes).defs) /\ ScopeLists(c, Q, o, Len(u.ps))
          /\ Len(u.ps) = 1 => RootPart(c, u.scopes[1], u.nodes, Q)
          /\ \A k : k # Len(u.ps) => CountIn(o, k, Listing) = CountIn(h.rules, k, Listing)
      BY <1>5, <2>1, <2>2, <2>3, <2>6, <2>7, <2>8
    <3> QED BY <2>3, <2>4, <3>1, InmostMore
  <2>10. Stacks(y) /\ Len(y.ps) = n
    <3>1. SetInmost(h.ps, c) # << >> /\ Len(SetInmost(h.ps, c)) = n
      BY <1>2, <2>1, ReplacedScope DEF n
    <3> QED BY <1>1, <2>1, <3>1 DEF Stacks, n
  <2>11. Sound(y, Q, o)
    BY <1>9, <2>9, NoCause DEF Sound
  <2>12. d.node \in Nat
    BY <1>4 DEF DataSet
  <2>13. Sound(AddChild(y, d.node), Q, o)
    BY <1>5, <2>10, <2>11, <2>12, AddChildIsSound
  <2>14. Sound(t, Q, o)
    BY <1>12, <2>13
  <2> QED BY <2>14 DEF t, o
<1> QED BY <1>8, <1>10, <1>11, <1>12

-----------------------------------------------------------------------------
(* The steps of the parse.                                                 *)

LEMMA SoundRules ==
  ASSUME NEW t, NEW Q, NEW R, Sound(t, Q, R), t.fault = "parsing" => t.rules = R
  PROVE  Sound(t, Q, t.rules)
BY OverSound

LEMMA HereIsSound ==
  ASSUME NEW Q, Good(Here, Q), NEW R, R = quirks', quirks \subseteq quirks', More(Here, quirks, rules)
  PROVE  /\ More(Here, R, rules) /\ Sound(Here, R, rules) /\ Here.rules = rules
         /\ Top(rules) = Len(ps) /\ Here.fault = "parsing" /\ Stacks(Here)
<1>1. More(Here, R, rules)
  BY MoreGrows
<1>2. Sound(Here, R, rules)
  BY <1>1, NoCause, HereIs DEF Sound
<1>3. Top(rules) = Len(ps)
  BY HereIs DEF Good, Shape
<1> QED BY <1>1, <1>2, <1>3, HereIs, GoodStacks

LEMMA TopIs == ASSUME NEW Q, Good(Here, Q) PROVE Top(rules) = Len(ps)
BY HereIs DEF Good, Shape

LEMMA NodeFinishRules ==
  ASSUME NEW h, NEW Q, Good(h, Q), h.fault = "parsing", Inmost(h.rules) = "node",
         NEW t, t = NodeFinish([h EXCEPT !.rules = Outer(@)]), t.fault = "parsing"
  PROVE  t.rules = Outer(h.rules)
<1> DEFINE d == Inmost(Inmost(h.ps).data)
           B == DOMAIN BodyNames(h, h.nodes[d.node].type)
<1>1. PICK x, y, q, c : Finishing(h, x, y, q, c, B) /\ FinishedOf(h, x, y, t)
  BY NodeFinishIs
<1> HIDE DEF B
<1>2. /\ x \in StateSet /\ y \in StateSet /\ y.rules = Outer(h.rules)
  BY <1>1 DEF Finishing, NodeDone
<1>3. t # [x EXCEPT !.fault = "children"] /\ t # [x EXCEPT !.fault = "exception"]
  BY <1>2, StateFields, FaultSet
<1>4. t = AddChild(y, d.node)
  BY <1>1, <1>3 DEF FinishedOf
<1> HIDE DEF d
<1>5. AddChild(y, d.node).rules = y.rules
  BY <1>2 DEF AddChild, Unless, StateSet
<1> QED BY <1>2, <1>4, <1>5

LEMMA NodeEndSound ==
  ASSUME Good(Here, quirks), More(Here, quirks, rules), NodeEnd
  PROVE  \E s : Become(s) /\ Sound(s, quirks', s.rules)
<1> DEFINE p == Inmost(ps)
           type == nodes[Inmost(p.data).node].type
           B == DOMAIN BodyNames(Here, type)
           t == NodeFinish([Here EXCEPT !.rules = Outer(@)])
           P == quirks \cup {"nested"}
<1>1. Become(StatementDone(t)) /\ Rule = "node"
  BY DEF NodeEnd
<1>2. Oddly({<<"instance", B \cap DOMAIN p.names # {}>>})
  BY DEF NodeEnd
<1>3. /\ quirks \subseteq quirks'
      /\ B \cap DOMAIN p.names # {} => "instance" \in quirks'
  <2> DEFINE taken == B \cap DOMAIN p.names # {}
             c == <<"instance", taken>>
  <2>1. Oddly({c})
    BY <1>2
  <2> HIDE DEF taken
  <2>2. c[1] = "instance" /\ c[2] = taken
    OBVIOUS
  <2> HIDE DEF c
  <2>3. quirks \subseteq quirks' /\ (taken => "instance" \in quirks')
    BY <2>1, <2>2, QuirksGrow
  <2> QED BY <2>3 DEF taken
<1>4. Clear(quirks') => B \cap DOMAIN p.names = {}
  BY <1>3 DEF Clear
<1>5. /\ Inmost(Here.rules) = "node" /\ Here.fault = "parsing" /\ Here.ps = ps
      /\ Here.nodes = nodes /\ Here.rules = rules
  BY <1>1, HereIs DEF Rule
<1>6. LET x == Inmost(Here.ps)
      IN Clear(quirks') =>
           DOMAIN BodyNames(Here, Here.nodes[Inmost(x.data).node].type) \cap DOMAIN x.names = {}
  BY <1>4, <1>5
<1> HIDE DEF t, B, type, p
<1>7. Fine(t, P)
  <2>1. LET x == Inmost(Here.ps)
        IN Calm(P) =>
             DOMAIN BodyNames(Here, Here.nodes[Inmost(x.data).node].type) \cap DOMAIN x.names = {}
    BY DEF Calm
  <2>2. quirks \subseteq P
    OBVIOUS
  <2> HIDE DEF P
  <2> QED BY <1>5, <2>1, <2>2, NodeFinishIsFine DEF t
<1> HIDE DEF P
<1>8. Sound(t, quirks', Outer(rules))
  <2> DEFINE Q == quirks'
  <2>1. More(Here, Q, Here.rules)
    BY <1>3, <1>5, HereIsSound
  <2>2. LET x == Inmost(Here.ps)
        IN Clear(Q) =>
             DOMAIN BodyNames(Here, Here.nodes[Inmost(x.data).node].type) \cap DOMAIN x.names = {}
    BY <1>6
  <2> HIDE DEF Q
  <2>3. Sound(NodeFinish([Here EXCEPT !.rules = Outer(@)]), Q, Outer(Here.rules))
    BY <1>5, <2>1, <2>2, NodeFinishIsSound
  <2> QED BY <1>5, <2>3 DEF Q, t
<1>9. t.fault = "parsing" => t.rules = Outer(rules)
  BY <1>5, NodeFinishRules DEF t
<1>10. Sound(t, quirks', t.rules)
  BY <1>8, <1>9, SoundRules
<1>11. Sound(StatementDone(t), quirks', StatementDone(t).rules)
  BY <1>7, <1>10, StatementDoneIsSound
<1> QED BY <1>1, <1>11

LEMMA NodeFieldSound ==
  ASSUME Good(Here, quirks), More(Here, quirks, rules), NodeField
  PROVE  \E s : Become(s) /\ Sound(s, quirks', s.rules)
<1>1. /\ Rule = "node" /\ Inmost(Here.rules) = "node" /\ Here.nodes = nodes /\ Here.ps = ps
      /\ Here.rules = rules /\ rules \in Seq(RuleNames)
  BY HereIs, HereIsGood DEF NodeField, Rule
<1>2. PICK i \in Node.interfaces :
        /\ \/ Become(Value(FieldStart(Here, i), i))
           \/ \E j \in Inmost(scopes).declared : Become(IsMapping(FieldStart(Here, i), i, j))
        /\ Oddly({<<"twice", i.id \in DOMAIN Current.values>>, <<"event", IsEvent(i)>>})
  BY DEF NodeField
<1>3. Node \in NodeSet
  BY <1>1, NodeRead DEF Node, Current
<1>4. i \in Interface
  BY <1>3 DEF NodeSet
<1> DEFINE Q == quirks'
           t == FieldStart(Here, i)
<1>5. /\ quirks \subseteq Q /\ (i.id \in DOMAIN Current.values => "twice" \in Q)
      /\ IsEvent(i) => "event" \in Q
  <2> DEFINE twice == i.id \in DOMAIN Current.values
             event == IsEvent(i)
             C == {<<"twice", twice>>, <<"event", event>>}
  <2>1. Oddly(C)
    BY <1>2
  <2> HIDE DEF twice, event
  <2>2. \A x : <<"twice", x>>[1] = "twice" /\ <<"twice", x>>[2] = x /\ <<"event", x>>[1] = "event"
               /\ <<"event", x>>[2] = x
    OBVIOUS
  <2>3. <<"twice", twice>> \in C /\ <<"event", event>> \in C
    OBVIOUS
  <2> HIDE DEF C
  <2>4. quirks \subseteq quirks' /\ (twice => "twice" \in quirks') /\ (event => "event" \in quirks')
    BY <2>1, <2>2, <2>3, QuirksGrow
  <2> QED BY <2>4 DEF twice, event
<1>6. Sound(Here, Q, rules) /\ Top(rules) = Len(ps)
  BY <1>5, HereIsSound
<1>7. Fine(Here, Q)
  BY <1>5, HereIsGood, GoodGrows
<1>8. Given(Node, i, Q)
  BY <1>5 DEF Given
<1> HIDE DEF Q
<1>9. Sound(t, Q, ListsFor(rules, i))
  <2>1. LET d == Inmost(Inmost(Here.ps).data)
        IN Given(Here.nodes[d.node], i, Q) /\ (i.id \in DOMAIN d.values => "twice" \in Q)
    BY <1>1, <1>5, <1>8 DEF Node, Current
  <2> QED BY <1>1, <1>4, <1>6, <1>7, <2>1, FieldStartIsSound
<1>10. Fine(t, Q) /\ Follows(Here, t)
  BY <1>1, <1>4, <1>7, FieldStartIsFine
<1> HIDE DEF t
<1>11. t.fault = "parsing" => /\ t.rules = rules /\ Inmost(t.rules) = "node" /\ Top(rules) = Len(t.ps)
                              /\ Good(t, Q)
  BY <1>1, <1>10 DEF Follows, Fine, Good, Shape
<1>12. Sound(t, Q, ListsFor(t.rules, i))
  BY <1>9, <1>11, OverSound
<1>13. Sound(Value(t, i), Q, Value(t, i).rules)
  BY <1>4, <1>10, <1>11, <1>12, ValueIsSound
<1>14. ASSUME NEW j \in Inmost(scopes).declared
       PROVE  Sound(IsMapping(t, i, j), Q, IsMapping(t, i, j).rules)
  <2>1. j \in Interface
    BY HereIsGood
  <2>2. Sound(IsMapping(t, i, j), Q, rules)
    BY <1>1, <1>4, <1>9, <1>10, <1>11, <2>1, IsMappingIsSound
  <2>3. Follows(t, IsMapping(t, i, j))
    BY <1>4, <1>10, <1>11, <2>1, IsMappingIsFine
  <2>4. IsMapping(t, i, j).fault = "parsing" => IsMapping(t, i, j).rules = rules
    BY <1>11, <2>3 DEF Follows
  <2> QED BY <2>2, <2>4, SoundRules
<1>15. Become(Value(t, i)) \/ \E j \in Inmost(scopes).declared : Become(IsMapping(t, i, j))
  BY <1>2 DEF t
<1> QED BY <1>13, <1>14, <1>15 DEF Q

\* A Script may have more interfaces.
LEMMA DeclaredIsMore ==
  ASSUME Good(Here, quirks), NEW Q, NEW R, More(Here, Q, R), Rule = "node", Node.type = Script,
         NEW i \in Interface
  PROVE  LET s == [Here EXCEPT !.nodes[Current.node].interfaces = @ \cup {i}]
         IN /\ More(s, Q, R) /\ s.ps = ps /\ s.scopes = scopes /\ s.fault = "parsing"
            /\ s.nodes[Current.node].type = Script
<1> DEFINE n == Current.node
           m == [nodes[n] EXCEPT !.interfaces = @ \cup {i}]
           M == [nodes EXCEPT ![n] = m]
           s == [Here EXCEPT !.nodes[n].interfaces = @ \cup {i}]
<1>1. n \in DOMAIN nodes /\ nodes[n] \in NodeSet
  <2>1. Inmost(Here.rules) = "node" /\ Here.nodes = nodes /\ Here.ps = ps
    BY HereIs DEF Rule
  <2> QED BY <2>1, NodeRead DEF Current
<1>2. nodes[n].type = Script
  BY DEF Node
<1> HIDE DEF n
<1>3. m.type = nodes[n].type /\ m.interfaces = nodes[n].interfaces \cup {i}
  BY <1>1 DEF NodeSet
<1>4. s = [Here EXCEPT !.nodes = M]
  BY HereIs
<1> HIDE DEF m
<1>5. DOMAIN M = DOMAIN nodes /\ M[n] = m /\ \A k \in DOMAIN nodes \ {n} : M[k] = nodes[k]
  BY <1>1
<1> HIDE DEF M
<1>6. /\ s.scopes = scopes /\ s.ps = ps /\ s.nodes = M /\ s.fault = "parsing"
  <2> HIDE DEF s
  <2> QED BY <1>4, HereIs, HereIsGood DEF StateSet
<1>7. Grows(nodes, M)
  BY <1>2, <1>3, <1>5 DEF Grows
<1> HIDE DEF s
<1>8. More(s, Q, R)
  BY <1>6, <1>7, HereIs, NodesMore
<1> QED BY <1>2, <1>3, <1>5, <1>6, <1>8 DEF s, n

\* Within a PROTO the parse is not at the root.
LEMMA ProtoIsNotRoot ==
  ASSUME Good(Here, quirks), NEW Q, NEW R, More(Here, Q, R), InProto
  PROVE  Len(ps) # 1
<1>1. ~scopes[1].proto
  BY HereIs DEF More, RootPart, RootTypes
<1>2. Inmost(scopes) = scopes[Len(scopes)] /\ Len(scopes) = Len(ps)
  BY HereIsGood
<1> QED BY <1>1, <1>2 DEF InProto

LEMMA ScriptInterfaceSound ==
  ASSUME Good(Here, quirks), More(Here, quirks, rules), ScriptInterface
  PROVE  \E s : Become(s) /\ Sound(s, quirks', s.rules)
<1>1. PICK i \in Declared :
        LET started == FieldStart([Here EXCEPT !.nodes[Current.node].interfaces = @ \cup {i}], i)
            declared == IF IsEvent(i) /\ HoldsNodes(i) THEN PopChildren(started) ELSE started
        IN \/ /\ Become(IF IsEvent(i) THEN declared ELSE Value(declared, i))
              /\ Oddly({<<"twice", i.id \in DOMAIN Current.values>>})
           \/ \E j \in Inmost(scopes).declared :
                /\ InProto
                /\ Become(IsMapping(declared, i, j))
                /\ Oddly({<<"twice", i.id \in DOMAIN Current.values>>,
                          <<"script event", IsEvent(i) /\ HoldsNodes(i)>>})
  BY DEF ScriptInterface
<1> DEFINE Q == quirks'
           t == [Here EXCEPT !.nodes[Current.node].interfaces = @ \cup {i}]
           started == FieldStart(t, i)
           popped == PopChildren(started)
           declared == IF IsEvent(i) /\ HoldsNodes(i) THEN popped ELSE started
           own == IF IsEvent(i) THEN declared ELSE Value(declared, i)
           odd == IsEvent(i) /\ HoldsNodes(i)
           twice == i.id \in DOMAIN Current.values
<1>2. Rule = "node" /\ i \in Interface /\ Node.type = Script
  BY ParseAssumption DEF ScriptInterface
<1>3. \E C : /\ <<"twice", twice>> \in C /\ Oddly(C)
             /\ \/ Become(own)
                \/ /\ <<"script event", odd>> \in C /\ InProto
                   /\ \E j \in Inmost(scopes).declared : Become(IsMapping(declared, i, j))
  BY <1>1
<1>4. Good(t, quirks) /\ Fine(t, quirks) /\ t.rules = rules
  BY <1>2, DeclaredIsGood
<1>5. \A R : More(Here, Q, R) => More(t, Q, R) /\ t.ps = ps /\ t.scopes = scopes
                                 /\ t.fault = "parsing" /\ t.nodes[Current.node].type = Script
  BY <1>2, DeclaredIsMore
<1> HIDE DEF t
<1> HIDE DEF odd, twice, own, declared
<1>6. /\ quirks \subseteq Q /\ (twice => "twice" \in Q)
      /\ \/ Become(own)
         \/ /\ odd => "script event" \in Q
            /\ InProto /\ \E j \in Inmost(scopes).declared : Become(IsMapping(declared, i, j))
  <2>1. PICK C : /\ <<"twice", twice>> \in C /\ Oddly(C)
                 /\ \/ Become(own)
                    \/ /\ <<"script event", odd>> \in C /\ InProto
                       /\ \E j \in Inmost(scopes).declared : Become(IsMapping(declared, i, j))
    BY <1>3
  <2>2. \A x : /\ <<"twice", x>>[1] = "twice" /\ <<"twice", x>>[2] = x
               /\ <<"script event", x>>[1] = "script event" /\ <<"script event", x>>[2] = x
    OBVIOUS
  <2>3. quirks \subseteq quirks' /\ \A c \in C : c[2] => c[1] \in quirks'
    BY <2>1, QuirksGrow
  <2>4. twice => "twice" \in quirks'
    BY <2>1, <2>2, <2>3
  <2>5. <<"script event", odd>> \in C => (odd => "script event" \in quirks')
    BY <2>2, <2>3
  <2> QED BY <2>1, <2>3, <2>4, <2>5
<1>7. More(Here, Q, rules) /\ Top(rules) = Len(ps) /\ rules \in Seq(RuleNames)
  BY <1>6, HereIsSound, HereIsGood
<1>8. /\ More(t, Q, rules) /\ t.ps = ps /\ t.scopes = scopes /\ t.fault = "parsing"
      /\ t.nodes[Current.node].type = Script
  BY <1>5, <1>7
<1>9. Good(t, Q) /\ Fine(t, Q)
  BY <1>4, <1>6, GoodGrows
<1> HIDE DEF Q
<1>10. Inmost(t.rules) = "node"
  BY <1>2, <1>4 DEF Rule
<1>11. Sound(started, Q, ListsFor(rules, i))
  <2>1. Sound(t, Q, rules)
    BY <1>8, NoCause DEF Sound
  <2>2. LET d == Inmost(Inmost(t.ps).data)
        IN Given(t.nodes[d.node], i, Q) /\ (i.id \in DOMAIN d.values => "twice" \in Q)
    <3>1. Given(t.nodes[Current.node], i, Q)
      BY <1>8 DEF Given, Profiled
    <3> QED BY <1>6, <1>8, <3>1 DEF Current, twice
  <2> QED BY <1>2, <1>4, <1>7, <1>9, <1>10, <2>1, <2>2, FieldStartIsSound
<1>12. Fine(started, Q) /\ Follows(t, started)
  BY <1>2, <1>9, <1>10, FieldStartIsFine
<1> HIDE DEF started
<1>13. started.fault = "parsing" =>
         /\ started.rules = rules /\ Inmost(started.rules) = "node" /\ Good(started, Q)
         /\ Stacks(started) /\ Top(rules) = Len(started.ps)
  BY <1>4, <1>10, <1>12, GoodStacks DEF Follows, Fine, Good, Shape
<1>14. Fine(popped, Q) /\ Follows(started, popped)
  BY <1>12, PopChildrenIsFine
<1>15. odd => Sound(popped, Q, rules)
  <2> SUFFICES ASSUME odd PROVE Sound(popped, Q, rules)
    OBVIOUS
  <2>1. ListsFor(rules, i) = Append(rules, i.value) /\ i.value \in Listed
    BY <1>2 DEF ListsFor, odd, HoldsNodes, Listed, Interface
  <2> QED BY <1>7, <1>11, <1>13, <2>1, PopChildrenIsSound
<1> HIDE DEF popped
<1>16. Fine(declared, Q) /\ (declared.fault = "parsing" =>
         declared.rules = rules /\ Inmost(declared.rules) = "node" /\ Good(declared, Q)
           /\ Top(rules) = Len(declared.ps))
  <2>1. popped.fault = "parsing" => popped.rules = rules /\ Inmost(popped.rules) = "node" /\ Good(popped, Q)
                                    /\ Top(rules) = Len(popped.ps)
    BY <1>13, <1>14 DEF Follows, Fine, Good, Shape
  <2> QED BY <1>12, <1>13, <1>14, <2>1 DEF declared
<1>17. /\ odd => Sound(declared, Q, rules)
       /\ ~odd => Sound(declared, Q, ListsFor(rules, i))
  BY <1>11, <1>15 DEF declared, odd
<1>18. Sound(own, Q, own.rules)
  <2>1. CASE IsEvent(i)
    <3>1. own = declared
      BY <2>1 DEF own
    <3>2. Sound(declared, Q, rules)
      BY <1>17, <2>1 DEF odd, ListsFor
    <3> QED BY <1>16, <3>1, <3>2, SoundRules
  <2>2. CASE ~IsEvent(i)
    <3>1. own = Value(declared, i) /\ ~odd
      BY <2>2 DEF own, odd
    <3>2. Sound(declared, Q, ListsFor(declared.rules, i))
      BY <1>16, <1>17, <3>1, OverSound
    <3> QED BY <1>2, <1>16, <3>1, <3>2, ValueIsSound
  <2> QED BY <2>1, <2>2
<1>19. ASSUME InProto, odd => "script event" \in Q, NEW j \in Inmost(scopes).declared
       PROVE  Sound(IsMapping(declared, i, j), Q, IsMapping(declared, i, j).rules)
  <2>1. j \in Interface
    BY HereIsGood
  <2>2. Follows(declared, IsMapping(declared, i, j))
    BY <1>2, <1>16, <2>1, IsMappingIsFine
  <2>3. IsMapping(declared, i, j).fault = "parsing" => IsMapping(declared, i, j).rules = rules
    BY <1>16, <2>2 DEF Follows
  <2>4. Sound(IsMapping(declared, i, j), Q, rules)
    <3>1. CASE ~odd
      BY <1>2, <1>7, <1>16, <1>17, <2>1, <3>1, IsMappingIsSound
    <3>2. CASE odd
      <4> DEFINE m == Mapped(declared, i, j)
      <4>1. HoldsNodes(i) /\ "script event" \in Q /\ Sound(declared, Q, rules)
        BY <1>17, <1>19, <3>2 DEF odd
      <4>2. CASE declared.fault # "parsing"
        <5>1. IsMapping(declared, i, j) = declared
          BY <4>2 DEF IsMapping, Unless
        <5> QED BY <4>1, <5>1
      <4>3. CASE declared.fault = "parsing"
        <5>1. IsMapping(declared, i, j) = PopChildren(m)
          BY <4>1, <4>3 DEF IsMapping, Unless
        <5>2. More(declared, Q, rules)
          BY <4>1, <4>3 DEF Sound
        <5>3. Sound(m, Q, rules)
          BY <1>2, <1>16, <2>1, <4>3, <5>2, MappedIsSound
        <5>4. Fine(m, Q) /\ Follows(declared, m)
          BY <1>2, <1>16, <2>1, <4>3, MappedIsFine
        <5> HIDE DEF m
        <5>5. m.fault = "parsing" => Stacks(m) /\ Len(m.ps) # 1
          <6>1. Len(ps) # 1
            BY <1>7, <1>19, ProtoIsNotRoot
          <6> QED BY <1>7, <1>16, <4>3, <5>4, <6>1, GoodStacks DEF Follows, Fine, Good, Shape
        <5>6. Sound(PopChildren(m), Q, rules)
          BY <4>1, <5>3, <5>5, LoosePopIsSound
        <5> QED BY <5>1, <5>6
      <4> QED BY <4>2, <4>3
    <3> QED BY <3>1, <3>2
  <2> QED BY <2>3, <2>4, SoundRules
<1> QED BY <1>6, <1>18, <1>19 DEF Q

LEMMA UseSound ==
  ASSUME Good(Here, quirks), More(Here, quirks, rules), Use
  PROVE  \E s : Become(s) /\ Sound(s, quirks', s.rules)
<1>1. PICK name \in DOMAIN Inmost(scopes).defs :
        LET p == Inmost(ps)
            enclosing == {i \in DOMAIN p.data : p.data[i].name = name}
            self == Len(p.data) \in enclosing
            found == name \in DOMAIN p.names
        IN /\ \/ Become(Unless(~self /\ ~found, "use", Here,
                               StatementDone(AddChild(Here, IF self THEN SELF ELSE p.names[name]))))
              \/ p.data = << >> /\ Become([Here EXCEPT !.fault = "empty"])
           /\ Oddly({<<"enclosing", enclosing \ {Len(p.data)} # {}>>,
                     <<"self", self /\ Node.type # Script>>,
                     <<"rooted", p.data = << >>>>})
  BY DEF Use
<1> DEFINE p == Inmost(ps)
           inside == {i \in DOMAIN p.data : p.data[i].name = name}
           self == Len(p.data) \in inside
           found == name \in DOMAIN p.names
           n == IF self THEN SELF ELSE p.names[name]
           s == StatementDone(AddChild(Here, n))
           t == [Here EXCEPT !.fault = "empty"]
           Q == quirks'
<1>2. \/ Become(Unless(~self /\ ~found, "use", Here, s))
      \/ p.data = << >> /\ Become(t)
  BY <1>1
<1>3. /\ quirks \subseteq Q
      /\ inside \ {Len(p.data)} # {} => "enclosing" \in Q
      /\ p.data = << >> => "rooted" \in Q
  <2> DEFINE odd == inside \ {Len(p.data)} # {}
             c == <<"enclosing", odd>>
             other == self /\ Node.type # Script
             root == p.data = << >>
             d == <<"rooted", root>>
  <2>1. Oddly({c, <<"self", other>>, d})
    BY <1>1
  <2> HIDE DEF odd, other, root
  <2>2. c[1] = "enclosing" /\ c[2] = odd /\ d[1] = "rooted" /\ d[2] = root
    OBVIOUS
  <2> HIDE DEF c, d
  <2>3. quirks \subseteq quirks' /\ (odd => "enclosing" \in quirks')
    BY <2>1, <2>2, QuirksGrow
  <2>4. root => "rooted" \in quirks'
    BY <2>1, <2>2, QuirksGrow
  <2> QED BY <2>3, <2>4 DEF odd, root
<1>4. /\ Here \in StateSet /\ Fine(Here, quirks) /\ p \in ParseScopeSet /\ Here.fault = "parsing"
      /\ Here.rules = rules /\ rules \in Seq(RuleNames) /\ Grammar(rules) /\ Here.ps = ps
      /\ Here.scopes = scopes /\ Rule = Inmost(rules) /\ Inmost(scopes) = scopes[Len(ps)]
      /\ p = ps[Len(ps)] /\ Len(ps) \in 1 .. Len(ps)
  BY HereIs, HereIsGood
<1>5. Fine(Here, Q) /\ Sound(Here, Q, rules) /\ Top(rules) = Len(ps) /\ Stacks(Here)
  BY <1>3, <1>4, GoodGrows, HereIsSound
<1> HIDE DEF Q
<1>6. self \/ found => n \in Nat
  <2>1. SELF \in Nat
    BY DEF SELF
  <2>2. p.names \in Maps(Names, Nat)
    BY <1>4 DEF ParseScopeSet, FiniteMaps
  <2>3. found => p.names[name] \in Nat
    BY <2>2, MapIs
  <2> HIDE DEF self, found
  <2> QED BY <2>1, <2>3
<1>7. found \/ inside # {}
  <2>1. ScopeNames(Inmost(scopes).defs, p, nodes)
    BY <1>4, HereIs DEF Good, GoodScope
  <2> QED BY <2>1 DEF ScopeNames, InProgress
<1> HIDE DEF n
<1>10. CASE p.data = << >> /\ Become(t)
  <2>1. Causes("empty", Q)
    BY <1>3, <1>10 DEF Causes
  <2>2. Sound(t, Q, t.rules)
    BY <1>4, <2>1, StateFields, FailsSound
  <2> HIDE DEF t
  <2> QED BY <1>10, <2>2 DEF Q
<1> DEFINE made == Become(Unless(~self /\ ~found, "use", Here, s))
<1>8. CASE (self \/ found) /\ made
  <2>1. CountIn(rules, Top(rules), Listing) \in Nat \ {0}
    <3>1. Rule \in Listing
      BY DEF Use, Listing
    <3> QED BY <1>4, <3>1, ListedInmost
  <2>2. Sound(AddChild(Here, n), Q, rules)
    BY <1>4, <1>5, <1>6, <1>8, <2>1, AddChildIsSound
  <2>3. Fine(AddChild(Here, n), Q) /\ Follows(Here, AddChild(Here, n))
    BY <1>4, <1>5, <1>6, <1>8, AddChildIsFine
  <2>4. Sound(AddChild(Here, n), Q, AddChild(Here, n).rules)
    BY <1>4, <2>2, <2>3, SoundRules DEF Follows
  <2>5. Sound(s, Q, s.rules)
    BY <2>3, <2>4, StatementDoneIsSound
  <2>6. Become(s)
    BY <1>2, <1>4, <1>8 DEF Unless
  <2> HIDE DEF s
  <2> QED BY <2>5, <2>6 DEF Q
<1>9. CASE ~(self \/ found) /\ made
  <2> DEFINE u == [Here EXCEPT !.fault = "use"]
  <2>1. Become(u)
    BY <1>2, <1>4, <1>9 DEF Unless
  <2>2. "enclosing" \in Q
    BY <1>3, <1>7, <1>9
  <2>3. Causes("use", Q)
    BY <2>2 DEF Causes
  <2>4. Sound(u, Q, u.rules)
    BY <1>4, <2>3, StateFields, FailsSound
  <2> HIDE DEF u
  <2> QED BY <2>1, <2>4 DEF Q
<1> QED BY <1>2, <1>8, <1>9, <1>10

LEMMA ListListed ==
  ASSUME NEW q \in Seq(RuleNames), Grammar(q), Inmost(q) = "mfnode"
  PROVE  \A k : CountIn(SetInmost(q, "list"), k, Listing) = CountIn(q, k, Listing)
<1> DEFINE o == Outer(q)
           r == Append(o, "list")
<1>1. o \in Seq(RuleNames) /\ q = Append(o, "mfnode") /\ "mfnode" \in RuleNames /\ "list" \in RuleNames
  BY GrammarPop DEF RuleNames
<1> HIDE DEF o
<1>2. Top(r) = Top(o) /\ Top(Append(o, "mfnode")) = Top(o)
  BY <1>1, TopPush DEF Scoped
<1>3. "mfnode" \in Listing /\ "list" \in Listing
  BY DEF Listing
<1>4. ASSUME NEW k PROVE CountIn(r, k, Listing) = CountIn(q, k, Listing)
  <2>1. CountIn(r, k, Listing) = CountIn(o, k, Listing) + IF k = Top(o) THEN 1 ELSE 0
    BY <1>1, <1>2, <1>3, CountPush
  <2>2. CountIn(Append(o, "mfnode"), k, Listing) = CountIn(o, k, Listing) + IF k = Top(o) THEN 1 ELSE 0
    BY <1>1, <1>2, <1>3, CountPush
  <2> QED BY <1>1, <2>1, <2>2
<1> QED BY <1>4 DEF SetInmost, o

LEMMA ValueSound ==
  ASSUME Good(Here, quirks), More(Here, quirks, rules), Null \/ ListStart \/ ListEnd
  PROVE  \E s : Become(s) /\ Sound(s, quirks', s.rules)
<1>1. /\ Here.rules = rules /\ Here.fault = "parsing" /\ Here \in StateSet
      /\ rules \in Seq(RuleNames) /\ Grammar(rules) /\ Rule = Inmost(rules)
  BY HereIs, HereIsGood
<1>2. quirks' = quirks
  BY DEF Null, ListStart, ListEnd
<1>3. CASE Null \/ ListEnd
  <2>1. Become(ValueDone(Here)) /\ Inmost(Here.rules) \in Listed
    BY <1>1, <1>3 DEF Null, ListEnd, Listed
  <2>2. Sound(ValueDone(Here), quirks, ValueDone(Here).rules)
    BY <1>1, <2>1, ValueDoneIsSound
  <2> QED BY <1>2, <2>1, <2>2
<1>4. CASE ListStart
  <2> DEFINE r == SetInmost(rules, "list")
             s == [Here EXCEPT !.rules = r]
  <2>1. Become(s) /\ Inmost(rules) = "mfnode"
    BY <1>1, <1>4 DEF ListStart
  <2>2. \A k : CountIn(r, k, Listing) = CountIn(Here.rules, k, Listing)
    BY <1>1, <2>1, ListListed
  <2> HIDE DEF r
  <2>3. More([Here EXCEPT !.rules = r], quirks, r)
    BY <1>1, <2>2, SameLists
  <2>4. s.fault = "parsing" /\ s.rules = r
    BY <1>1 DEF StateSet
  <2>5. More(s, quirks, s.rules)
    BY <2>3, <2>4
  <2> HIDE DEF s
  <2>6. Sound(s, quirks, s.rules)
    BY <2>4, <2>5, NoCause DEF Sound
  <2> QED BY <1>2, <2>1, <2>6
<1> QED BY <1>3, <1>4

LEMMA ParseErrorSound ==
  ASSUME Good(Here, quirks), More(Here, quirks, rules), ParseError
  PROVE  \E s : Become(s) /\ Sound(s, quirks', s.rules)
<1>1. Become([Here EXCEPT !.fault = "exception"]) /\ quirks' = quirks
  BY DEF ParseError
<1>2. Broken(Here, quirks)
  BY HereIs, BrokenIs
<1>3. \A R : Sound([Here EXCEPT !.fault = "exception"], quirks, R)
  BY <1>2, ThrowsSound
<1> QED BY <1>1, <1>3

-----------------------------------------------------------------------------
(* The steps that begin, or end, a scope.                                  *)

LEMMA AnyReplaced ==
  ASSUME NEW T, NEW q \in Seq(T), q # << >>, NEW x
  PROVE  /\ Len(SetInmost(q, x)) = Len(q) /\ SetInmost(q, x)[Len(q)] = x
         /\ \A k \in 1 .. Len(q) - 1 : SetInmost(q, x)[k] = q[k]
         /\ Len(q) \in Nat \ {0} /\ Inmost(SetInmost(q, x)) = x
<1> DEFINE U == T \cup {x}
<1>1. x \in U /\ q \in Seq(U)
  OBVIOUS
<1> HIDE DEF U
<1> QED BY <1>1, Replaced, StackOfSeq

LEMMA AnyPushed ==
  ASSUME NEW T, NEW q \in Seq(T), NEW x
  PROVE  /\ Len(Append(q, x)) = Len(q) + 1 /\ Append(q, x)[Len(q) + 1] = x
         /\ \A k \in 1 .. Len(q) : Append(q, x)[k] = q[k]
<1> DEFINE U == T \cup {x}
<1>1. x \in U /\ q \in Seq(U)
  OBVIOUS
<1> HIDE DEF U
<1> QED BY <1>1, Pushed

\* What changes in the innermost scope only, which is not the root.
LEMMA InnerMore ==
  ASSUME NEW s, NEW Q, NEW R, More(s, Q, R), NEW n \in Nat \ {0}, n = Len(s.ps), n # 1,
         NEW t, Len(t.ps) = n, t.nodes = s.nodes,
         \A k \in 1 .. n - 1 : t.ps[k] = s.ps[k] /\ t.scopes[k] = s.scopes[k],
         NEW S, \A k : k # n => CountIn(S, k, Listing) = CountIn(R, k, Listing),
         ScopeRoutes(t.ps[n], t.scopes[n].defs), ScopeLists(t.ps[n], Q, S, n)
  PROVE  More(t, Q, S)
<1>1. ASSUME NEW k \in 1 .. n PROVE ScopeRoutes(t.ps[k], t.scopes[k].defs) /\ ScopeLists(t.ps[k], Q, S, k)
  <2>1. CASE k = n
    BY <2>1
  <2>2. CASE k # n
    <3>1. k \in 1 .. n - 1
      BY <2>2
    <3>2. ScopeRoutes(s.ps[k], s.scopes[k].defs) /\ ScopeLists(s.ps[k], Q, R, k)
      BY DEF More
    <3>3. t.ps[k] = s.ps[k] /\ t.scopes[k] = s.scopes[k]
      BY <3>1
    <3>4. CountIn(S, k, Listing) = CountIn(R, k, Listing)
      BY <2>2
    <3> QED BY <3>2, <3>3, <3>4 DEF ScopeLists
  <2> QED BY <2>1, <2>2
<1>2. 1 \in 1 .. n - 1
  BY NotOnlyOne
<1>3. RootPart(t.ps[1], t.scopes[1], t.nodes, Q)
  BY <1>2 DEF More
<1> QED BY <1>1, <1>3 DEF More

\* One more scope.
LEMMA PushMore ==
  ASSUME NEW s, NEW Q, NEW R, More(s, Q, R), NEW n \in Nat \ {0}, n = Len(s.ps),
         NEW t, Len(t.ps) = n + 1, t.nodes = s.nodes,
         \A k \in 1 .. n : t.ps[k] = s.ps[k] /\ t.scopes[k] = s.scopes[k],
         NEW S, \A k \in 1 .. n : CountIn(S, k, Listing) = CountIn(R, k, Listing),
         t.ps[n + 1].routes = << >>, Len(t.ps[n + 1].children) = CountIn(S, n + 1, Listing)
  PROVE  More(t, Q, S)
<1>1. ASSUME NEW k \in 1 .. n + 1
      PROVE  ScopeRoutes(t.ps[k], t.scopes[k].defs) /\ ScopeLists(t.ps[k], Q, S, k)
  <2>1. CASE k = n + 1
    <3>1. t.ps[k].routes = << >> /\ Len(t.ps[k].children) = CountIn(S, k, Listing)
      BY <2>1
    <3>2. DOMAIN t.ps[k].routes = {}
      BY <3>1, EmptyMap
    <3> QED BY <3>1, <3>2 DEF ScopeRoutes, ScopeLists
  <2>2. CASE k # n + 1
    <3>1. k \in 1 .. n
      BY <2>2
    <3>2. ScopeRoutes(s.ps[k], s.scopes[k].defs) /\ ScopeLists(s.ps[k], Q, R, k)
      BY <3>1 DEF More
    <3>3. t.ps[k] = s.ps[k] /\ t.scopes[k] = s.scopes[k]
      BY <3>1
    <3>4. CountIn(S, k, Listing) = CountIn(R, k, Listing)
      BY <3>1
    <3> QED BY <3>2, <3>3, <3>4 DEF ScopeLists
  <2> QED BY <2>1, <2>2
<1>2. RootPart(t.ps[1], t.scopes[1], t.nodes, Q)
  <2>1. 1 \in 1 .. n
    OBVIOUS
  <2> QED BY <2>1 DEF More
<1> QED BY <1>1, <1>2 DEF More

LEMMA OpenLists ==
  ASSUME NEW q \in Seq(RuleNames), NEW x \in Openers
  PROVE  LET r == Append(q, x)
         IN /\ r \in Seq(RuleNames) /\ Top(r) = Top(q) + 1 /\ Top(q) \in Nat
            /\ CountIn(r, Top(q) + 1, Listing) = 0
            /\ \A k : CountIn(r, k, Listing) = CountIn(q, k, Listing)
<1> DEFINE r == Append(q, x)
           n == Top(q) + 1
<1>1. x \in RuleNames /\ x \in Scoped /\ x \in Holding
  BY DEF Openers, RuleNames, Scoped, Holding
<1>2. Top(q) \in Nat /\ Top(r) = Top(q) + 1
  BY <1>1, TopPush
<1>3. r \in Seq(RuleNames) /\ \A k : CountIn(r, k, Listing) = CountIn(q, k, Listing)
  BY <1>1, OtherPush
<1>4. CountIn(q, n, Listing) = 0
  <2>1. n \in Nat /\ n > Top(q)
    BY <1>2
  <2> HIDE DEF n
  <2> QED BY <2>1, CountAbove
<1> QED BY <1>2, <1>3, <1>4

LEMMA DefaultLists ==
  ASSUME NEW q \in Seq(RuleNames), NEW x \in Listed
  PROVE  LET r == Append(Append(q, "default"), x)
         IN /\ CountIn(r, Top(q) + 1, Listing) = 1
            /\ \A k : k # Top(q) + 1 => CountIn(r, k, Listing) = CountIn(q, k, Listing)
<1> DEFINE u == Append(q, "default")
<1>1. "default" \in Openers
  BY DEF Openers
<1>2. /\ u \in Seq(RuleNames) /\ Top(u) = Top(q) + 1 /\ CountIn(u, Top(q) + 1, Listing) = 0
      /\ \A k : CountIn(u, k, Listing) = CountIn(q, k, Listing)
  BY <1>1, OpenLists
<1> HIDE DEF u
<1>3. /\ CountIn(Append(u, x), Top(u), Listing) = CountIn(u, Top(u), Listing) + 1
      /\ \A k : k # Top(u) => CountIn(Append(u, x), k, Listing) = CountIn(u, k, Listing)
  BY <1>2, ListedPush
<1> QED BY <1>2, <1>3 DEF u

\* A type that is new to the scopes changes nothing about the nodes there are.
LEMMA AddTypeIsSound ==
  ASSUME NEW s, Stacks(s), s.fault = "parsing", NEW Q, More(s, Q, s.rules), NEW type, NEW I,
         type \in UNION {DOMAIN s.scopes[i].types : i \in DOMAIN s.scopes} => "typed" \in Q
  PROVE  Sound(AddType(s, type, I), Q, AddType(s, type, I).rules)
<1> DEFINE n == Len(s.ps)
           scope == Inmost(s.scopes)
           g == [scope EXCEPT !.types = With(@, type, I)]
           known == type \in UNION {DOMAIN s.scopes[i].types : i \in DOMAIN s.scopes}
           t == [s EXCEPT !.scopes = SetInmost(@, g)]
<1>1. Stacks(s) /\ s \in StateSet
  BY DEF Stacks
<1>2. /\ n \in Nat \ {0} /\ n \in 1 .. n /\ DOMAIN s.scopes = 1 .. n /\ scope = s.scopes[n]
      /\ scope \in ScopeSet /\ s.scopes \in Seq(ScopeSet) /\ s.scopes # << >> /\ Len(s.scopes) = n
      /\ DOMAIN s = Fields
  BY <1>1, StacksAre DEF Stacks
<1>3. AddType(s, type, I) = IF known THEN [s EXCEPT !.fault = "type"] ELSE t
  BY DEF AddType, Unless
<1>4. CASE known
  <2>1. "typed" \in Q
    BY <1>4
  <2>2. Causes("type", Q)
    BY <2>1 DEF Causes
  <2> QED BY <1>2, <1>3, <1>4, <2>2, FailsSound
<1>5. CASE ~known
  <2>1. /\ t.ps = s.ps /\ t.nodes = s.nodes /\ t.rules = s.rules /\ t.fault = "parsing"
        /\ t.scopes = SetInmost(s.scopes, g)
    <3> HIDE DEF g
    <3> QED BY <1>1 DEF StateSet
  <2>2. type \notin DOMAIN scope.types
    BY <1>2, <1>5
  <2>3. /\ g.defs = scope.defs /\ g.proto = scope.proto
        /\ DOMAIN g.types = DOMAIN scope.types \cup {type}
        /\ \A x \in DOMAIN scope.types : g.types[x] = scope.types[x]
    <3>1. g.types = With(scope.types, type, I) /\ g.defs = scope.defs /\ g.proto = scope.proto
      BY <1>2 DEF ScopeSet
    <3> HIDE DEF g, scope
    <3> QED BY <2>2, <3>1 DEF With
  <2> HIDE DEF g, t, scope, known
  <2>4. /\ Len(t.scopes) = n /\ t.scopes[n] = g /\ \A k \in 1 .. n - 1 : t.scopes[k] = s.scopes[k]
    BY <1>2, <2>1, AnyReplaced
  <2>5. ASSUME NEW k \in 1 .. n PROVE t.scopes[k].defs = s.scopes[k].defs
    <3>1. CASE k = n
      BY <1>2, <2>3, <2>4, <3>1
    <3>2. CASE k # n
      BY <1>2, <2>4, <3>2
    <3> QED BY <3>1, <3>2
  <2>6. RootPart(t.ps[1], t.scopes[1], t.nodes, Q)
    <3>1. RootPart(s.ps[1], s.scopes[1], s.nodes, Q)
      BY DEF More
    <3>2. CASE n # 1
      <4>1. 1 \in 1 .. n - 1
        BY <1>2, <3>2, NotOnlyOne
      <4> QED BY <2>1, <2>4, <3>1, <4>1
    <3>3. CASE n = 1
      <4> DEFINE p == s.ps[1]
                 N == s.nodes
      <4>1. t.scopes[1] = g /\ s.scopes[1] = scope
        BY <1>2, <2>4, <3>3
      <4> HIDE DEF p, N, n
      <4>2. RootPart(p, scope, N, Q)
        BY <3>1, <4>1 DEF p, N
      <4>3. RootTypes(g)
        BY <2>3, <4>2 DEF RootPart, RootTypes
      <4>4. \A m : Typed(m, scope) => Typed(m, g)
        BY <2>3 DEF Typed
      <4>5. RootData(p, g, N, Q)
        BY <4>2, <4>4 DEF RootPart, RootData
      <4>6. \A name \in DOMAIN g.defs : Typed(N[g.defs[name]], g)
        BY <2>3, <4>2, <4>4 DEF RootPart
      <4>7. Clear(Q) => RootNames(p, g, N) /\ RootEnds(p, g, N)
        BY <2>3, <4>2 DEF RootPart, RootNames, RootEnds
      <4>8. RootPart(p, g, N, Q)
        BY <4>3, <4>5, <4>6, <4>7 DEF RootPart
      <4> QED BY <2>1, <4>1, <4>8 DEF p, N
    <3> QED BY <3>2, <3>3
  <2>7. More(t, Q, t.rules)
    <3>1. ASSUME NEW k \in 1 .. Len(t.ps)
          PROVE  ScopeRoutes(t.ps[k], t.scopes[k].defs) /\ ScopeLists(t.ps[k], Q, t.rules, k)
      <4>1. k \in 1 .. n
        BY <2>1
      <4>2. ScopeRoutes(s.ps[k], s.scopes[k].defs) /\ ScopeLists(s.ps[k], Q, s.rules, k)
        BY <4>1 DEF More
      <4> QED BY <2>1, <2>5, <4>1, <4>2
    <3> QED BY <2>6, <3>1 DEF More
  <2>8. Sound(t, Q, t.rules)
    BY <2>1, <2>7, NoCause DEF Sound
  <2> QED BY <1>3, <1>5, <2>8
<1> QED BY <1>4, <1>5

LEMMA ExternprotoSound ==
  ASSUME Good(Here, quirks), More(Here, quirks, rules), Externproto
  PROVE  \E s : Become(s) /\ Sound(s, quirks', s.rules)
<1>1. PICK type \in TypeNames : /\ Become(AddType(Here, type, {}))
                                /\ Oddly({<<"typed", type \in TypesInScope>>})
  BY DEF Externproto
<1> DEFINE Q == quirks'
<1>2. quirks \subseteq Q /\ (type \in TypesInScope => "typed" \in Q)
  <2> DEFINE odd == type \in TypesInScope
             c == <<"typed", odd>>
  <2>1. Oddly({c})
    BY <1>1
  <2> HIDE DEF odd
  <2>2. c[1] = "typed" /\ c[2] = odd
    OBVIOUS
  <2> HIDE DEF c
  <2>3. quirks \subseteq quirks' /\ (odd => "typed" \in quirks')
    BY <2>1, <2>2, QuirksGrow
  <2> QED BY <2>3 DEF odd
<1>3. More(Here, Q, Here.rules) /\ Here.fault = "parsing" /\ Here.scopes = scopes
  BY <1>2, HereIsSound, HereIs
<1> HIDE DEF Q
<1>4. type \in UNION {DOMAIN Here.scopes[i].types : i \in DOMAIN Here.scopes} => "typed" \in Q
  BY <1>2, <1>3 DEF TypesInScope
<1>5. Sound(AddType(Here, type, {}), Q, AddType(Here, type, {}).rules)
  BY <1>3, <1>4, GoodStacks, AddTypeIsSound
<1> QED BY <1>1, <1>5 DEF Q

LEMMA ProtoStartSound ==
  ASSUME Good(Here, quirks), More(Here, quirks, rules), ProtoStart
  PROVE  \E s : Become(s) /\ Sound(s, quirks', s.rules)
<1>1. PICK type \in TypeNames :
        Become([Here EXCEPT !.rules = Append(@, "interfaces"),
                            !.scopes = Append(@, [NoScope EXCEPT !.proto = TRUE]),
                            !.ps = Append(@, [NoParseScope EXCEPT !.type = type,
                                                !.data = << NodeData(0, Anonymous) >>])])
  BY DEF ProtoStart
<1> DEFINE g == [NoScope EXCEPT !.proto = TRUE]
           q == [NoParseScope EXCEPT !.type = type, !.data = << NodeData(0, Anonymous) >>]
           s == [Here EXCEPT !.rules = Append(@, "interfaces"), !.scopes = Append(@, g),
                             !.ps = Append(@, q)]
           n == Len(ps)
<1>2. Become(s)
  BY <1>1
<1>3. /\ Here \in StateSet /\ rules \in Seq(RuleNames) /\ scopes \in Seq(ScopeSet)
      /\ ps \in Seq(ParseScopeSet) /\ Len(scopes) = n /\ n \in Nat \ {0}
      /\ Here.ps = ps /\ Here.scopes = scopes /\ Here.nodes = nodes
  BY HereIs, HereIsGood
<1>4. q.routes = << >> /\ q.children = << >>
  BY DEF NoParseScope
<1> HIDE DEF g, q
<1>5. /\ s.rules = Append(rules, "interfaces") /\ s.scopes = Append(scopes, g)
      /\ s.ps = Append(ps, q) /\ s.nodes = nodes /\ s.fault = "parsing"
  BY <1>3, HereIs DEF StateSet
<1> HIDE DEF s
<1>6. "interfaces" \in Openers /\ quirks' = quirks /\ Top(rules) = n
  BY TopIs DEF ProtoStart, Openers
<1>7. /\ CountIn(s.rules, n + 1, Listing) = 0
      /\ \A k : CountIn(s.rules, k, Listing) = CountIn(rules, k, Listing)
  BY <1>3, <1>5, <1>6, OpenLists
<1>8. /\ Len(s.ps) = n + 1 /\ s.ps[n + 1] = q
      /\ \A k \in 1 .. n : s.ps[k] = ps[k] /\ s.scopes[k] = scopes[k]
  BY <1>3, <1>5, AnyPushed
<1> HIDE DEF n
<1>9. More(s, quirks, s.rules)
  <2>1. Len(s.ps[n + 1].children) = CountIn(s.rules, n + 1, Listing) /\ s.ps[n + 1].routes = << >>
    BY <1>4, <1>7, <1>8
  <2>2. n = Len(Here.ps) /\ n \in Nat \ {0} /\ Len(s.ps) = n + 1 /\ s.nodes = Here.nodes
    BY <1>3, <1>5, <1>8 DEF n
  <2>3. \A k \in 1 .. n : s.ps[k] = Here.ps[k] /\ s.scopes[k] = Here.scopes[k]
    BY <1>3, <1>8
  <2>4. \A k \in 1 .. n : CountIn(s.rules, k, Listing) = CountIn(rules, k, Listing)
    BY <1>7
  <2> QED BY <2>1, <2>2, <2>3, <2>4, PushMore
<1>10. Sound(s, quirks, s.rules)
  BY <1>5, <1>9, NoCause DEF Sound
<1> QED BY <1>2, <1>6, <1>10

LEMMA InterfacesIsInner ==
  ASSUME Good(Here, quirks), Rule = "interfaces"
  PROVE  Len(ps) # 1
<1>1. Inmost(Here.rules) \in Openers /\ Here.rules = rules /\ Here.ps = ps
  BY HereIs DEF Rule, Openers
<1>2. CountIn(Here.rules, Len(Here.ps), Openers) = 1
  <2>1. Shape(Here)
    BY DEF Good
  <2> QED BY <1>1, <2>1, Shapes
<1>3. CountIn(rules, 1, Openers) = 0
  <2>1. rules \in Seq(RuleNames) /\ Grammar(rules)
    BY HereIsGood
  <2> QED BY <2>1, RootScope
<1>4. CountIn(rules, Len(ps), Openers) = 1
  BY <1>1, <1>2
<1>5. ASSUME Len(ps) = 1 PROVE FALSE
  BY <1>3, <1>4, <1>5
<1> QED BY <1>5

LEMMA ProtoBodySound ==
  ASSUME Good(Here, quirks), More(Here, quirks, rules), ProtoBody
  PROVE  \E s : Become(s) /\ Sound(s, quirks', s.rules)
<1> DEFINE p == Inmost(ps)
           q == [p EXCEPT !.data = Outer(@), !.children = << << >> >>]
           s == [Here EXCEPT !.rules = SetInmost(@, "first"), !.ps = SetInmost(@, q)]
           n == Len(ps)
           r == SetInmost(rules, "first")
<1>1. Become(s) /\ Rule = "interfaces" /\ quirks' = quirks
  BY DEF ProtoBody
<1>2. /\ Here \in StateSet /\ rules \in Seq(RuleNames) /\ p \in ParseScopeSet /\ Grammar(rules)
      /\ ps \in Seq(ParseScopeSet) /\ ps # << >> /\ Rule = Inmost(rules) /\ Here.ps = ps
      /\ Here.rules = rules /\ p = ps[n] /\ n \in Nat \ {0} /\ Here.scopes = scopes
      /\ Here.nodes = nodes /\ Top(rules) = n /\ n \in 1 .. n
  BY HereIs, HereIsGood, TopIs
<1>3. Len(q.children) = 1 /\ q.routes = p.routes
  BY <1>2 DEF ParseScopeSet
<1> HIDE DEF q, p
<1>4. /\ s.rules = r /\ s.ps = SetInmost(ps, q) /\ s.scopes = scopes /\ s.nodes = nodes
      /\ s.fault = "parsing"
  BY <1>2, HereIs DEF StateSet
<1> HIDE DEF s
<1>5. /\ r \in Seq(RuleNames) /\ Grammar(r) /\ Top(r) = n
      /\ \A k : k # n => CountIn(r, k, Listing) = CountIn(rules, k, Listing)
  BY <1>1, <1>2, ReplaceInterfaces
<1>6. CountIn(r, n, Listing) = 1
  <2>1. Inmost(r) = "first"
    <3> DEFINE x == "first"
    <3>1. x \in RuleNames /\ rules # << >>
      BY <1>2 DEF RuleNames, Grammar
    <3> HIDE DEF x
    <3>2. Inmost(SetInmost(rules, x)) = x
      BY <1>2, <3>1, Replaced
    <3> QED BY <3>2 DEF x
  <2> HIDE DEF r, n
  <2>2. Inmost(r) # "scene" /\ Inmost(r) \in Scoped /\ Inmost(r) \in Listing
    BY <2>1 DEF Scoped, Listing
  <2>3. CountIn(r, Top(r), Listing) = IF Inmost(r) \in Listing THEN 1 ELSE 0
    BY <1>5, <2>2, CountsInmost
  <2> QED BY <1>5, <2>2, <2>3
<1>7. Len(s.ps) = n /\ s.ps[n] = q /\ \A k \in 1 .. n - 1 : s.ps[k] = ps[k]
  BY <1>2, <1>4, AnyReplaced
<1>8. n # 1
  BY <1>1, InterfacesIsInner
<1>9. ScopeRoutes(s.ps[n], s.scopes[n].defs)
  <2>1. ScopeRoutes(p, scopes[n].defs)
    BY <1>2 DEF More
  <2> QED BY <1>3, <1>4, <1>7, <2>1 DEF ScopeRoutes
<1>10. ScopeLists(s.ps[n], quirks, r, n)
  BY <1>3, <1>6, <1>7 DEF ScopeLists
<1> HIDE DEF r, n
<1>11. More(s, quirks, r)
  <2>1. n = Len(Here.ps)
    BY <1>2 DEF n
  <2>2. \A k \in 1 .. n - 1 : s.ps[k] = Here.ps[k] /\ s.scopes[k] = Here.scopes[k]
    BY <1>2, <1>4, <1>7
  <2> QED BY <1>2, <1>4, <1>5, <1>7, <1>8, <1>9, <1>10, <2>1, <2>2, InnerMore
<1>12. Sound(s, quirks, s.rules)
  BY <1>4, <1>11, NoCause DEF Sound
<1> QED BY <1>1, <1>12

LEMMA ProtoInterfaceSound ==
  ASSUME Good(Here, quirks), More(Here, quirks, rules), ProtoInterface
  PROVE  \E s : Become(s) /\ Sound(s, quirks', s.rules)
<1> DEFINE n == Len(ps)
           scope == Inmost(scopes)
           p == Inmost(ps)
           d == Inmost(p.data)
           e(i) == [d EXCEPT !.values = With(@, i.id, << >>), !.current = i]
           g(i) == [scope EXCEPT !.declared = @ \cup {i}]
           q(i) == [p EXCEPT !.data = SetInmost(@, e(i))]
           s(i) == [Here EXCEPT !.scopes = SetInmost(@, g(i)),
                                !.ps = IF IsEvent(i) THEN @ ELSE SetInmost(@, q(i))]
<1>1. /\ Rule = "interfaces" /\ quirks' = quirks
      /\ \E i \in Declared :
           Become(IF IsEvent(i) \/ ~HoldsNodes(i) THEN s(i)
                  ELSE [DefaultStart(s(i)) EXCEPT !.rules = @ \o <<"default", i.value>>])
  BY DEF ProtoInterface
<1>2. PICK i \in Declared :
           Become(IF IsEvent(i) \/ ~HoldsNodes(i) THEN s(i)
                  ELSE [DefaultStart(s(i)) EXCEPT !.rules = @ \o <<"default", i.value>>])
  BY <1>1
<1>3. i \in Interface
  BY ParseAssumption
<1>4. /\ Here \in StateSet /\ rules \in Seq(RuleNames) /\ p \in ParseScopeSet /\ ps \in Seq(ParseScopeSet)
      /\ ps # << >> /\ scopes \in Seq(ScopeSet) /\ scopes # << >> /\ scope \in ScopeSet
      /\ Len(scopes) = n /\ n \in Nat \ {0} /\ scope = scopes[n] /\ p = ps[n] /\ Here.rules = rules
      /\ Here.ps = ps /\ Here.scopes = scopes /\ Here.nodes = nodes /\ Here.fault = "parsing"
      /\ Top(rules) = n /\ n # 1 /\ n \in 1 .. n
  BY <1>1, HereIs, HereIsGood, TopIs, InterfacesIsInner
<1> DEFINE x == q(i)
           y == g(i)
           t == s(i)
           P == IF IsEvent(i) THEN ps ELSE SetInmost(ps, x)
<1>5. x.routes = p.routes /\ x.children = p.children
  BY <1>4 DEF ParseScopeSet
<1>6. y.defs = scope.defs
  BY <1>4 DEF ScopeSet
<1>7. t = [Here EXCEPT !.scopes = SetInmost(scopes, y), !.ps = P]
  BY <1>4
<1> HIDE DEF x, y, t, scope, p
<1>8. /\ t.scopes = SetInmost(scopes, y) /\ t.ps = P /\ t.rules = rules /\ t.nodes = nodes
      /\ t.fault = "parsing" /\ DOMAIN t = Fields
  <2> HIDE DEF P
  <2> QED BY <1>4, <1>7 DEF StateSet, Fields
<1>9. /\ Len(t.scopes) = n /\ t.scopes[n] = y /\ \A k \in 1 .. n - 1 : t.scopes[k] = scopes[k]
  BY <1>4, <1>8, AnyReplaced
<1>10. /\ Len(t.ps) = n /\ t.ps[n] \in {p, x} /\ \A k \in 1 .. n - 1 : t.ps[k] = ps[k]
  <2>1. /\ Len(SetInmost(ps, x)) = n /\ SetInmost(ps, x)[n] = x
        /\ \A k \in 1 .. n - 1 : SetInmost(ps, x)[k] = ps[k]
    BY <1>4, AnyReplaced
  <2> QED BY <1>4, <1>8, <2>1
<1> HIDE DEF P
<1>11. ScopeRoutes(p, scope.defs) /\ ScopeLists(p, quirks, rules, n)
  BY <1>4 DEF More
<1>12. ScopeRoutes(t.ps[n], t.scopes[n].defs) /\ ScopeLists(t.ps[n], quirks, rules, n)
  BY <1>5, <1>6, <1>9, <1>10, <1>11 DEF ScopeRoutes, ScopeLists
<1> HIDE DEF n
<1>13. More(t, quirks, rules)
  <2>1. n = Len(Here.ps) /\ t.nodes = Here.nodes
    BY <1>4, <1>8 DEF n
  <2>2. \A k \in 1 .. n - 1 : t.ps[k] = Here.ps[k] /\ t.scopes[k] = Here.scopes[k]
    BY <1>4, <1>9, <1>10
  <2> QED BY <1>4, <1>10, <1>12, <2>1, <2>2, InnerMore
<1>14. Become(IF IsEvent(i) \/ ~HoldsNodes(i) THEN t
              ELSE [DefaultStart(t) EXCEPT !.rules = @ \o <<"default", i.value>>])
  BY <1>2 DEF t, p, scope
<1>15. CASE IsEvent(i) \/ ~HoldsNodes(i)
  <2>1. Become(t)
    BY <1>14, <1>15
  <2>2. Sound(t, quirks, t.rules)
    BY <1>8, <1>13, NoCause DEF Sound
  <2> QED BY <1>1, <2>1, <2>2
<1>16. CASE ~(IsEvent(i) \/ ~HoldsNodes(i))
  <2> DEFINE a == [NoParseScope EXCEPT !.data = << Inmost(Inmost(t.ps).data) >>, !.children = << << >> >>]
             u == DefaultStart(t)
             r == Append(Append(rules, "default"), i.value)
             v == [u EXCEPT !.rules = @ \o <<"default", i.value>>]
  <2>1. Become(v)
    BY <1>14, <1>16
  <2>2. i.value \in Listed
    BY <1>3, <1>16 DEF HoldsNodes, Listed, Interface
  <2>3. a.routes = << >> /\ Len(a.children) = 1
    BY DEF NoParseScope
  <2>4. u = [t EXCEPT !.ps = Append(@, a), !.scopes = Append(@, NoScope)]
    BY DEF DefaultStart
  <2> HIDE DEF a, u
  <2>5. rules \o <<"default", i.value>> = r
    <3>1. i.value \in RuleNames /\ "default" \in RuleNames
      BY <2>2 DEF Listed, RuleNames
    <3> QED BY <1>4, <3>1
  <2> HIDE DEF r
  <2>6. /\ u.ps = Append(t.ps, a) /\ u.scopes = Append(t.scopes, NoScope) /\ u.nodes = nodes
        /\ u.rules = rules /\ u.fault = "parsing" /\ DOMAIN u = Fields
    BY <1>8, <2>4 DEF Fields
  <2>7. /\ v.ps = Append(t.ps, a) /\ v.scopes = Append(t.scopes, NoScope) /\ v.nodes = nodes
        /\ v.rules = r /\ v.fault = "parsing"
    BY <2>5, <2>6 DEF Fields
  <2> HIDE DEF v
  <2>8. /\ CountIn(r, n + 1, Listing) = 1
        /\ \A k \in 1 .. n : CountIn(r, k, Listing) = CountIn(rules, k, Listing)
    <3>1. /\ CountIn(r, Top(rules) + 1, Listing) = 1
          /\ \A k : k # Top(rules) + 1 => CountIn(r, k, Listing) = CountIn(rules, k, Listing)
      BY <1>4, <2>2, DefaultLists DEF r
    <3> QED BY <1>4, <3>1
  <2>9. /\ Len(v.ps) = n + 1 /\ v.ps[n + 1] = a
        /\ \A k \in 1 .. n : v.ps[k] = t.ps[k] /\ v.scopes[k] = t.scopes[k]
    <3>1. t.ps \in Seq(ParseScopeSet \cup {x}) /\ t.scopes \in Seq(ScopeSet \cup {y})
      <4> DEFINE A == ParseScopeSet \cup {x}
                 B == ScopeSet \cup {y}
      <4>1. ps \in Seq(A) /\ scopes \in Seq(B) /\ x \in A /\ y \in B
        BY <1>4
      <4> HIDE DEF A, B
      <4>2. SetInmost(ps, x) \in Seq(A) /\ SetInmost(scopes, y) \in Seq(B)
        BY <1>4, <4>1, Replaced
      <4>3. t.ps \in Seq(A) /\ t.scopes \in Seq(B)
        BY <1>8, <4>1, <4>2 DEF P
      <4> QED BY <4>3 DEF A, B
    <3> QED BY <1>9, <1>10, <2>7, <3>1, AnyPushed
  <2>10. More(v, quirks, r)
    <3>1. Len(v.ps[n + 1].children) = CountIn(r, n + 1, Listing) /\ v.ps[n + 1].routes = << >>
      BY <2>3, <2>8, <2>9
    <3>2. n = Len(t.ps) /\ v.nodes = t.nodes
      BY <1>8, <1>10, <2>7
    <3>3. \A k \in 1 .. n : v.ps[k] = t.ps[k] /\ v.scopes[k] = t.scopes[k]
      BY <2>9
    <3>4. \A k \in 1 .. n : CountIn(r, k, Listing) = CountIn(rules, k, Listing)
      BY <2>8
    <3>5. n \in Nat \ {0} /\ Len(v.ps) = n + 1
      BY <1>4, <2>9
    <3> QED BY <1>13, <3>1, <3>2, <3>3, <3>4, <3>5, PushMore
  <2>11. Sound(v, quirks, v.rules)
    BY <2>7, <2>10, NoCause DEF Sound
  <2> QED BY <1>1, <2>1, <2>11 DEF v, u
<1> QED BY <1>15, <1>16

LEMMA RouteSound ==
  ASSUME Good(Here, quirks), More(Here, quirks, rules), RouteStatement
  PROVE  \E s : Become(s) /\ Sound(s, quirks', s.rules)
<1> DEFINE p == Inmost(ps)
           defs == Inmost(scopes).defs
           n == Len(ps)
<1>1. PICK from \in DOMAIN defs, to \in DOMAIN defs :
        \E i \in nodes[defs[from]].interfaces, j \in nodes[defs[to]].interfaces :
          LET r == [from |-> from, out |-> i.id, to |-> to, in |-> j.id]
          IN Become([Here EXCEPT !.ps = SetInmost(@, [p EXCEPT !.routes = Append(@, r)])])
  BY DEF RouteStatement
<1>2. PICK i \in nodes[defs[from]].interfaces, j \in nodes[defs[to]].interfaces :
        LET r == [from |-> from, out |-> i.id, to |-> to, in |-> j.id]
        IN Become([Here EXCEPT !.ps = SetInmost(@, [p EXCEPT !.routes = Append(@, r)])])
  BY <1>1
<1> DEFINE r == [from |-> from, out |-> i.id, to |-> to, in |-> j.id]
           q == [p EXCEPT !.routes = Append(@, r)]
           s == [Here EXCEPT !.ps = SetInmost(@, q)]
           m == Len(p.routes)
<1>3. Become(s) /\ quirks' = quirks
  BY <1>2 DEF RouteStatement
<1>4. /\ Here \in StateSet /\ p \in ParseScopeSet /\ nodes \in Seq(NodeSet)
      /\ DOMAIN nodes = 1 .. Len(nodes) /\ DOMAIN defs \subseteq Names
      /\ Here.ps = ps /\ Here.scopes = scopes /\ Here.nodes = nodes /\ Here.rules = rules
      /\ Here.fault = "parsing" /\ ps \in Seq(ParseScopeSet) /\ ps # << >>
      /\ p = ps[n] /\ Inmost(scopes) = scopes[n] /\ n \in 1 .. n
  BY HereIs, HereIsGood
<1>5. Stacks(Here)
  BY GoodStacks
<1>6. \A name \in DOMAIN defs : defs[name] \in DOMAIN nodes
  <2>1. ScopeNames(defs, p, nodes)
    BY <1>4 DEF Good, GoodScope
  <2> QED BY <2>1 DEF ScopeNames
<1>7. i \in Interface /\ j \in Interface
  <2>1. defs[from] \in 1 .. Len(nodes) /\ defs[to] \in 1 .. Len(nodes)
    BY <1>4, <1>6
  <2>2. nodes[defs[from]] \in NodeSet /\ nodes[defs[to]] \in NodeSet
    BY <1>4, <2>1, ElementOfSeq
  <2> QED BY <2>2 DEF NodeSet
<1>8. r \in RouteSet
  BY <1>4, <1>7 DEF RouteSet, Interface
<1>9. /\ r.from = from /\ r.to = to /\ r.out \in Ids(nodes[defs[from]].interfaces)
      /\ r.in \in Ids(nodes[defs[to]].interfaces)
  BY DEF Ids
<1> HIDE DEF r
<1>10. /\ Append(p.routes, r) \in Seq(RouteSet) /\ DOMAIN Append(p.routes, r) = 1 .. m + 1
       /\ Append(p.routes, r)[m + 1] = r /\ \A k \in 1 .. m : Append(p.routes, r)[k] = p.routes[k]
       /\ DOMAIN p.routes = 1 .. m /\ m \in Nat
  <2>1. p.routes \in Seq(RouteSet)
    BY <1>4 DEF ParseScopeSet
  <2> QED BY <1>8, <2>1, Pushed
<1>11. /\ q \in ParseScopeSet /\ q.data = p.data /\ q.names = p.names /\ q.children = p.children
       /\ q.routes = Append(p.routes, r)
  BY <1>4, <1>10 DEF ParseScopeSet
<1>12. /\ s.ps = SetInmost(ps, q) /\ s.scopes = scopes /\ s.nodes = nodes /\ s.rules = rules
       /\ s.fault = "parsing"
  <2> HIDE DEF q
  <2> QED BY <1>4 DEF StateSet
<1> HIDE DEF q, s, m
<1>13. ScopeRoutes(p, defs) /\ ScopeLists(p, quirks, rules, n)
  BY <1>4 DEF More
<1>14. \A k \in DOMAIN q.routes : (k \in DOMAIN p.routes /\ q.routes[k] = p.routes[k]) \/ q.routes[k] = r
  <2> SUFFICES ASSUME NEW k \in DOMAIN q.routes
               PROVE  (k \in DOMAIN p.routes /\ q.routes[k] = p.routes[k]) \/ q.routes[k] = r
    OBVIOUS
  <2>1. k \in 1 .. m + 1
    BY <1>10, <1>11
  <2>2. CASE k = m + 1
    BY <1>10, <1>11, <2>2
  <2>3. CASE k # m + 1
    <3>1. k \in 1 .. m
      BY <1>10, <2>1, <2>3
    <3> QED BY <1>10, <1>11, <3>1
  <2> QED BY <2>2, <2>3
<1>15. ScopeRoutes(q, defs)
  <2> HIDE DEF defs, p
  <2> QED BY <1>9, <1>13, <1>14 DEF ScopeRoutes
<1>16. ScopeLists(q, quirks, rules, n)
  BY <1>11, <1>13 DEF ScopeLists
<1>17. n = 1 => RootPart(q, scopes[1], nodes, quirks)
  <2> SUFFICES ASSUME n = 1 PROVE RootPart(q, scopes[1], nodes, quirks)
    OBVIOUS
  <2> DEFINE g == scopes[1]
  <2>1. RootPart(p, g, nodes, quirks) /\ g.defs = defs
    BY <1>4 DEF More
  <2> HIDE DEF g, defs, p
  <2>2. RootData(q, g, nodes, quirks)
    BY <1>11, <2>1 DEF RootPart, RootData
  <2>3. Clear(quirks) => RootNames(q, g, nodes) /\ RootEnds(q, g, nodes)
    <3> SUFFICES ASSUME Clear(quirks) PROVE RootNames(q, g, nodes) /\ RootEnds(q, g, nodes)
      OBVIOUS
    <3>1. RootNames(p, g, nodes) /\ RootEnds(p, g, nodes)
      BY <2>1 DEF RootPart
    <3>2. RootNames(q, g, nodes)
      BY <1>11, <3>1 DEF RootNames, InProgress
    <3>3. RootEnds(q, g, nodes)
      BY <1>9, <1>14, <2>1, <3>1 DEF RootEnds
    <3> QED BY <3>2, <3>3
  <2>4. RootPart(q, g, nodes, quirks)
    BY <2>1, <2>2, <2>3 DEF RootPart
  <2> QED BY <2>4 DEF g
<1>18. More(s, quirks, rules)
  <2>1. /\ s.ps = SetInmost(Here.ps, q) /\ s.scopes = Here.scopes /\ s.nodes = Here.nodes
        /\ n = Len(Here.ps) /\ defs = Inmost(Here.scopes).defs
        /\ n = 1 => RootPart(q, Here.scopes[1], Here.nodes, quirks)
    BY <1>4, <1>12, <1>17
  <2> HIDE DEF n, defs
  <2> QED BY <1>5, <1>11, <1>15, <1>16, <2>1, InmostMore
<1>19. Sound(s, quirks, s.rules)
  BY <1>12, <1>18, NoCause DEF Sound
<1> QED BY <1>3, <1>19

LEMMA ProtoEndSound ==
  ASSUME Good(Here, quirks), More(Here, quirks, rules), ProtoEnd
  PROVE  \E s : Become(s) /\ Sound(s, quirks', s.rules)
<1> DEFINE p == Inmost(ps)
           n == Len(ps)
           s == [Here EXCEPT !.rules = Outer(@), !.scopes = Outer(@), !.ps = Outer(@)]
           around == Inmost(s.ps)
           q == [around EXCEPT !.bodies = With(@, p.type, p.names)]
           defined == [s EXCEPT !.ps = SetInmost(@, q)]
           lost == \E r \in Range(p.routes) : ~({r.from, r.to} \subseteq DOMAIN p.names)
           whole == AddType(defined, p.type, Inmost(scopes).declared)
           t == IF Len(p.children) # 1 THEN [Here EXCEPT !.fault = "scene"]
                ELSE IF lost THEN [Here EXCEPT !.fault = "routes"] ELSE whole
           Q == quirks'
<1>1. Rule = "body" /\ Become(t) /\ Oddly({<<"typed", p.type \in TypesInScope>>})
  BY DEF ProtoEnd
<1>2. quirks \subseteq Q /\ (p.type \in TypesInScope => "typed" \in Q)
  <2> DEFINE odd == p.type \in TypesInScope
             c == <<"typed", odd>>
  <2>1. Oddly({c})
    BY <1>1
  <2> HIDE DEF odd
  <2>2. c[1] = "typed" /\ c[2] = odd
    OBVIOUS
  <2> HIDE DEF c
  <2>3. quirks \subseteq quirks' /\ (odd => "typed" \in quirks')
    BY <2>1, <2>2, QuirksGrow
  <2> QED BY <2>3 DEF odd
<1>3. /\ Here \in StateSet /\ Here.fault = "parsing" /\ Inmost(Here.rules) = "body" /\ Here.rules = rules
      /\ Here.ps = ps /\ Here.scopes = scopes /\ Here.nodes = nodes /\ rules \in Seq(RuleNames)
      /\ Grammar(rules) /\ Inmost(scopes) = scopes[n] /\ Inmost(scopes) \in ScopeSet /\ p = ps[n]
      /\ n \in 1 .. n /\ n \in Nat \ {0} /\ Len(scopes) = n /\ scopes \in Seq(ScopeSet) /\ Top(rules) = n
      /\ scopes # << >> /\ DOMAIN scopes = 1 .. n
  BY <1>1, HereIs, HereIsGood, TopIs DEF Rule
<1>4. More(Here, Q, rules)
  BY <1>2, HereIsSound
<1> HIDE DEF Q
<1>5. Good(s, quirks) /\ Good(defined, quirks)
  BY <1>3, ProtoEndIsFine
<1>6. p.data = << >>
  <2>1. Shape(Here)
    BY DEF Good
  <2> QED BY <1>3, <2>1, Shapes
<1>7. CountIn(rules, n, Listing) = 1
  <2>1. Inmost(rules) # "scene" /\ Inmost(rules) \in Scoped /\ Inmost(rules) \in Listing
    BY <1>3 DEF Scoped, Listing
  <2>2. CountIn(rules, Top(rules), Listing) = IF Inmost(rules) \in Listing THEN 1 ELSE 0
    BY <1>3, <2>1, CountsInmost
  <2> QED BY <1>3, <2>1, <2>2
<1>8. ScopeRoutes(p, scopes[n].defs) /\ ScopeLists(p, Q, rules, n)
  BY <1>3, <1>4 DEF More
<1>9. Len(p.children) # 1 => Causes("scene", Q)
  <2>1. Len(p.children) # 1 => "script event" \in Q
    BY <1>7, <1>8 DEF ScopeLists
  <2> QED BY <2>1, ChildrenCause
<1>10. ~lost
  <2>1. ScopeNames(scopes[n].defs, p, nodes)
    BY <1>3 DEF Good, GoodScope
  <2>2. scopes[n] \in ScopeSet /\ \A i \in DOMAIN p.data : p.data[i].name = Anonymous
    BY <1>3, <1>6
  <2> DEFINE g == scopes[n]
  <2> HIDE DEF p, g
  <2>3. Found(p)
    BY <1>8, <2>1, <2>2, RoutesFound DEF g
  <2> QED BY <2>3 DEF Found, Range
<1>11. /\ s.rules = Outer(rules) /\ s.scopes = Outer(scopes) /\ s.ps = Outer(ps) /\ s.nodes = nodes
       /\ s.fault = "parsing" /\ s \in StateSet
  <2>1. s \in StateSet
    BY <1>5, GoodInmost
  <2> QED BY <1>3, <2>1 DEF StateSet
<1> HIDE DEF s
<1>12. More(s, Q, s.rules)
  BY <1>3, <1>4, <1>11, PopMore DEF Scoped
<1>13. Stacks(s) /\ Stacks(defined) /\ s.ps \in Seq(ParseScopeSet) /\ s.ps # << >>
  <2> HIDE DEF defined
  <2>1. Good(s, quirks) /\ Good(defined, quirks)
    BY <1>5
  <2>2. Stacks(s) /\ Stacks(defined)
    BY <2>1, GoodStacks
  <2> QED BY <1>11, <2>2 DEF Stacks, StateSet
<1>14. around \in ParseScopeSet /\ around = s.ps[Len(s.ps)] /\ Len(s.ps) \in 1 .. Len(s.ps)
  BY <1>13, StacksAre
<1>15. q.data = around.data /\ q.names = around.names /\ q.routes = around.routes /\ q.children = around.children
  BY <1>14 DEF ParseScopeSet
<1> HIDE DEF q, around
<1>16. /\ defined.ps = SetInmost(s.ps, q) /\ defined.scopes = s.scopes /\ defined.nodes = s.nodes
       /\ defined.rules = s.rules /\ defined.fault = "parsing"
  BY <1>11 DEF StateSet
<1> HIDE DEF defined
<1>17. q \in ParseScopeSet
  <2>1. Inmost(defined.ps) = q
    BY <1>13, <1>16, AnyReplaced
  <2>2. Inmost(defined.ps) \in ParseScopeSet
    BY <1>13, StacksAre
  <2> QED BY <2>1, <2>2
<1>18. More(defined, Q, defined.rules)
  <2>1. ScopeLists(q, Q, s.rules, Len(s.ps))
    <3>1. ScopeLists(around, Q, s.rules, Len(s.ps))
      BY <1>12, <1>14 DEF More
    <3> QED BY <1>15, <3>1 DEF ScopeLists
  <2>2. /\ q.data = Inmost(s.ps).data /\ q.names = Inmost(s.ps).names /\ q.routes = Inmost(s.ps).routes
    BY <1>15 DEF around
  <2> QED BY <1>12, <1>13, <1>16, <1>17, <2>1, <2>2, ListMore
<1>19. p.type \in UNION {DOMAIN defined.scopes[i].types : i \in DOMAIN defined.scopes} => "typed" \in Q
  <2> SUFFICES ASSUME NEW i \in DOMAIN defined.scopes, p.type \in DOMAIN defined.scopes[i].types
               PROVE  "typed" \in Q
    OBVIOUS
  <2>1. /\ DOMAIN Outer(scopes) = 1 .. n - 1 /\ \A k \in 1 .. n - 1 : Outer(scopes)[k] = scopes[k]
    BY <1>3, StackOfSeq
  <2>2. i \in DOMAIN scopes /\ defined.scopes[i] = scopes[i]
    BY <1>3, <1>11, <1>16, <2>1
  <2>3. p.type \in TypesInScope
    BY <2>2 DEF TypesInScope
  <2> QED BY <1>2, <2>3
<1>20. Sound(whole, Q, whole.rules)
  BY <1>13, <1>16, <1>18, <1>19, AddTypeIsSound
<1>21. CASE Len(p.children) # 1
  <2>1. t = [Here EXCEPT !.fault = "scene"]
    BY <1>21
  <2>2. Sound(t, Q, t.rules)
    BY <1>3, <1>9, <1>21, <2>1, StateFields, FailsSound
  <2> QED BY <1>1, <2>2 DEF Q
<1>22. CASE Len(p.children) = 1
  <2>1. t = whole
    BY <1>10, <1>22
  <2> QED BY <1>1, <1>20, <2>1 DEF Q
<1> QED BY <1>21, <1>22

\* The root's routes lead to events, unless a name came to mean another node.
LEMMA RootEvents ==
  ASSUME NEW p, NEW g, NEW N, NEW Q, RootPart(p, g, N, Q), ScopeRoutes(p, g.defs), Clear(Q), p.data = << >>
  PROVE  Events(p, N)
<1>1. RootNames(p, g, N) /\ RootEnds(p, g, N)
  BY DEF RootPart
<1>2. \A name : ~InProgress(p, name)
  <2>1. DOMAIN p.data = {}
    BY EmptyMap
  <2> QED BY <2>1 DEF InProgress
<1>3. ASSUME NEW name \in DOMAIN g.defs
      PROVE  N[p.names[name]].interfaces = N[g.defs[name]].interfaces
  BY <1>1, <1>2 DEF RootNames, Alike
<1> QED BY <1>1, <1>3 DEF RootEnds, ScopeRoutes, Events

LEMMA SceneEndSound ==
  ASSUME Good(Here, quirks), More(Here, quirks, rules), SceneEnd
  PROVE  \E s : Become(s) /\ Sound(s, quirks', s.rules)
<1> DEFINE p == Inmost(ps)
           q == [p EXCEPT !.children = Outer(@)]
           done == [Here EXCEPT !.result = Inmost(p.children), !.ps = SetInmost(@, q)]
           next == [done EXCEPT !.ps = << >>, !.fault = "done"]
           t == SceneFinish(Here)
           g == scopes[1]
<1>1. Become(t) /\ rules = <<"scene">> /\ quirks' = quirks
  BY DEF SceneEnd
<1>2. /\ Here \in StateSet /\ Here.fault = "parsing" /\ Here.rules = rules /\ Here.ps = ps
      /\ Here.scopes = scopes /\ Here.nodes = nodes /\ p = ps[Len(ps)] /\ p \in ParseScopeSet
      /\ rules \in Seq(RuleNames) /\ Grammar(rules) /\ Top(rules) = Len(ps)
      /\ ps \in Seq(ParseScopeSet) /\ ps # << >>
  BY HereIs, HereIsGood, TopIs
<1>3. Len(ps) = 1 /\ CountIn(rules, 1, Holding) = 0 /\ Inmost(rules) = "scene"
  <2>1. Top(rules) = 1 /\ CountIn(rules, 1, Holding) = 0
    BY <1>1, FirstRule
  <2>2. Inmost(rules) = "scene"
    BY <1>1 DEF Inmost
  <2> QED BY <1>2, <2>1, <2>2
<1>4. CountIn(rules, 1, Listing) = 1
  <2>1. RootHeld(rules)
    BY <1>2, RootIsHeld
  <2> QED BY <1>2, <1>3, <2>1 DEF RootHeld
<1>5. /\ p = ps[1] /\ ScopeRoutes(p, g.defs) /\ ScopeLists(p, quirks, rules, 1) /\ RootPart(p, g, nodes, quirks)
  BY <1>2, <1>3 DEF More
<1>6. Len(p.children) = 1
  BY <1>4, <1>5 DEF ScopeLists
<1>7. p.data = << >>
  <2>1. Len(ps[1].data) = CountIn(rules, 1, Holding)
    BY <1>2, <1>3 DEF Good, Shape
  <2>2. p.data \in Seq(DataSet)
    BY <1>2 DEF ParseScopeSet
  <2> QED BY <1>3, <1>5, <2>1, <2>2, EmptySeq
<1>8. t = RoutesMade(done, next)
  BY <1>2, <1>3, <1>6 DEF SceneFinish, Unless
<1>9. q.routes = p.routes /\ q.names = p.names /\ q.data = << >> /\ q.children = Outer(p.children) /\ q.bodies = p.bodies
  BY <1>2, <1>7 DEF ParseScopeSet
<1> HIDE DEF q
<1>10. /\ done.ps = SetInmost(ps, q) /\ done.nodes = nodes /\ done.fault = "parsing" /\ DOMAIN done = Fields
  <2> HIDE DEF p
  <2> QED BY <1>2 DEF StateSet, Fields
<1>11. Inmost(done.ps) = q /\ done.ps[1] = q
  BY <1>2, <1>3, <1>10, AnyReplaced
<1>12. Found(q)
  <2>1. ScopeNames(g.defs, p, nodes) /\ g \in ScopeSet
    BY <1>2, <1>3, <1>5, RootIsGood
  <2> HIDE DEF g, p
  <2>2. Found(p)
    <3>1. \A i \in DOMAIN p.data : p.data[i].name = Anonymous
      BY <1>7, EmptyMap
    <3> QED BY <1>5, <2>1, <3>1, RoutesFound
  <2> QED BY <1>9, <2>2 DEF Found
<1>13. \/ t = next
       \/ t = [done EXCEPT !.fault = "exception"] /\ ~Events(q, nodes)
  <2> HIDE DEF next, done, t
  <2>1. Found(Inmost(done.ps))
    BY <1>11, <1>12
  <2>2. \/ RoutesMade(done, next) = next
        \/ /\ RoutesMade(done, next) = [done EXCEPT !.fault = "exception"]
           /\ ~Events(Inmost(done.ps), done.nodes)
    BY <1>10, <2>1, RoutesMadeFound
  <2> QED BY <1>8, <1>10, <1>11, <2>2
<1>14. CASE t = next
  <2>1. next.fault = "done"
    <3> HIDE DEF done
    <3> QED BY <1>10 DEF Fields
  <2>2. Sound(t, quirks, t.rules)
    <3> HIDE DEF next, t
    <3> QED BY <1>14, <2>1, NoCause DEF Sound
  <2> HIDE DEF t
  <2> QED BY <1>1, <2>2
<1>15. CASE t = [done EXCEPT !.fault = "exception"] /\ ~Events(q, nodes)
  <2>1. ~Clear(quirks)
    <3>1. Events(q, nodes) <=> Events(p, nodes)
      BY <1>9 DEF Events
    <3> HIDE DEF p, g
    <3> QED BY <1>5, <1>7, <1>15, <3>1, RootEvents
  <2>2. Fine(t, quirks) /\ t.fault = "exception"
    <3>1. Fine(SceneFinish(Here), quirks)
      BY <1>2, SceneFinishIsFine
    <3>2. t.fault = "exception"
      <4> HIDE DEF done, t
      <4> QED BY <1>10, <1>15 DEF Fields
    <3> QED BY <3>1, <3>2
  <2>3. RootNodes(t)
    <3> HIDE DEF t
    <3> QED BY <2>2 DEF Fine
  <2>4. t.ps[1] = q /\ t.nodes = nodes
    <3> HIDE DEF done, t
    <3> QED BY <1>10, <1>11, <1>15 DEF Fields
  <2> HIDE DEF t
  <2>5. ScopeBodies(q, nodes)
    <3>1. ScopeBodies(p, nodes)
      BY <1>2, <1>5, RootIsGood
    <3> QED BY <1>9, <3>1 DEF ScopeBodies
  <2>6. q.children = << >>
    <3>1. p.children \in Seq(Seq(Nat))
      BY <1>2 DEF ParseScopeSet
    <3> DEFINE T == Seq(Nat)
               c == p.children
    <3>2. c \in Seq(T) /\ Len(c) = 1
      BY <1>6, <3>1
    <3> HIDE DEF T, c
    <3>5. c # << >>
      BY <3>2, OneIsSome
    <3>3. Outer(c) \in Seq(T) /\ Len(Outer(c)) = 0
      BY <3>2, <3>5, StackOfSeq
    <3>4. Outer(c) = << >>
      BY <3>3, EmptySeq
    <3> QED BY <1>9, <3>4 DEF c
  <2>7. Broken(t, quirks)
    <3>1. DOMAIN q.data = {} /\ Len(q.children) = 0 /\ Len(q.data) = 0
      BY <1>9, <2>6, EmptyMap
    <3>2. Found(q)
      BY <1>12
    <3> QED BY <2>1, <2>3, <2>4, <2>5, <3>1, <3>2 DEF Broken, Found
  <2>8. Sound(t, quirks, t.rules)
    BY <2>2, <2>7, NoCause DEF Sound
  <2> QED BY <1>1, <2>8
<1> QED BY <1>13, <1>14, <1>15

LEMMA BodyLeftOpenSound ==
  ASSUME Good(Here, quirks), More(Here, quirks, rules), BodyLeftOpen
  PROVE  \E s : Become(s) /\ Sound(s, quirks', s.rules)
<1> DEFINE t == SceneFinish(Here)
<1>1. /\ Become(t) /\ Oddly({<<"open", TRUE>>}) /\ Len(rules) > 1
      /\ \A k \in 2 .. Len(rules) : rules[k] = "body"
  BY DEF BodyLeftOpen
<1>2. "open" \in quirks'
  <2> DEFINE c == <<"open", TRUE>>
  <2>1. Oddly({c}) /\ c[1] = "open" /\ c[2] = TRUE
    BY <1>1
  <2> HIDE DEF c
  <2> QED BY <2>1, QuirksGrow
<1>3. /\ Here \in StateSet /\ Here.fault = "parsing" /\ Here.rules = rules /\ Here.ps = ps
      /\ rules \in Seq(RuleNames) /\ Grammar(rules) /\ Top(rules) = Len(ps) /\ rules # << >>
  BY HereIs, HereIsGood, TopIs
<1>4. Len(ps) # 1
  <2>1. Len(rules) \in Nat \ {0} /\ Inmost(rules) = rules[Len(rules)]
    BY <1>3, StackOfSeq
  <2>2. Inmost(rules) = "body"
    BY <1>1, <2>1
  <2> DEFINE o == Outer(rules)
             x == "body"
  <2>3. o \in Seq(RuleNames) /\ Grammar(o) /\ rules = Append(o, x) /\ x \in RuleNames /\ x \in Scoped
    BY <1>3, <2>2, GrammarPop DEF Scoped
  <2> HIDE DEF o, x
  <2>4. Top(rules) = Top(o) + 1
    BY <2>3, TopPush
  <2>5. Top(o) \in Nat \ {0}
    BY <2>3, RootScope
  <2> QED BY <1>3, <2>4, <2>5
<1> DEFINE c == Inmost(ps).children
           done == [Here EXCEPT !.result = Inmost(c),
                                !.ps = SetInmost(@, [Inmost(ps) EXCEPT !.children = Outer(@)])]
<1>5. t = [Here EXCEPT !.fault = "scene"] \/ t = [done EXCEPT !.fault = "scene"]
  <2>1. t = Unless(Len(c) # 1, "scene", Here, [done EXCEPT !.fault = "scene"])
    <3> DEFINE p == Inmost(Here.ps)
               made == [Here EXCEPT !.result = Inmost(p.children),
                                    !.ps = SetInmost(@, [p EXCEPT !.children = Outer(@)])]
               out == Unless(Len(Here.ps) # 1, "scene", made,
                             RoutesMade(made, [made EXCEPT !.ps = << >>, !.fault = "done"]))
    <3>1. t = Unless(Len(p.children) # 1, "scene", Here, out)
      BY DEF SceneFinish
    <3>2. p.children = c /\ made = done
      BY <1>3
    <3>3. made.fault = "parsing"
      <4>1. DOMAIN Here = Fields
        BY <1>3, StateFields
      <4> QED BY <1>3, <4>1 DEF Fields
    <3> HIDE DEF made, p
    <3>4. out = [made EXCEPT !.fault = "scene"]
      BY <1>3, <1>4, <3>3 DEF Unless
    <3> QED BY <3>1, <3>2, <3>4
  <2> HIDE DEF t, c, done
  <2> QED BY <1>3, <2>1 DEF Unless
<1>6. Causes("scene", quirks')
  BY <1>2 DEF Causes
<1> DEFINE Q == quirks'
<1>7. DOMAIN Here = Fields /\ DOMAIN done = Fields
  BY <1>3, StateFields
<1> HIDE DEF t, Q, done
<1>8. Sound(t, Q, t.rules)
  BY <1>5, <1>6, <1>7, FailsSound DEF Q
<1> QED BY <1>1, <1>8 DEF Q

-----------------------------------------------------------------------------
(* A node's start.                                                         *)

\* The node x, at the root.
LEMMA StartedRoot ==
  ASSUME NEW p \in ParseScopeSet, NEW g, NEW N, NEW Q, RootPart(p, g, N, Q),
         ScopeRoutes(p, g.defs), ScopeNames(g.defs, p, N),
         NEW x, NEW name \in Names \cup {Anonymous}, NEW q, q.data = Append(p.data, NodeData(x, name)),
         q.names = p.names, q.routes = p.routes,
         NEW h, h.proto = g.proto, h.types = g.types,
         h.defs = IF name = Anonymous THEN g.defs ELSE With(g.defs, name, x),
         Typed(N[x], g),
         (Clear(Q) /\ name \in DOMAIN g.defs) =>
           N[x].type # Script /\ N[g.defs[name]].type = N[x].type
  PROVE  RootPart(q, h, N, Q) /\ ScopeRoutes(q, h.defs)
<1> DEFINE m == Len(p.data)
           d == NodeData(x, name)
<1>1. /\ m \in Nat /\ DOMAIN p.data = 1 .. m /\ DOMAIN q.data = 1 .. m + 1 /\ q.data[m + 1] = d
      /\ \A i \in 1 .. m : q.data[i] = p.data[i]
  <2>1. p.data \in Seq(DataSet)
    BY DEF ParseScopeSet
  <2> HIDE DEF d
  <2>2. /\ Len(p.data) \in Nat /\ DOMAIN p.data = 1 .. Len(p.data) /\ DOMAIN Append(p.data, d) = 1 .. Len(p.data) + 1
    BY <2>1
  <2>3. /\ Append(p.data, d)[m + 1] = d /\ \A i \in 1 .. m : Append(p.data, d)[i] = p.data[i]
    BY <2>1, AnyPushed
  <2> QED BY <2>2, <2>3 DEF d
<1>2. d.node = x /\ d.name = name /\ DOMAIN d.values = {} /\ d.current = None
  BY EmptyMap DEF NodeData
<1> HIDE DEF m, d
<1>3. \A i \in DOMAIN q.data : (i \in DOMAIN p.data /\ q.data[i] = p.data[i]) \/ q.data[i] = d
  BY <1>1
<1>4. DOMAIN g.defs \subseteq DOMAIN h.defs /\ \A a \in DOMAIN g.defs : a # name => h.defs[a] = g.defs[a]
  BY DEF With
<1>5. name # Anonymous => DOMAIN h.defs = DOMAIN g.defs \cup {name} /\ h.defs[name] = x
  BY DEF With
<1>6. name = Anonymous => h.defs = g.defs
  OBVIOUS
<1>7. \A n : Typed(n, g) <=> Typed(n, h)
  BY DEF Typed
<1>8. RootTypes(h)
  BY DEF RootPart, RootTypes
<1>9. RootData(q, h, N, Q)
  <2> SUFFICES ASSUME NEW i \in DOMAIN q.data
               PROVE  /\ Typed(N[q.data[i].node], h)
                      /\ "event" \notin Q => Plain(N[q.data[i].node], q.data[i])
    BY DEF RootData
  <2>1. CASE i \in DOMAIN p.data /\ q.data[i] = p.data[i]
    BY <1>7, <2>1 DEF RootPart, RootData
  <2>2. CASE q.data[i] = d
    <3>1. Creatable(N[x], d)
      BY <1>2 DEF Creatable
    <3> QED BY <1>2, <1>7, <2>2, <3>1 DEF Plain
  <2> QED BY <1>3, <2>1, <2>2
<1>10. \A a \in DOMAIN h.defs : Typed(N[h.defs[a]], h)
  <2> SUFFICES ASSUME NEW a \in DOMAIN h.defs PROVE Typed(N[h.defs[a]], h)
    OBVIOUS
  <2>1. CASE name # Anonymous /\ a = name
    BY <1>5, <1>7, <2>1
  <2>2. CASE name = Anonymous \/ a # name
    <3>1. a \in DOMAIN g.defs /\ h.defs[a] = g.defs[a]
      BY <1>4, <1>5, <1>6, <2>2
    <3> QED BY <1>7, <3>1 DEF RootPart
  <2> QED BY <2>1, <2>2
<1>11. Clear(Q) => \A a \in DOMAIN g.defs : Alike(N, g.defs[a], h.defs[a])
  <2> SUFFICES ASSUME Clear(Q), NEW a \in DOMAIN g.defs PROVE Alike(N, g.defs[a], h.defs[a])
    OBVIOUS
  <2>1. CASE name # Anonymous /\ a = name
    <3>1. N[x].type # Script /\ N[g.defs[a]].type = N[x].type
      BY <2>1
    <3>2. Typed(N[g.defs[a]], g) /\ Typed(N[x], g)
      BY DEF RootPart
    <3>3. N[g.defs[a]].interfaces = N[x].interfaces
      BY <3>1, <3>2 DEF Typed
    <3> QED BY <1>5, <2>1, <3>1, <3>3 DEF Alike
  <2>2. CASE name = Anonymous \/ a # name
    <3>1. h.defs[a] = g.defs[a]
      BY <1>4, <1>6, <2>2
    <3> QED BY <3>1 DEF Alike
  <2> QED BY <2>1, <2>2
<1>12. \A a, b, c : Alike(N, a, b) /\ Alike(N, b, c) => Alike(N, a, c)
  BY DEF Alike
<1>13. Clear(Q) => RootNames(q, h, N)
  <2> SUFFICES ASSUME Clear(Q) PROVE RootNames(q, h, N)
    OBVIOUS
  <2>1. RootNames(p, g, N)
    BY DEF RootPart
  <2>2. ASSUME NEW i \in DOMAIN q.data, q.data[i].name # Anonymous
        PROVE  Alike(N, q.data[i].node, h.defs[q.data[i].name])
    <3>1. CASE i \in DOMAIN p.data /\ q.data[i] = p.data[i]
      <4> DEFINE a == p.data[i].name
      <4>1. a \in DOMAIN g.defs
        BY <2>2, <3>1 DEF ScopeNames
      <4>2. Alike(N, p.data[i].node, g.defs[a])
        BY <2>1, <2>2, <3>1 DEF RootNames
      <4>3. Alike(N, g.defs[a], h.defs[a])
        BY <1>11, <4>1
      <4> QED BY <1>12, <3>1, <4>2, <4>3
    <3>2. CASE q.data[i] = d
      BY <1>2, <1>5, <2>2, <3>2 DEF Alike
    <3> QED BY <1>3, <3>1, <3>2
  <2>3. ASSUME NEW a \in DOMAIN h.defs
        PROVE  InProgress(q, a) \/ (a \in DOMAIN q.names /\ Alike(N, q.names[a], h.defs[a]))
    <3>1. CASE name # Anonymous /\ a = name
      <4>1. m + 1 \in DOMAIN q.data
        BY <1>1
      <4> QED BY <1>1, <1>2, <3>1, <4>1 DEF InProgress
    <3>2. CASE name = Anonymous \/ a # name
      <4>1. a \in DOMAIN g.defs
        BY <1>5, <1>6, <3>2
      <4>2. InProgress(p, a) \/ (a \in DOMAIN p.names /\ Alike(N, p.names[a], g.defs[a]))
        BY <2>1, <4>1 DEF RootNames
      <4>3. InProgress(p, a) => InProgress(q, a)
        <5> SUFFICES ASSUME NEW i \in DOMAIN p.data, p.data[i].name = a PROVE InProgress(q, a)
          BY DEF InProgress
        <5>1. i \in DOMAIN q.data /\ q.data[i] = p.data[i]
          BY <1>1
        <5> QED BY <5>1 DEF InProgress
      <4>4. Alike(N, g.defs[a], h.defs[a])
        BY <1>11, <4>1
      <4> QED BY <1>12, <4>2, <4>3, <4>4
    <3> QED BY <3>1, <3>2
  <2> QED BY <2>2, <2>3 DEF RootNames
<1>14. Clear(Q) => RootEnds(q, h, N)
  <2> SUFFICES ASSUME Clear(Q), NEW j \in DOMAIN p.routes
               PROVE  /\ p.routes[j].out \in Ids(N[h.defs[p.routes[j].from]].interfaces)
                      /\ p.routes[j].in \in Ids(N[h.defs[p.routes[j].to]].interfaces)
    BY DEF RootEnds
  <2>1. p.routes[j].from \in DOMAIN g.defs /\ p.routes[j].to \in DOMAIN g.defs
    BY DEF ScopeRoutes
  <2>2. /\ p.routes[j].out \in Ids(N[g.defs[p.routes[j].from]].interfaces)
        /\ p.routes[j].in \in Ids(N[g.defs[p.routes[j].to]].interfaces)
    BY DEF RootPart, RootEnds
  <2>3. \A a \in DOMAIN g.defs : N[h.defs[a]].interfaces = N[g.defs[a]].interfaces
    BY <1>11 DEF Alike
  <2> QED BY <2>1, <2>2, <2>3
<1>15. ScopeRoutes(q, h.defs)
  BY <1>4 DEF ScopeRoutes
<1> QED BY <1>8, <1>9, <1>10, <1>13, <1>14, <1>15 DEF RootPart

LEMMA NodeStartIsSound ==
  ASSUME NEW s, NEW P, Good(s, P), Inmost(s.rules) \in Callers["node"], s.fault = "parsing",
         NEW t, NEW x, NEW name \in Names \cup {Anonymous}, NEW defs, NEW q,
         Started(s, t, x, name, defs, q), q.routes = Inmost(s.ps).routes,
         q.children = Inmost(s.ps).children, NEW h, h = t.scopes[Len(s.scopes)],
         h.types = Inmost(s.scopes).types, h.proto = Inmost(s.scopes).proto,
         NEW Q, More(s, Q, s.rules), Grows(s.nodes, t.nodes),
         Len(s.ps) = 1 => Typed(t.nodes[x], s.scopes[1]),
         (Len(s.ps) = 1 /\ Clear(Q) /\ name \in DOMAIN s.scopes[1].defs) =>
           t.nodes[x].type # Script /\ s.nodes[s.scopes[1].defs[name]].type = t.nodes[x].type
  PROVE  More(t, Q, t.rules)
<1> DEFINE n == Len(s.ps)
           p == Inmost(s.ps)
           g == Inmost(s.scopes)
           u == [s EXCEPT !.nodes = t.nodes]
<1>1. /\ n \in Nat \ {0} /\ n \in 1 .. n /\ p = s.ps[n] /\ g = s.scopes[n] /\ p \in ParseScopeSet
      /\ s.ps \in Seq(ParseScopeSet) /\ s.ps # << >> /\ s.scopes \in Seq(ScopeSet) /\ Len(s.scopes) = n
      /\ DOMAIN s = Fields /\ g \in ScopeSet
  <2>1. Stacks(s)
    BY GoodStacks
  <2> QED BY <2>1, StacksAre DEF Stacks
<1>2. /\ t.rules = Append(s.rules, "node") /\ t.ps = SetInmost(s.ps, q) /\ q \in ParseScopeSet
      /\ q.data = Append(p.data, NodeData(x, name)) /\ q.names = p.names /\ h.defs = defs
      /\ defs = IF name = Anonymous THEN g.defs ELSE With(g.defs, name, x)
      /\ \A k \in 1 .. n - 1 : t.scopes[k] = s.scopes[k]
  BY <1>1 DEF Started
<1>3. u.ps = s.ps /\ u.scopes = s.scopes /\ u.nodes = t.nodes
  BY <1>1 DEF Fields
<1> HIDE DEF u
<1>4. More(u, Q, s.rules)
  BY <1>3, NodesMore
<1>5. Len(t.ps) = n /\ t.ps[n] = q /\ \A k \in 1 .. n - 1 : t.ps[k] = s.ps[k]
  BY <1>1, <1>2, AnyReplaced
<1>6. \A k : CountIn(t.rules, k, Listing) = CountIn(s.rules, k, Listing)
  <2>1. s.rules \in Seq(RuleNames)
    BY DEF Good, Shape, StateSet
  <2>2. "node" \in Holding
    BY DEF Holding
  <2> QED BY <1>2, <2>1, <2>2, OtherPush
<1>7. ScopeRoutes(p, g.defs) /\ ScopeLists(p, Q, s.rules, n)
  BY <1>1 DEF More
<1>8. ScopeLists(q, Q, t.rules, n)
  BY <1>6, <1>7 DEF ScopeLists
<1>9. CASE n # 1
  <2>1. ScopeRoutes(q, h.defs)
    <3>1. DOMAIN g.defs \subseteq DOMAIN h.defs
      BY <1>2 DEF With
    <3> QED BY <1>7, <3>1 DEF ScopeRoutes
  <2> HIDE DEF n, g, p
  <2>2. t.scopes[n] = h
    BY <1>1
  <2>3. n = Len(u.ps) /\ t.nodes = u.nodes
    BY <1>3 DEF n
  <2>4. \A k \in 1 .. n - 1 : t.ps[k] = u.ps[k] /\ t.scopes[k] = u.scopes[k]
    BY <1>2, <1>3, <1>5
  <2>5. ScopeRoutes(t.ps[n], t.scopes[n].defs) /\ ScopeLists(t.ps[n], Q, t.rules, n)
    BY <1>5, <1>8, <2>1, <2>2
  <2>6. \A k : k # n => CountIn(t.rules, k, Listing) = CountIn(s.rules, k, Listing)
    BY <1>6
  <2> QED BY <1>1, <1>4, <1>5, <1>9, <2>3, <2>4, <2>5, <2>6, InnerMore
<1>10. CASE n = 1
  <2>1. RootPart(p, g, t.nodes, Q)
    BY <1>1, <1>3, <1>4, <1>10 DEF More
  <2>2. ScopeNames(g.defs, p, s.nodes)
    BY <1>1, <1>10, RootIsGood
  <2>3. ScopeNames(g.defs, p, t.nodes)
    BY <2>2 DEF ScopeNames, Grows
  <2>4. g = s.scopes[1] /\ t.scopes[1] = h /\ t.ps[1] = q
    BY <1>1, <1>5, <1>10
  <2>5. Typed(t.nodes[x], g)
    BY <1>10, <2>4
  <2>6. (Clear(Q) /\ name \in DOMAIN g.defs) =>
          t.nodes[x].type # Script /\ t.nodes[g.defs[name]].type = t.nodes[x].type
    <3> SUFFICES ASSUME Clear(Q), name \in DOMAIN g.defs
                 PROVE  t.nodes[x].type # Script /\ t.nodes[g.defs[name]].type = t.nodes[x].type
      OBVIOUS
    <3>1. t.nodes[x].type # Script /\ s.nodes[g.defs[name]].type = t.nodes[x].type
      BY <1>10, <2>4
    <3>2. g.defs[name] \in DOMAIN s.nodes
      BY <2>2 DEF ScopeNames
    <3> QED BY <3>1, <3>2 DEF Grows
  <2> DEFINE N == t.nodes
  <2>10. h.defs = IF name = Anonymous THEN g.defs ELSE With(g.defs, name, x)
    BY <1>2
  <2>7. h.proto = g.proto /\ h.types = g.types /\ q.routes = p.routes
    OBVIOUS
  <2>11. /\ RootPart(p, g, N, Q) /\ ScopeNames(g.defs, p, N) /\ Typed(N[x], g)
         /\ (Clear(Q) /\ name \in DOMAIN g.defs) =>
              N[x].type # Script /\ N[g.defs[name]].type = N[x].type
    BY <2>1, <2>3, <2>5, <2>6
  <2> HIDE DEF g, p, N
  <2>8. RootPart(q, h, N, Q) /\ ScopeRoutes(q, h.defs)
    <3>1. RootPart(p, g, N, Q) /\ ScopeRoutes(p, g.defs) /\ ScopeNames(g.defs, p, N) /\ p \in ParseScopeSet
      BY <1>1, <1>7, <2>11
    <3>2. q.data = Append(p.data, NodeData(x, name)) /\ q.names = p.names /\ q.routes = p.routes
      BY <1>2, <2>7
    <3>3. (Clear(Q) /\ name \in DOMAIN g.defs) =>
            N[x].type # Script /\ N[g.defs[name]].type = N[x].type
      BY <2>11
    <3>4. Typed(N[x], g) /\ h.proto = g.proto /\ h.types = g.types
      BY <2>7, <2>11
    <3> QED BY ONLY <2>10, <3>1, <3>2, <3>3, <3>4, StartedRoot, name \in Names \cup {Anonymous}
  <2>9. \A k \in 1 .. Len(t.ps) : k = 1
    BY <1>5, <1>10
  <2> QED BY <1>8, <1>10, <2>4, <2>8, <2>9 DEF More, N
<1> QED BY <1>9, <1>10

LEMMA NodeStartSound ==
  ASSUME Good(Here, quirks), More(Here, quirks, rules), NodeStart
  PROVE  \E s : Become(s) /\ Sound(s, quirks', s.rules)
<1>1. PICK name \in Names \cup {Anonymous}, t \in TypesInScope :
        LET n == Len(nodes) + 1
            scope == Inmost(scopes)
            defs == scope.defs
            p == Inmost(ps)
        IN /\ Become([Here EXCEPT
                !.rules = Append(@, "node"),
                !.scopes = IF name = Anonymous THEN @
                           ELSE SetInmost(@, [scope EXCEPT !.defs = With(@, name, n)]),
                !.ps = SetInmost(@, [p EXCEPT !.data = Append(@, NodeData(n, name))]),
                !.nodes = Append(@, [type |-> t, interfaces |-> TypeOf(t), children |-> {},
                                     finished |-> FALSE, depth |-> Len(ps)])])
           /\ Oddly({<<"renamed", name \in DOMAIN defs /\ nodes[defs[name]].type # t>>,
                     <<"renamed", name \in DOMAIN defs /\ t = Script>>,
                     <<"nested", name # Anonymous /\ \E d \in Range(p.data) : d.name = name>>})
  BY DEF NodeStart
<1> DEFINE n == Len(nodes) + 1
           scope == Inmost(scopes)
           p == Inmost(ps)
           new == [type |-> t, interfaces |-> TypeOf(t), children |-> {}, finished |-> FALSE,
                   depth |-> Len(ps)]
           defs == IF name = Anonymous THEN scope.defs ELSE With(scope.defs, name, n)
           g == [scope EXCEPT !.defs = With(@, name, n)]
           q == [p EXCEPT !.data = Append(@, NodeData(n, name))]
           S == IF name = Anonymous THEN scopes ELSE SetInmost(scopes, g)
           s == [Here EXCEPT !.rules = Append(@, "node"),
                             !.scopes = IF name = Anonymous THEN @ ELSE SetInmost(@, g),
                             !.ps = SetInmost(@, q), !.nodes = Append(@, new)]
<1>2. Become(s)
  BY <1>1
<1>3. /\ quirks \subseteq quirks'
      /\ (name \in DOMAIN scope.defs /\ (nodes[scope.defs[name]].type # t \/ t = Script)) =>
           "renamed" \in quirks'
  <2> DEFINE named == name # Anonymous /\ \E d \in Range(p.data) : d.name = name
             a == name \in DOMAIN scope.defs /\ nodes[scope.defs[name]].type # t
             b == name \in DOMAIN scope.defs /\ t = Script
             C == {<<"renamed", a>>, <<"renamed", b>>, <<"nested", named>>}
  <2>1. Oddly(C)
    BY <1>1
  <2> HIDE DEF a, b, named
  <2>2. /\ <<"renamed", a>> \in C /\ <<"renamed", a>>[1] = "renamed" /\ <<"renamed", a>>[2] = a
        /\ <<"renamed", b>> \in C /\ <<"renamed", b>>[1] = "renamed" /\ <<"renamed", b>>[2] = b
    OBVIOUS
  <2> HIDE DEF C
  <2>3. quirks \subseteq quirks' /\ (a \/ b => "renamed" \in quirks')
    BY <2>1, <2>2, QuirksGrow
  <2> QED BY <2>3 DEF a, b
<1>4. /\ Here \in StateSet /\ rules \in Seq(RuleNames) /\ scopes \in Seq(ScopeSet)
      /\ ps \in Seq(ParseScopeSet) /\ nodes \in Seq(NodeSet) /\ ps # << >> /\ scopes # << >>
      /\ p \in ParseScopeSet /\ scope \in ScopeSet /\ Len(ps) \in Nat /\ Rule = Inmost(rules)
      /\ DOMAIN nodes = 1 .. Len(nodes) /\ Len(nodes) \in Nat /\ n \in Nat
      /\ scope = scopes[Len(scopes)] /\ Len(scopes) \in Nat \ {0}
  BY HereIsGood
<1>5. Rule \in Callers["node"]
  BY DEF NodeStart, Callers, ScopeRules, Listed
<1>6. new \in NodeSet /\ ~new.finished /\ new.type = t /\ new.interfaces = TypeOf(t)
  BY <1>4, TypesAreKnown DEF NodeSet
<1> HIDE DEF new
<1>7. /\ Append(nodes, new) \in Seq(NodeSet) /\ DOMAIN Append(nodes, new) = 1 .. n
      /\ Append(nodes, new)[n] = new /\ \A k \in DOMAIN nodes : Append(nodes, new)[k] = nodes[k]
  BY <1>4, <1>6, Pushed
<1>8. /\ q \in ParseScopeSet /\ q.data = Append(p.data, NodeData(n, name)) /\ q.names = p.names
      /\ q.said = p.said /\ q.isMap = p.isMap /\ q.bodies = p.bodies /\ q.routes = p.routes
      /\ q.children = p.children
  <2>1. NodeData(n, name) \in DataSet
    BY <1>4, NoDataIs
  <2>2. p.data \in Seq(DataSet)
    BY <1>4 DEF ParseScopeSet
  <2>3. Append(p.data, NodeData(n, name)) \in Seq(DataSet)
    BY <2>1, <2>2, Pushed
  <2> QED BY <1>4, <2>3 DEF ParseScopeSet
<1>9. name # Anonymous =>
        g \in ScopeSet /\ g.defs = With(scope.defs, name, n) /\ g.types = scope.types /\ g.proto = scope.proto
  <2> SUFFICES ASSUME name # Anonymous
               PROVE  g \in ScopeSet /\ g.defs = With(scope.defs, name, n) /\ g.types = scope.types /\ g.proto = scope.proto
    OBVIOUS
  <2>1. scope.defs \in Maps(Names, Nat) /\ name \in Names
    BY <1>4 DEF ScopeSet
  <2>2. With(scope.defs, name, n) \in Maps(Names, Nat)
    <3> DEFINE f == scope.defs
    <3> HIDE DEF f, n
    <3> QED BY <1>4, <2>1, WithMap DEF f
  <2> QED BY <1>4, <2>2 DEF ScopeSet
<1> HIDE DEF g, q
<1>10. /\ S \in Seq(ScopeSet) /\ Len(S) = Len(scopes) /\ S[Len(scopes)].defs = defs
       /\ S[Len(scopes)].types = scope.types /\ S[Len(scopes)].proto = scope.proto
       /\ \A k \in 1 .. Len(scopes) - 1 : S[k] = scopes[k]
  <2>1. CASE name = Anonymous
    BY <1>4, <2>1
  <2>2. CASE name # Anonymous
    <3>1. /\ SetInmost(scopes, g) \in Seq(ScopeSet) /\ Len(SetInmost(scopes, g)) = Len(scopes)
          /\ SetInmost(scopes, g)[Len(scopes)] = g
          /\ \A k \in 1 .. Len(scopes) - 1 : SetInmost(scopes, g)[k] = scopes[k]
      BY <1>4, <1>9, <2>2, ReplacedNames
    <3>2. S = SetInmost(scopes, g) /\ defs = g.defs /\ g.types = scope.types /\ g.proto = scope.proto
      BY <1>9, <2>2
    <3> QED BY <3>1, <3>2
  <2> QED BY <2>1, <2>2
<1>11. SetInmost(ps, q) \in Seq(ParseScopeSet)
  BY <1>4, <1>8, ReplacedScope
<1>12. Append(rules, "node") \in Seq(RuleNames)
  BY <1>4, Pushed DEF RuleNames
<1>13. /\ s \in StateSet /\ s.rules = Append(rules, "node") /\ s.scopes = S
       /\ s.ps = SetInmost(ps, q) /\ s.nodes = Append(nodes, new) /\ s.fault = "parsing"
  <2> HIDE DEF S, n
  <2>1. s = [Here EXCEPT !.rules = Append(rules, "node"), !.scopes = S,
                         !.ps = SetInmost(ps, q), !.nodes = Append(nodes, new)]
    BY HereIs DEF S, n
  <2> HIDE DEF s
  <2> QED BY <1>4, <1>7, <1>10, <1>11, <1>12, <2>1, HereIs DEF StateSet
<1> HIDE DEF s, S, defs
<1>14. Started(Here, s, n, name, defs, q)
  BY <1>6, <1>7, <1>8, <1>10, <1>13, HereIs DEF Started, defs
<1> DEFINE Q == quirks'
           h == S[Len(scopes)]
<1>15. More(Here, Q, rules)
  BY <1>3, HereIsSound
<1>16. Grows(nodes, s.nodes)
  BY <1>4, <1>7, <1>13 DEF Grows
<1>17. Len(ps) = 1 => scope = scopes[1] /\ Typed(new, scope) /\ RootTypes(scope)
  <2> SUFFICES ASSUME Len(ps) = 1 PROVE scope = scopes[1] /\ Typed(new, scope) /\ RootTypes(scope)
    OBVIOUS
  <2>1. Len(scopes) = 1 /\ DOMAIN scopes = {1}
    BY <1>4, HereIsGood
  <2>2. scope = scopes[1]
    BY <1>4, <2>1
  <2>3. t \in DOMAIN scopes[1].types /\ TypeOf(t) = scopes[1].types[t]
    <3>1. t \in DOMAIN scopes[1].types
      BY <2>1 DEF TypesInScope
    <3>2. (CHOOSE i \in DOMAIN scopes : t \in DOMAIN scopes[i].types) = 1
      BY <2>1, <3>1
    <3> QED BY <3>1, <3>2 DEF TypeOf
  <2>4. RootTypes(scopes[1])
    BY HereIs DEF More, RootPart
  <2> QED BY <1>6, <2>2, <2>3, <2>4 DEF Typed
<1>18. (Clear(Q) /\ name \in DOMAIN scope.defs) =>
         new.type # Script /\ nodes[scope.defs[name]].type = new.type
  BY <1>3, <1>6 DEF Clear
<1>19. s.nodes[n] = new /\ s.scopes = S /\ Len(S) = Len(scopes)
  BY <1>4, <1>7, <1>10, <1>13
<1> HIDE DEF Q, h, p, scope, n
<1>20. More(s, Q, s.rules)
  <2>1. /\ Inmost(Here.rules) \in Callers["node"] /\ Here.fault = "parsing" /\ Here.rules = rules
        /\ Here.ps = ps /\ Here.scopes = scopes /\ Here.nodes = nodes
    BY <1>4, <1>5, HereIs
  <2>2. q.routes = Inmost(Here.ps).routes /\ q.children = Inmost(Here.ps).children
    BY <1>8, <2>1 DEF p
  <2>3. /\ h = s.scopes[Len(Here.scopes)] /\ h.types = Inmost(Here.scopes).types
        /\ h.proto = Inmost(Here.scopes).proto
    BY <1>10, <1>19, <2>1 DEF h, scope
  <2>4. More(Here, Q, Here.rules) /\ Grows(Here.nodes, s.nodes)
    BY <1>15, <1>16, <2>1
  <2>5. Len(Here.ps) = 1 => Typed(s.nodes[n], Here.scopes[1])
    BY <1>17, <1>19, <2>1
  <2>6. (Len(Here.ps) = 1 /\ Clear(Q) /\ name \in DOMAIN Here.scopes[1].defs) =>
          s.nodes[n].type # Script /\ Here.nodes[Here.scopes[1].defs[name]].type = s.nodes[n].type
    BY <1>17, <1>18, <1>19, <2>1
  <2>7. Good(Here, quirks) /\ Started(Here, s, n, name, defs, q) /\ name \in Names \cup {Anonymous}
    BY <1>14
  <2> QED BY ONLY <2>1, <2>2, <2>3, <2>4, <2>5, <2>6, <2>7, NodeStartIsSound
<1> QED BY <1>2, <1>13, <1>20, NoCause DEF Sound, Q

-----------------------------------------------------------------------------
(* The destructor.                                                         *)

Ends(p) ==
  \A j \in DOMAIN p.routes :
    /\ p.routes[j].from \in DOMAIN p.names \/ InProgress(p, p.routes[j].from)
    /\ p.routes[j].to \in DOMAIN p.names \/ InProgress(p, p.routes[j].to)

(* The root alone, with c lists and m nodes in progress.                   *)
Rooted(s, c, m) ==
  /\ s \in StateSet /\ s.fault = "parsing" /\ Len(s.ps) = 1
  /\ LET p == s.ps[1]
     IN /\ Len(p.children) = c /\ Len(p.data) = m
        /\ \A i \in DOMAIN p.data : p.data[i].node \in DOMAIN s.nodes
        /\ ScopeBodies(p, s.nodes) /\ Ends(p)

LEMMA RootedIs ==
  ASSUME NEW s, NEW c, NEW m, Rooted(s, c, m)
  PROVE  LET p == s.ps[1]
         IN /\ p \in ParseScopeSet /\ p = Inmost(s.ps) /\ s.ps # << >> /\ DOMAIN s = Fields
            /\ s.ps \in Seq(ParseScopeSet) /\ c \in Nat /\ m \in Nat
            /\ m # 0 => p.data # << >> /\ Inmost(p.data).node \in DOMAIN s.nodes
            /\ m = 0 => p.data = << >>
            /\ c # 0 => p.children # << >>
            /\ c = 0 => p.children = << >>
            /\ \A q \in ParseScopeSet : SetInmost(s.ps, q)[1] = q /\ Len(SetInmost(s.ps, q)) = 1
<1> DEFINE p == s.ps[1]
<1>1. s \in StateSet /\ DOMAIN s = Fields /\ Len(s.ps) = 1 /\ s.ps # << >> /\ s.ps \in Seq(ParseScopeSet)
  BY StateFields, OneIsSome DEF Rooted, StateSet
<1>2. p = Inmost(s.ps) /\ p \in ParseScopeSet
  <2> HIDE DEF p
  <2>1. Inmost(s.ps) = s.ps[Len(s.ps)] /\ Inmost(s.ps) \in ParseScopeSet
    BY <1>1, StackOfSeq
  <2> QED BY <1>1, <2>1 DEF p
<1>3. Len(p.children) = c /\ Len(p.data) = m /\ \A i \in DOMAIN p.data : p.data[i].node \in DOMAIN s.nodes
  BY DEF Rooted
<1> HIDE DEF p
<1>4. p.data \in Seq(DataSet) /\ p.children \in Seq(Seq(Nat))
  BY <1>2 DEF ParseScopeSet
<1>5. c \in Nat /\ m \in Nat /\ (m = 0 => p.data = << >>)
  BY <1>3, <1>4, EmptySeq, LenProperties
<1>6. m # 0 => p.data # << >> /\ Inmost(p.data).node \in DOMAIN s.nodes
  <2> SUFFICES ASSUME m # 0 PROVE p.data # << >> /\ Inmost(p.data).node \in DOMAIN s.nodes
    OBVIOUS
  <2>1. p.data # << >>
    BY <1>3, <1>4, EmptySeq
  <2> QED BY <1>2, <1>3, <2>1, InmostData
<1>7. (c # 0 => p.children # << >>) /\ (c = 0 => p.children = << >>)
  <2> DEFINE T == Seq(Nat)
  <2>1. p.children \in Seq(T)
    BY <1>4
  <2> HIDE DEF T
  <2> QED BY <1>3, <2>1, EmptySeq
<1>8. \A q \in ParseScopeSet : SetInmost(s.ps, q)[1] = q /\ Len(SetInmost(s.ps, q)) = 1
  <2> TAKE q \in ParseScopeSet
  <2>1. SetInmost(s.ps, q)[Len(s.ps)] = q /\ Len(SetInmost(s.ps, q)) = Len(s.ps)
    BY <1>1, ReplacedScope
  <2> QED BY <1>1, <2>1
<1> QED BY <1>1, <1>2, <1>5, <1>6, <1>7, <1>8 DEF p

\* The root's scope is changed to q.
LEMMA RootedStep ==
  ASSUME NEW s, NEW c, NEW m, Rooted(s, c, m), NEW q \in ParseScopeSet, NEW t \in StateSet,
         t.fault = "parsing", t.ps = SetInmost(s.ps, q), DOMAIN s.nodes \subseteq DOMAIN t.nodes,
         NEW b, NEW n, Len(q.children) = b, Len(q.data) = n,
         \A i \in DOMAIN q.data : i \in DOMAIN s.ps[1].data /\ q.data[i].node = s.ps[1].data[i].node,
         q.bodies = s.ps[1].bodies, q.routes = s.ps[1].routes,
         \A z \in Names : z \in DOMAIN s.ps[1].names \/ InProgress(s.ps[1], z) =>
                            z \in DOMAIN q.names \/ InProgress(q, z)
  PROVE  Rooted(t, b, n)
<1> DEFINE p == s.ps[1]
<1>1. t.ps[1] = q /\ Len(t.ps) = 1
  BY RootedIs
<1>2. /\ \A i \in DOMAIN p.data : p.data[i].node \in DOMAIN s.nodes
      /\ ScopeBodies(p, s.nodes) /\ Ends(p)
  BY DEF Rooted
<1> HIDE DEF p
<1>3. \A i \in DOMAIN q.data : q.data[i].node \in DOMAIN t.nodes
  BY <1>2 DEF p
<1>4. ScopeBodies(q, t.nodes)
  BY <1>2 DEF ScopeBodies, p
<1>5. Ends(q)
  <2>1. q.routes = p.routes /\ \A z \in Names : z \in DOMAIN p.names \/ InProgress(p, z) =>
                                                z \in DOMAIN q.names \/ InProgress(q, z)
    BY DEF p
  <2>2. \A j \in DOMAIN q.routes : q.routes[j].from \in Names /\ q.routes[j].to \in Names
    <3>1. q.routes \in Seq(RouteSet)
      BY DEF ParseScopeSet
    <3>2. \A j \in DOMAIN q.routes : q.routes[j] \in RouteSet
      BY <3>1, LenProperties, ElementOfSeq
    <3> QED BY <3>2 DEF RouteSet
  <2> QED BY <1>2, <2>1, <2>2 DEF Ends
<1> QED BY <1>1, <1>3, <1>4, <1>5 DEF Rooted

\* The innermost node in progress has a value: a list less.
LEMMA RootedValue ==
  ASSUME NEW s, NEW c, NEW m, Rooted(s, c, m), c # 0, m # 0
  PROVE  Rooted(SetValue(s), c - 1, m)
<1> DEFINE p == Inmost(s.ps)
           d == Inmost(p.data)
<1>1. /\ p = s.ps[1] /\ p \in ParseScopeSet /\ s.ps # << >> /\ DOMAIN s = Fields
      /\ s.ps \in Seq(ParseScopeSet) /\ c \in Nat /\ m \in Nat /\ p.data # << >> /\ p.children # << >>
      /\ s \in StateSet /\ s.fault = "parsing" /\ Len(p.children) = c /\ Len(p.data) = m
  BY RootedIs DEF Rooted
<1>2. PICK q, e, t : SetTo(s, t, q, e) /\ SetValue(s) = PopChildren(t)
  BY <1>1, SetValueIs
<1>3. /\ t = [s EXCEPT !.ps = SetInmost(@, q)] /\ q \in ParseScopeSet /\ e \in DataSet
      /\ q.data = SetInmost(p.data, e) /\ q.names = p.names /\ q.routes = p.routes
      /\ q.children = p.children /\ q.bodies = p.bodies /\ e.node = d.node /\ e.name = d.name
  BY <1>2 DEF SetTo
<1>4. t \in StateSet /\ t.ps = SetInmost(s.ps, q) /\ t.fault = "parsing" /\ t.nodes = s.nodes
  <2>1. t \in StateSet
    BY <1>1, <1>3, InnermostScope
  <2> QED BY <1>1, <1>3, <2>1 DEF Fields
<1>5. /\ d = p.data[m] /\ DOMAIN p.data = 1 .. m /\ DOMAIN q.data = 1 .. m /\ q.data[m] = e
      /\ \A i \in 1 .. m - 1 : q.data[i] = p.data[i]
  <2>1. p.data \in Seq(DataSet) /\ d = p.data[m] /\ DOMAIN p.data = 1 .. m
    BY <1>1, InmostData
  <2>2. /\ DOMAIN SetInmost(p.data, e) = DOMAIN p.data /\ SetInmost(p.data, e)[Len(p.data)] = e
        /\ \A i \in 1 .. Len(p.data) - 1 : SetInmost(p.data, e)[i] = p.data[i]
    BY <1>1, <1>3, <2>1, ReplacedData
  <2> QED BY <1>1, <1>3, <2>1, <2>2
<1> HIDE DEF p, d
<1>6. \A i \in 1 .. m : q.data[i].node = p.data[i].node /\ q.data[i].name = p.data[i].name
  <2> SUFFICES ASSUME NEW i \in 1 .. m
               PROVE  q.data[i].node = p.data[i].node /\ q.data[i].name = p.data[i].name
    OBVIOUS
  <2>1. CASE i = m
    BY <1>3, <1>5, <2>1
  <2>2. CASE i # m
    <3>1. i \in 1 .. m - 1
      BY <1>1, <2>2
    <3> QED BY <1>5, <3>1
  <2> QED BY <2>1, <2>2
<1> DEFINE x == [q EXCEPT !.children = Outer(@)]
           u == PopChildren(t)
<1>7. /\ x \in ParseScopeSet /\ x.data = q.data /\ x.names = q.names /\ x.routes = q.routes
      /\ x.bodies = q.bodies /\ Len(x.children) = Len(q.children) - 1
  BY <1>1, <1>3, PoppedScope
<1>8. Inmost(t.ps) = q /\ t.ps \in Seq(ParseScopeSet) /\ t.ps # << >>
  <2>1. /\ Inmost(SetInmost(s.ps, q)) = q /\ SetInmost(s.ps, q) \in Seq(ParseScopeSet)
        /\ SetInmost(s.ps, q) # << >>
    BY <1>1, <1>3, ReplacedScope
  <2> QED BY <1>4, <2>1
<1>9. u = [t EXCEPT !.ps = SetInmost(@, x)]
  BY <1>1, <1>3, <1>4, <1>8 DEF PopChildren, Unless
<1> HIDE DEF x
<1>10. u \in StateSet
  BY <1>4, <1>7, <1>8, <1>9, InnermostScope
<1>11. u.ps = SetInmost(s.ps, x) /\ u.fault = "parsing" /\ u.nodes = s.nodes
  <2>1. SetInmost(SetInmost(s.ps, q), x) = SetInmost(s.ps, x)
    BY <1>1, <1>3, ReplacedTwice
  <2>2. DOMAIN t = Fields
    BY <1>4, StateFields
  <2> HIDE DEF u
  <2> QED BY <1>4, <1>9, <2>1, <2>2 DEF Fields
<1> HIDE DEF u
<1>12. Len(x.children) = c - 1 /\ Len(x.data) = m
  <2>1. Len(q.data) = m
    <3>1. q.data \in Seq(DataSet)
      BY <1>3 DEF ParseScopeSet
    <3> QED BY <1>1, <1>5, <3>1, LenProperties
  <2> QED BY <1>1, <1>3, <1>7, <2>1
<1>13. \A i \in DOMAIN x.data : i \in DOMAIN p.data /\ x.data[i].node = p.data[i].node
  BY <1>5, <1>6, <1>7
<1>14. \A z : z \in DOMAIN p.names \/ InProgress(p, z) => z \in DOMAIN x.names \/ InProgress(x, z)
  BY <1>3, <1>5, <1>6, <1>7 DEF InProgress
<1>15. Rooted(u, c - 1, m)
  BY <1>1, <1>3, <1>7, <1>10, <1>11, <1>12, <1>13, <1>14, RootedStep
<1> QED BY <1>2, <1>15 DEF u

\* A node joins the innermost list.
LEMMA Added ==
  ASSUME NEW s \in StateSet, s.ps # << >>, s.fault = "parsing", Inmost(s.ps).children # << >>, NEW x \in Nat
  PROVE  LET p == Inmost(s.ps)
             q == [p EXCEPT !.children = SetInmost(@, Append(Inmost(@), x))]
         IN /\ AddChild(s, x) = [s EXCEPT !.ps = SetInmost(@, q)] /\ q \in ParseScopeSet
            /\ q.data = p.data /\ q.names = p.names /\ q.routes = p.routes /\ q.bodies = p.bodies
            /\ Len(q.children) = Len(p.children)
<1> DEFINE p == Inmost(s.ps)
           c == SetInmost(p.children, Append(Inmost(p.children), x))
           q == [p EXCEPT !.children = c]
<1>1. p \in ParseScopeSet
  BY StackOfSeq DEF StateSet
<1>2. AddChild(s, x) = [s EXCEPT !.ps = SetInmost(@, q)]
  BY DEF AddChild, Unless
<1>3. p.children # << >>
  OBVIOUS
<1> HIDE DEF p
<1>4. p.children \in Seq(Seq(Nat))
  BY <1>1 DEF ParseScopeSet
<1>5. Inmost(p.children) \in Seq(Nat)
  BY <1>3, <1>4, StackOfSeq
<1>6. Append(Inmost(p.children), x) \in Seq(Nat)
  BY <1>5, Pushed
<1>7. c \in Seq(Seq(Nat))
  BY <1>3, <1>4, <1>6, ReplacedLists
<1>8. Len(c) = Len(p.children)
  BY <1>3, <1>4, <1>6, ReplacedLists
<1> HIDE DEF c
<1>9. /\ q \in ParseScopeSet /\ q.data = p.data /\ q.names = p.names /\ q.routes = p.routes
      /\ q.bodies = p.bodies /\ q.children = c
  BY <1>1, <1>7 DEF ParseScopeSet
<1> QED BY <1>2, <1>8, <1>9 DEF p, c

\* The innermost node in progress ends, unless it cannot be created.
LEMMA RootedFinish ==
  ASSUME NEW s, NEW c, NEW m, Rooted(s, c, m), c # 0, m # 0
  PROVE  LET d == Inmost(s.ps[1].data)
         IN \/ NodeFinish(s).fault = "exception" /\ ~Creatable(s.nodes[d.node], d)
            \/ Rooted(NodeFinish(s), c, m - 1)
<1> DEFINE p == Inmost(s.ps)
           d == Inmost(p.data)
           type == s.nodes[d.node].type
           B == DOMAIN BodyNames(s, type)
<1>1. /\ p = s.ps[1] /\ p \in ParseScopeSet /\ s.ps # << >> /\ DOMAIN s = Fields
      /\ s.ps \in Seq(ParseScopeSet) /\ c \in Nat /\ m \in Nat /\ p.data # << >> /\ p.children # << >>
      /\ s \in StateSet /\ s.fault = "parsing" /\ Len(p.children) = c /\ Len(p.data) = m
      /\ d.node \in DOMAIN s.nodes /\ Len(s.ps) = 1
  BY RootedIs DEF Rooted
<1>2. d \in DataSet /\ d.node \in Nat /\ d = p.data[m] /\ DOMAIN p.data = 1 .. m /\ p.data \in Seq(DataSet)
  <2>1. d \in DataSet /\ d = p.data[m] /\ DOMAIN p.data = 1 .. m /\ p.data \in Seq(DataSet)
    BY <1>1, InmostData
  <2> QED BY <2>1 DEF DataSet
<1>3. \A k \in DOMAIN s.ps : ScopeBodies(s.ps[k], s.nodes)
  <2>1. DOMAIN s.ps = {1}
    BY <1>1, LenProperties
  <2> QED BY <2>1 DEF Rooted
<1>4. PICK q, M : /\ Instance(s, type) = [s EXCEPT !.ps = SetInmost(@, q), !.nodes = M]
                  /\ Cloned(Inmost(s.ps), q, s.nodes, M, DOMAIN BodyNames(s, type))
  BY <1>1, <1>3, InstanceIs
<1> DEFINE x == [s EXCEPT !.ps = SetInmost(@, q), !.nodes = M]
<1>5. Instantiated(s) = x
  BY <1>1, <1>4 DEF Instantiated
<1>6. Cloned(p, q, s.nodes, M, B)
  BY <1>4
<1> HIDE DEF p, d, type, B
<1>7. /\ q \in ParseScopeSet /\ q = [p EXCEPT !.names = q.names] /\ M \in Seq(NodeSet)
      /\ DOMAIN q.names = DOMAIN p.names \cup B /\ DOMAIN s.nodes \subseteq DOMAIN M
      /\ \A n \in DOMAIN s.nodes : M[n] = s.nodes[n]
  BY <1>6 DEF Cloned
<1>8. q.data = p.data /\ q.bodies = p.bodies /\ q.children = p.children /\ q.routes = p.routes
  BY <1>1, <1>7 DEF ParseScopeSet
<1>9. /\ SetInmost(s.ps, q) \in Seq(ParseScopeSet) /\ SetInmost(s.ps, q) # << >>
      /\ Inmost(SetInmost(s.ps, q)) = q
  <2>1. q \in ParseScopeSet
    BY <1>7
  <2>2. s.ps \in Seq(ParseScopeSet) /\ s.ps # << >>
    BY <1>1
  <2> QED BY ONLY <2>1, <2>2, ReplacedScope
<1>10. /\ x \in StateSet /\ x.ps = SetInmost(s.ps, q) /\ x.nodes = M /\ x.fault = "parsing"
  BY <1>1, <1>7, <1>9 DEF StateSet
<1> HIDE DEF x
<1>11. Rooted(x, c, m)
  <2>1. \A i \in DOMAIN q.data : i \in DOMAIN s.ps[1].data /\ q.data[i].node = s.ps[1].data[i].node
    BY <1>1, <1>8
  <2>2. q.bodies = s.ps[1].bodies /\ q.routes = s.ps[1].routes /\ Len(q.children) = c /\ Len(q.data) = m
    BY <1>1, <1>8
  <2>3. \A z \in Names : z \in DOMAIN s.ps[1].names \/ InProgress(s.ps[1], z) =>
                           z \in DOMAIN q.names \/ InProgress(q, z)
    BY <1>1, <1>7, <1>8 DEF InProgress
  <2> QED BY <1>7, <1>10, <2>1, <2>2, <2>3, RootedStep
<1>12. Inmost(x.ps) = q /\ Inmost(q.data) = d /\ x.ps # << >> /\ x.ps[1] = q
  <2>1. x.ps[1] = Inmost(x.ps)
    BY <1>11, RootedIs
  <2> QED BY <1>8, <1>9, <1>10, <2>1 DEF d
<1>13. d.node \in DOMAIN x.nodes /\ x.nodes[d.node] = s.nodes[d.node]
  BY <1>1, <1>7, <1>10
<1>14. NodeFinish(s) = Finished(x)
  BY <1>5 DEF NodeFinish
<1>15. \/ Finished(x) = [x EXCEPT !.fault = "exception"] /\ ~Creatable(s.nodes[d.node], d)
       \/ Finished(x) = AddChild(Stored(x), d.node)
  BY <1>1, <1>8, <1>10, <1>12, <1>13, FinishedIs
<1>16. CASE Finished(x) = [x EXCEPT !.fault = "exception"] /\ ~Creatable(s.nodes[d.node], d)
  <2>1. [x EXCEPT !.fault = "exception"].fault = "exception"
    <3>1. DOMAIN x = Fields
      BY <1>10, StateFields
    <3> QED BY <3>1 DEF Fields
  <2> QED BY <1>1, <1>14, <1>16, <2>1 DEF d
<1>17. CASE Finished(x) = AddChild(Stored(x), d.node)
  <2> DEFINE y == Stored(x)
             r == Closed(q)
  <2>1. /\ y \in StateSet /\ y.ps = SetInmost(x.ps, r) /\ y.fault = "parsing" /\ DOMAIN y.nodes = DOMAIN x.nodes
    BY <1>1, <1>8, <1>10, <1>12, <1>13, StoredIs
  <2>2. /\ r \in ParseScopeSet /\ r.data = Outer(q.data) /\ r.bodies = q.bodies
        /\ r.children = q.children /\ r.routes = q.routes
        /\ DOMAIN r.names = DOMAIN q.names \cup ({d.name} \ {Anonymous})
    BY <1>1, <1>7, <1>8, <1>12, ClosedIs
  <2> HIDE DEF y, r
  <2>3. DOMAIN r.data = 1 .. m - 1 /\ Len(r.data) = m - 1 /\ \A i \in 1 .. m - 1 : r.data[i] = q.data[i]
    <3>1. DOMAIN Outer(p.data) = 1 .. m - 1 /\ Len(Outer(p.data)) = m - 1 /\ \A i \in 1 .. m - 1 : Outer(p.data)[i] = p.data[i]
      BY <1>1, <1>2, StackOfSeq
    <3> QED BY <1>8, <2>2, <3>1
  <2>4. Rooted(y, c, m - 1)
    <3>1. ASSUME NEW i \in DOMAIN r.data
          PROVE  i \in DOMAIN x.ps[1].data /\ r.data[i].node = x.ps[1].data[i].node
      <4>1. i \in 1 .. m - 1 /\ i \in 1 .. m /\ r.data[i] = q.data[i]
        BY <1>1, <2>3
      <4>2. x.ps[1] = q /\ DOMAIN q.data = 1 .. m
        BY <1>2, <1>8, <1>12
      <4> QED BY <4>1, <4>2
    <3>2. ASSUME NEW z \in Names, z \in DOMAIN q.names \/ InProgress(q, z)
          PROVE  z \in DOMAIN r.names \/ InProgress(r, z)
      <4>1. CASE z \in DOMAIN q.names
        BY <2>2, <4>1
      <4>2. CASE InProgress(q, z)
        <5>1. PICK i \in 1 .. m : q.data[i].name = z
          BY <1>2, <1>8, <4>2 DEF InProgress
        <5>2. CASE i = m
          <6>1. z = d.name /\ z # Anonymous
            BY <1>2, <1>8, <5>1, <5>2, ParseAssumption
          <6> QED BY <2>2, <6>1
        <5>3. CASE i # m
          <6>1. i \in 1 .. m - 1
            BY <1>1, <5>3
          <6>2. i \in DOMAIN r.data /\ r.data[i].name = z
            BY <2>3, <5>1, <6>1
          <6> QED BY <6>2 DEF InProgress
        <5> QED BY <5>2, <5>3
      <4> QED BY <3>2, <4>1, <4>2
    <3>3. Len(r.children) = c /\ r.bodies = x.ps[1].bodies /\ r.routes = x.ps[1].routes
      BY <1>1, <1>8, <1>12, <2>2
    <3>4. \A z \in Names : z \in DOMAIN x.ps[1].names \/ InProgress(x.ps[1], z) =>
                             z \in DOMAIN r.names \/ InProgress(r, z)
      BY <1>12, <3>2
    <3> QED BY <1>11, <2>1, <2>2, <2>3, <3>1, <3>3, <3>4, RootedStep
  <2> DEFINE h == Inmost(y.ps)
             b == [h EXCEPT !.children = SetInmost(@, Append(Inmost(@), d.node))]
             u == [y EXCEPT !.ps = SetInmost(@, b)]
  <2>5. /\ h = y.ps[1] /\ h.children # << >> /\ y.ps # << >> /\ y.ps \in Seq(ParseScopeSet)
        /\ DOMAIN y = Fields /\ h \in ParseScopeSet /\ Len(h.data) = m - 1 /\ Len(h.children) = c
    <3>1. /\ y.ps[1] = Inmost(y.ps) /\ y.ps[1].children # << >> /\ y.ps # << >> /\ y.ps \in Seq(ParseScopeSet)
          /\ DOMAIN y = Fields /\ y.ps[1] \in ParseScopeSet
      BY <2>4, RootedIs
    <3> QED BY <2>4, <3>1 DEF Rooted
  <2>6. /\ AddChild(y, d.node) = u /\ b \in ParseScopeSet
        /\ b.data = h.data /\ b.names = h.names /\ b.routes = h.routes /\ b.bodies = h.bodies
        /\ Len(b.children) = Len(h.children)
    BY <1>2, <2>1, <2>5, Added
  <2> HIDE DEF b, h
  <2>7. u \in StateSet
    BY <2>1, <2>5, <2>6, InnermostScope
  <2>8. u.ps = SetInmost(y.ps, b) /\ u.fault = "parsing" /\ u.nodes = y.nodes
    BY <2>1, <2>5 DEF Fields
  <2> HIDE DEF u
  <2>9. Rooted(u, c, m - 1)
    <3>1. \A z \in Names : z \in DOMAIN y.ps[1].names \/ InProgress(y.ps[1], z) =>
                             z \in DOMAIN b.names \/ InProgress(b, z)
      BY <2>5, <2>6 DEF InProgress
    <3>2. Len(b.children) = c /\ Len(b.data) = m - 1 /\ b.bodies = y.ps[1].bodies /\ b.routes = y.ps[1].routes
      BY <2>5, <2>6
    <3>3. \A i \in DOMAIN b.data : i \in DOMAIN y.ps[1].data /\ b.data[i].node = y.ps[1].data[i].node
      BY <2>5, <2>6
    <3>4. DOMAIN y.nodes \subseteq DOMAIN u.nodes
      BY <2>8
    <3> QED BY <2>4, <2>6, <2>7, <2>8, <3>1, <3>2, <3>3, <3>4, RootedStep
  <2> QED BY <1>14, <1>17, <2>6, <2>9 DEF y
<1> QED BY <1>15, <1>16, <1>17

\* The nodes in progress, but for one, are finished; or one of them was not created.
Salvage(t, k) == t.fault = "exception" \/ Rooted(t, k, k - 1)

LEMMA OutwardsSalvages ==
  ASSUME NEW s, NEW k \in Nat, k > 1, Salvage(s, k)
  PROVE  Salvage(Outwards(s), k - 1)
<1>1. CASE s.fault = "exception"
  <2>1. SetValue(s) = s
    BY <1>1 DEF SetValue, Unless
  <2>2. Instantiated(s) = s
    BY <1>1 DEF Instantiated
  <2>3. Finished(s) = s
    BY <1>1 DEF Finished
  <2> QED BY <1>1, <2>1, <2>2, <2>3 DEF Salvage, Outwards, NodeFinish
<1>2. CASE Rooted(s, k, k - 1)
  <2> DEFINE m == k - 1
             t == SetValue(s)
             u == NodeFinish(t)
  <2>1. Rooted(s, k, m) /\ k # 0 /\ m # 0
    BY <1>2
  <2> HIDE DEF m, t, u
  <2>2. Rooted(t, k - 1, m)
    BY <2>1, RootedValue DEF t
  <2>3. Rooted(t, m, m)
    BY <2>2 DEF m
  <2>4. u.fault = "exception" \/ Rooted(u, m, m - 1)
    BY <2>1, <2>3, RootedFinish DEF u
  <2>5. Salvage(u, m)
    BY <2>4 DEF Salvage
  <2> QED BY <2>5 DEF m, t, u, Outwards
<1> QED BY <1>1, <1>2 DEF Salvage

LEMMA FoldSalvages ==
  ASSUME NEW b, NEW a \in Nat \ {0}, Salvage(b, a)
  PROVE  Salvage(FoldSet(LAMBDA k, t : NodeFinish(SetValue(t)), b, 2 .. a), 1)
<1> DEFINE S == 2 .. a
<1>1. IsFiniteSet(S) /\ Cardinality(S) = a - 1
  BY FS_Interval
<1>2. FoldSet(LAMBDA k, t : NodeFinish(SetValue(t)), b, 2 .. a)
        = FoldSet(LAMBDA k, t : NodeFinish(SetValue(t)), b, S)
  OBVIOUS
<1> HIDE DEF S
<1>3. UpTo(S, Cardinality(S)) = SUBSET S /\ Cardinality(S) \in Nat
  BY <1>1, FS_Subset, FS_CardinalityType DEF UpTo
<1>4. \E D : Table(b, SUBSET S, D)
  <2>1. \E D : Table(b, UpTo(S, Cardinality(S)), D)
    BY <1>1, <1>3, TablesExist
  <2> QED BY <1>3, <2>1
<1> DEFINE C == CHOOSE D : Table(b, SUBSET S, D)
<1>5. Table(b, SUBSET S, C)
  BY <1>4
<1>6. FoldSet(LAMBDA k, t : NodeFinish(SetValue(t)), b, S) = C[S]
  BY DEF FoldSet, MapThenFoldSet, Table, Entry, Outwards, Some
<1> HIDE DEF C
<1>7. ASSUME NEW N \in SUBSET S PROVE C[N] = Entry(b, C, N)
  BY <1>5 DEF Table
<1> DEFINE Left(N) == a - Cardinality(N)
           Bad == {N \in SUBSET S : ~Salvage(C[N], Left(N))}
           Sizes == {Cardinality(N) : N \in Bad}
<1>8. Bad = {}
  <2>1. SUFFICES ASSUME Bad # {} PROVE FALSE
    OBVIOUS
  <2>2. Sizes \subseteq Nat /\ Sizes # {}
    BY <1>1, <2>1, FS_Subset, FS_CardinalityType
  <2>3. PICK m \in Sizes : \A l \in Sizes : m <= l
    BY <2>2, LeastElement
  <2>4. PICK N \in Bad : Cardinality(N) = m
    OBVIOUS
  <2>5. N \in SUBSET S /\ C[N] = Entry(b, C, N)
    BY <2>4, <1>7
  <2>6. CASE N = {}
    <3>1. C[N] = b /\ Left(N) = a
      BY <2>5, <2>6, FS_EmptySet DEF Entry
    <3>2. Salvage(C[N], Left(N))
      BY <3>1
    <3> QED BY <2>4, <3>2
  <2>7. CASE N # {}
    <3> DEFINE M == N \ {Some(N)}
    <3>1. /\ M \in SUBSET S /\ Cardinality(M) \in Nat /\ Cardinality(N) = Cardinality(M) + 1
          /\ Cardinality(N) \in Nat
      BY <1>1, <2>5, <2>7, SomeRemoved
    <3>2. C[N] = Outwards(C[M])
      BY <2>5, <2>7 DEF Entry
    <3>3. M \notin Bad
      <4>1. SUFFICES ASSUME M \in Bad PROVE FALSE
        OBVIOUS
      <4>2. m <= Cardinality(M)
        BY <4>1, <2>3
      <4> QED BY <4>2, <3>1, <2>4
    <3>4. Salvage(C[M], Left(M))
      BY <3>1, <3>3
    <3>5. Left(M) \in Nat /\ Left(M) > 1 /\ Left(N) = Left(M) - 1
      <4>1. Cardinality(N) <= a - 1
        BY <1>1, <2>5, FS_Subset
      <4> QED BY <3>1, <4>1
    <3> DEFINE x == C[M]
               l == Left(M)
    <3>6. Salvage(x, l) /\ l \in Nat /\ l > 1
      BY <3>4, <3>5
    <3> HIDE DEF x, l
    <3>7. Salvage(Outwards(x), l - 1)
      BY <3>6, OutwardsSalvages
    <3>8. Salvage(C[N], Left(N))
      BY <3>2, <3>5, <3>7 DEF x, l
    <3> QED BY <2>4, <3>8
  <2> QED BY <2>6, <2>7
<1>9. Salvage(C[S], Left(S)) /\ Left(S) = 1
  BY <1>1, <1>8
<1> QED BY <1>2, <1>6, <1>9

\* The scene of the nodes at the root, which ROUTEs may still be wrong for.
LEMMA SceneSalvages ==
  ASSUME NEW s, Salvage(s, 1)
  PROVE  SceneFinish(s).fault \in {"done", "exception"}
<1>1. CASE s.fault = "exception"
  <2>1. SceneFinish(s) = s
    BY <1>1 DEF SceneFinish, Unless
  <2> QED BY <1>1, <2>1
<1>2. CASE Rooted(s, 1, 0)
  <2> DEFINE p == Inmost(s.ps)
             q == [p EXCEPT !.children = Outer(@)]
             done == [s EXCEPT !.result = Inmost(p.children), !.ps = SetInmost(@, q)]
             next == [done EXCEPT !.ps = << >>, !.fault = "done"]
  <2>1. /\ p = s.ps[1] /\ p \in ParseScopeSet /\ s.ps # << >> /\ DOMAIN s = Fields
        /\ s.ps \in Seq(ParseScopeSet) /\ p.data = << >> /\ p.children # << >>
    BY <1>2, RootedIs
  <2>2. s.fault = "parsing" /\ Len(s.ps) = 1 /\ Len(p.children) = 1 /\ Ends(p)
    BY <1>2, <2>1 DEF Rooted
  <2>3. SceneFinish(s) = RoutesMade(done, next)
    BY <2>2 DEF SceneFinish, Unless
  <2> HIDE DEF p
  <2>4. q \in ParseScopeSet /\ q.names = p.names /\ q.routes = p.routes
    BY <2>1, PoppedScope
  <2>5. Found(q)
    <3>1. ~ \E z : InProgress(p, z)
      BY <2>1 DEF InProgress
    <3> QED BY <2>2, <2>4, <3>1 DEF Ends, Found
  <2> HIDE DEF q
  <2>6. done.ps = SetInmost(s.ps, q) /\ done.fault = "parsing" /\ DOMAIN done = Fields
    BY <2>1, <2>2 DEF Fields
  <2>7. next.fault = "done" /\ [done EXCEPT !.fault = "exception"].fault = "exception"
    BY <2>6 DEF Fields
  <2> HIDE DEF done, next
  <2>8. Inmost(done.ps) = q
    <3>1. Inmost(SetInmost(s.ps, q)) = q
      BY <2>1, <2>4, ReplacedScope
    <3> QED BY <2>6, <3>1
  <2>9. RoutesMade(done, next) \in {next, [done EXCEPT !.fault = "exception"]}
    BY <2>5, <2>6, <2>8, RoutesMadeFound
  <2> QED BY <2>3, <2>7, <2>9
<1> QED BY <1>1, <1>2 DEF Salvage

LEMMA RootedIsSalvaged ==
  ASSUME NEW s, NEW a \in Nat \ {0}, Rooted(s, a, a - 1)
  PROVE  Salvaged(s).fault = "invalid"
<1> DEFINE S == 2 .. Len(s.ps[1].children)
           fold == FoldSet(LAMBDA k, t : NodeFinish(SetValue(t)), s, S)
           scene == SceneFinish(fold)
           over == [scene EXCEPT !.fault = IF @ \in {"done", "exception"} THEN "invalid" ELSE @]
<1>1. s.fault = "parsing" /\ Len(s.ps[1].children) = a /\ DOMAIN s = Fields
  BY RootedIs DEF Rooted
<1>2. Salvaged(s) = over
  BY <1>1 DEF Salvaged
<1>3. Salvage(fold, 1)
  <2>1. Salvage(s, a)
    BY DEF Salvage
  <2>2. S = 2 .. a
    BY <1>1
  <2> HIDE DEF S
  <2>3. Salvage(FoldSet(LAMBDA k, t : NodeFinish(SetValue(t)), s, 2 .. a), 1)
    BY <2>1, FoldSalvages
  <2> QED BY <2>2, <2>3
<1>4. DOMAIN fold = Fields
  <2>1. IsFiniteSet(S)
    <3>1. S = 2 .. a
      BY <1>1
    <3>2. IsFiniteSet(2 .. a)
      BY FS_Interval
    <3> HIDE DEF S
    <3> QED BY <3>1, <3>2
  <2> HIDE DEF S
  <2> QED BY <1>1, <2>1, FoldFields
<1> HIDE DEF fold
<1>5. DOMAIN scene = Fields
  BY <1>4, SceneFinishIs
<1>6. scene.fault \in {"done", "exception"}
  BY <1>3, SceneSalvages
<1> HIDE DEF scene
<1> QED BY <1>2, <1>5, <1>6 DEF Fields

\* What the destructor ends in has a cause, too.
LEMMA RecoveredHasCause ==
  ASSUME NEW s, NEW Q, Broken(s, Q)
  PROVE  Causes(Recovered(s).fault, Q)
<1> DEFINE b == [s EXCEPT !.ps = << @[1] >>, !.fault = "parsing"]
           p == s.ps[1]
           first == InnermostFinished(b)
           m == Len(p.data)
<1>1. /\ s \in StateSet /\ s.ps # << >> /\ DOMAIN s = Fields
      /\ \A i \in DOMAIN p.data : p.data[i].node \in DOMAIN s.nodes
  BY StateFields DEF Broken, RootNodes
<1>2. p \in ParseScopeSet
  <2>1. s.ps \in Seq(ParseScopeSet)
    BY <1>1 DEF StateSet
  <2>2. 1 \in 1 .. Len(s.ps)
    BY <1>1, <2>1, EmptySeq, LenProperties
  <2> QED BY <2>1, <2>2, ElementOfSeq
<1>3. /\ ScopeBodies(p, s.nodes) /\ Ends(p)
      /\ \/ Len(p.children) = m /\ (p.data = << >> => ~Clear(Q))
         \/ Len(p.children) = m + 1
      /\ "event" \notin Q => \A i \in DOMAIN p.data : Creatable(s.nodes[p.data[i].node], p.data[i])
  BY DEF Broken, Ends
<1>4. Recovered(s) = Salvaged(first)
  BY DEF Recovered
<1>5. b.ps = <<p>> /\ b.fault = "parsing" /\ b.nodes = s.nodes /\ DOMAIN b = Fields
  BY <1>1 DEF Fields
<1>6. b \in StateSet
  <2> DEFINE x == <<p>>
  <2>1. x \in Seq(ParseScopeSet)
    BY <1>2
  <2>2. b = [s EXCEPT !.ps = x, !.fault = "parsing"]
    OBVIOUS
  <2> HIDE DEF p, x, b
  <2> QED BY <1>1, <2>1, <2>2 DEF StateSet, Faults
<1> HIDE DEF p, b
<1>7. b.ps[1] = p /\ Len(b.ps) = 1 /\ Inmost(b.ps) = p
  <2>1. Len(<<p>>) = 1
    OBVIOUS
  <2> QED BY <1>5, <2>1, OnlyScope
<1>8. m \in Nat /\ p.data \in Seq(DataSet) /\ (m = 0 <=> p.data = << >>)
  <2>1. p.data \in Seq(DataSet)
    BY <1>2 DEF ParseScopeSet
  <2> QED BY <2>1, EmptySeq, LenProperties
<1> HIDE DEF m
<1>9. Rooted(b, Len(p.children), m)
  BY <1>1, <1>3, <1>5, <1>6, <1>7 DEF Rooted, m
<1>10. first = IF Len(p.children) = m THEN NodeFinish(b) ELSE b
  BY <1>7 DEF InnermostFinished, m
<1> HIDE DEF first
<1>11. CASE Len(p.children) = m + 1
  <2> DEFINE a == m + 1
  <2>1. a \in Nat \ {0} /\ m = a - 1 /\ Len(p.children) = a
    BY <1>8, <1>11
  <2>2. first = b
    BY <1>8, <1>10, <1>11
  <2> HIDE DEF a
  <2>3. Rooted(first, a, a - 1)
    BY <1>9, <2>1, <2>2
  <2>4. Salvaged(first).fault = "invalid"
    BY <2>1, <2>3, RootedIsSalvaged
  <2> QED BY <1>4, <2>4, NoCause
<1>12. CASE Len(p.children) = m /\ m = 0
  <2>1. p.data = << >> /\ ~Clear(Q)
    BY <1>3, <1>8, <1>12
  <2>2. first = NodeFinish(b)
    BY <1>10, <1>12
  <2>3. Instantiated(b) = b
    BY <1>7, <2>1 DEF Instantiated
  <2>4. Finished(b) = [b EXCEPT !.fault = "children"]
    BY <1>5, <1>7, <2>1 DEF Finished
  <2>5. first.fault = "children"
    BY <1>5, <2>2, <2>3, <2>4 DEF NodeFinish, Fields
  <2>6. Salvaged(first) = first
    BY <2>5 DEF Salvaged
  <2>7. Causes("children", Q)
    BY <2>1 DEF Causes, Clear
  <2> QED BY <1>4, <2>5, <2>6, <2>7
<1>13. CASE Len(p.children) = m /\ m # 0
  <2> DEFINE d == Inmost(b.ps[1].data)
  <2>1. first = NodeFinish(b) /\ Rooted(b, m, m)
    BY <1>9, <1>10, <1>13
  <2>2. \/ first.fault = "exception" /\ ~Creatable(b.nodes[d.node], d)
        \/ Rooted(first, m, m - 1)
    BY <1>13, <2>1, RootedFinish
  <2>3. CASE Rooted(first, m, m - 1)
    <3>1. Salvaged(first).fault = "invalid"
      BY <1>8, <1>13, <2>3, RootedIsSalvaged
    <3> QED BY <1>4, <3>1, NoCause
  <2>4. CASE first.fault = "exception" /\ ~Creatable(b.nodes[d.node], d)
    <3>1. d = p.data[m] /\ m \in DOMAIN p.data
      <4>1. p.data # << >>
        BY <1>8, <1>13
      <4>2. Inmost(p.data) = p.data[m]
        BY DEF Inmost, m
      <4>3. m \in DOMAIN p.data
        BY <1>8, <1>13, LenProperties DEF m
      <4> QED BY <1>7, <4>2, <4>3
    <3>2. "event" \in Q
      BY <1>3, <1>5, <2>4, <3>1
    <3>3. Salvaged(first) = [first EXCEPT !.fault = "terminate"]
      BY <2>4 DEF Salvaged
    <3>4. DOMAIN first = Fields
      <4>1. DOMAIN NodeFinish(b) = Fields
        BY <1>5, NodeFinishFields
      <4> QED BY <2>1, <4>1
    <3>5. Salvaged(first).fault = "terminate"
      BY <3>3, <3>4 DEF Fields
    <3>6. Causes("terminate", Q)
      BY <3>2 DEF Causes
    <3> QED BY <1>4, <3>5, <3>6
  <2> QED BY <2>2, <2>3, <2>4
<1> QED BY <1>3, <1>11, <1>12, <1>13

-----------------------------------------------------------------------------
(* While the file is parsed the stacks are sound, and once it is not the   *)
(* outcome has a cause.                                                    *)
ParseIsSound ==
  /\ outcome = "parsing" => More(Here, quirks, rules)
  /\ Causes(outcome, quirks)

LEMMA SoundStarts == ParseInit => ParseIsSound
<1> SUFFICES ASSUME ParseInit PROVE ParseIsSound
  OBVIOUS
<1> DEFINE g == [NoScope EXCEPT !.types = BuiltIn]
           lists == << << >> >>
           p == [NoParseScope EXCEPT !.children = lists]
           r == <<"scene">>
<1>1. /\ Here.rules = r /\ rules = r /\ Here.scopes = <<g>> /\ Here.nodes = << >>
      /\ Here.ps = <<p>> /\ outcome = "parsing"
  BY HereIs DEF ParseInit
<1>2. /\ g.proto = FALSE /\ g.types = BuiltIn /\ DOMAIN g.defs = {}
      /\ p.data = << >> /\ p.routes = << >> /\ p.children = lists
      /\ DOMAIN p.data = {} /\ DOMAIN p.routes = {} /\ Len(p.children) = 1
  BY DEF NoScope, NoParseScope
<1>3. CountIn(r, 1, Listing) = 1
  <2> DEFINE e == << >>
             x == "scene"
  <2>1. e \in Seq(RuleNames) /\ x \in RuleNames /\ Append(e, x) = r /\ Len(e) = 0 /\ x \in Listing
    BY DEF RuleNames, Listing
  <2>2. Top(r) = 1
    BY FirstRule
  <2>3. Top(e) = 0
    <3>1. 0 \in 0 .. Len(e)
      BY <2>1
    <3>2. ScopeAt(e, 0) = 0
      BY <2>1, <3>1, ScopeAtStep
    <3> QED BY <2>1, <3>2 DEF Top
  <2> DEFINE k == 1
             S == Listing
  <2>4. k \in Nat /\ k > Top(e)
    BY <2>3
  <2> HIDE DEF e, x, r, k, S
  <2>5. CountIn(Append(e, x), k, S) =
          CountIn(e, k, S) + IF k = Top(Append(e, x)) /\ x \in S THEN 1 ELSE 0
    <3>1. e \in Seq(RuleNames) /\ x \in RuleNames
      BY <2>1
    <3> QED BY ONLY <3>1, CountPush
  <2>6. CountIn(e, k, S) = 0
    BY <2>1, <2>4, CountAbove
  <2> QED BY <2>1, <2>2, <2>5, <2>6 DEF k, S
<1> HIDE DEF g, lists, p
<1>4. Len(Here.ps) = 1 /\ Here.ps[1] = p /\ Here.scopes[1] = g
  BY <1>1
<1> HIDE DEF r
<1>5. RootPart(p, g, Here.nodes, quirks)
  BY <1>2 DEF RootPart, RootTypes, RootData, RootNames, RootEnds
<1>6. ScopeRoutes(p, g.defs) /\ ScopeLists(p, quirks, rules, 1)
  BY <1>1, <1>2, <1>3 DEF ScopeRoutes, ScopeLists
<1>7. More(Here, quirks, rules)
  <2>1. \A k \in 1 .. Len(Here.ps) : k = 1
    BY <1>4
  <2> QED BY <1>4, <1>5, <1>6, <2>1 DEF More
<1> QED BY <1>1, <1>7, NoCause DEF ParseIsSound

LEMMA ParseSounds ==
  ASSUME Good(Here, quirks), More(Here, quirks, rules), outcome = "parsing", ParseNext
  PROVE  \E s : Become(s) /\ Sound(s, quirks', s.rules)
<1>1. CASE Statement
  <2>1. CASE NodeStart
    BY <2>1, NodeStartSound
  <2>2. CASE NodeField
    BY <2>2, NodeFieldSound
  <2>3. CASE ScriptInterface
    BY <2>3, ScriptInterfaceSound
  <2>4. CASE Use
    BY <2>4, UseSound
  <2>5. CASE Null
    BY <2>5, ValueSound
  <2>6. CASE RouteStatement
    BY <2>6, RouteSound
  <2>7. CASE ProtoStart
    BY <2>7, ProtoStartSound
  <2>8. CASE ProtoInterface
    BY <2>8, ProtoInterfaceSound
  <2>9. CASE Externproto
    BY <2>9, ExternprotoSound
  <2> QED BY <1>1, <2>1, <2>2, <2>3, <2>4, <2>5, <2>6, <2>7, <2>8, <2>9 DEF Statement
<1>2. CASE Bracket
  <2>1. CASE NodeEnd
    BY <2>1, NodeEndSound
  <2>2. CASE ListStart \/ ListEnd
    BY <2>2, ValueSound
  <2>3. CASE ProtoBody
    BY <2>3, ProtoBodySound
  <2>4. CASE ProtoEnd
    BY <2>4, ProtoEndSound
  <2> QED BY <1>2, <2>1, <2>2, <2>3, <2>4 DEF Bracket
<1>3. CASE SceneEnd
  BY <1>3, SceneEndSound
<1>4. CASE ParseError
  BY <1>4, ParseErrorSound
<1>5. CASE BodyLeftOpen
  BY <1>5, BodyLeftOpenSound
<1> QED BY <1>1, <1>2, <1>3, <1>4, <1>5 DEF ParseNext

\* A step that hands its changes over, one after the other, keeps the parse sound.
LEMMA BecomeSound ==
  ASSUME NEW s, NEW Q, Become(s), Sound(s, Q, s.rules)
  PROVE  (outcome' = "parsing" => More(Here', Q, rules')) /\ Causes(outcome', Q)
<1>1. CASE s.fault = "exception"
  <2>1. outcome' = Recovered(s).fault
    BY <1>1 DEF Become, Parsed
  <2>2. Broken(s, Q)
    BY <1>1 DEF Sound
  <2>3. Recovered(s).fault # "parsing"
    BY <2>2, RecoveredIsOver DEF Broken
  <2>4. Causes(Recovered(s).fault, Q)
    BY <2>2, RecoveredHasCause
  <2> QED BY <2>1, <2>3, <2>4
<1>2. CASE s.fault # "exception"
  <2>1. /\ rules' = s.rules /\ scopes' = s.scopes /\ ps' = s.ps
        /\ nodes' = s.nodes /\ outcome' = s.fault
    BY <1>2 DEF Become, Parsed
  <2>2. Causes(outcome', Q)
    BY <2>1 DEF Sound
  <2>3. ASSUME outcome' = "parsing" PROVE More(Here', Q, rules')
    <3>1. More(s, Q, s.rules)
      BY <2>1, <2>3 DEF Sound
    <3>2. Here'.ps = s.ps /\ Here'.scopes = s.scopes /\ Here'.nodes = s.nodes
      BY <2>1 DEF Here
    <3> QED BY <2>1, <3>1, <3>2 DEF More
  <2> QED BY <2>2, <2>3
<1> QED BY <1>1, <1>2

LEMMA ParseIsSoundStep == ParseIsGood /\ ParseIsSound /\ [ParseNext]_paVars => ParseIsSound'
<1> SUFFICES ASSUME ParseIsGood, ParseIsSound, [ParseNext]_paVars PROVE ParseIsSound'
  OBVIOUS
<1>1. CASE ParseNext
  <2>1. outcome = "parsing"
    BY <1>1 DEF ParseNext, Statement, Read, Bracket, SceneEnd, ParseError, BodyLeftOpen
  <2>2. Good(Here, quirks) /\ More(Here, quirks, rules)
    BY <2>1 DEF ParseIsGood, ParseIsSound
  <2>3. PICK s : Become(s) /\ Sound(s, quirks', s.rules)
    BY <1>1, <2>1, <2>2, ParseSounds
  <2>4. PICK Q : Q = quirks'
    OBVIOUS
  <2>5. Become(s) /\ Sound(s, Q, s.rules)
    BY <2>3, <2>4
  <2>6. (outcome' = "parsing" => More(Here', Q, rules')) /\ Causes(outcome', Q)
    BY <2>5, BecomeSound
  <2> QED BY <2>4, <2>6 DEF ParseIsSound
<1>2. CASE UNCHANGED paVars
  <2>1. /\ rules' = rules /\ scopes' = scopes /\ ps' = ps /\ nodes' = nodes /\ result' = result
        /\ outcome' = outcome /\ quirks' = quirks
    BY <1>2 DEF paVars, parser
  <2>2. Here' = Here
    BY <2>1 DEF Here
  <2> QED BY <2>1, <2>2 DEF ParseIsSound
<1> QED BY <1>1, <1>2

(* What stops a parse is something in the file that the code does not      *)
(* expect there, of a kind that goes with the assertion, or the throw from *)
(* a destructor, that it is stopped by (parse_vrml.h 92-156, 1070-1140,    *)
(* vrml97_grammar.h 1238-1300); the nodes of a ROUTE are always found      *)
(* (parse_vrml.h 920).                                                     *)
THEOREM ParseFaultCauses == ParseSpec => []ParseFaultsHaveCauses
<1>1. ParseIsSound => ParseFaultsHaveCauses
  BY DEF ParseIsSound, Causes, ParseFaultsHaveCauses
<1> QED BY <1>1, SoundStarts, ParseIsSoundStep, ParseIsInOrder, PTL DEF ParseSpec
===============================================================================
