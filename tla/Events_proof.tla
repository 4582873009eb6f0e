----------------------------- MODULE Events_proof -----------------------------
(***************************************************************************)
(* The event mechanism, for every clock, every set of nodes, every world   *)
(* of routes and every body of a PROTO: an instance of a PROTO, whose      *)
(* events reach the body and come back out of it, if none overtakes them;  *)
(* a TimeSensor, whose listeners may set its fields; and what the Scripts' *)
(* code can do to the events (direct output is sent by the call that       *)
(* queued it; an eventOut is sent unless its own events come back to the   *)
(* Script; and in a world whose calls do not loop the thread neither       *)
(* overflows its stack nor uses an invalid iterator).                      *)
(***************************************************************************)
EXTENDS ProtoInstance, TimeSensor, ScriptEvents, SequenceLemmas, FiniteSetTheorems

-----------------------------------------------------------------------------
(* The instance of a PROTO.                                                *)

LEMMA SameNodeAt ==
  ASSUME proto' = proto, NEW p
  PROVE  NodeAt(p)' = NodeAt(p)
BY DEF NodeAt, Children

LEMMA SameCloned ==
  ASSUME proto' = proto
  PROVE  Cloned' = Cloned
<1>1. Indices' = Indices
  BY DEF Indices, Children
<1> QED BY <1>1, SameNodeAt DEF Cloned, Visited, IsSelf

(* The bodies are lists, so that the search has finitely many places.      *)
LEMMA FinitelyManyIndices ==
  ASSUME proto \in Definitions
  PROVE  IsFiniteSet(Indices) /\ Indices \subseteq Nat
<1> DEFINE Owners == Nodes \cup {Body}
           lists == {DOMAIN Children(n) : n \in Owners}
<1>1. ASSUME NEW n \in Owners
      PROVE  IsFiniteSet(DOMAIN Children(n)) /\ DOMAIN Children(n) \subseteq Nat
  <2>1. proto.body.fields[n] \in Seq(Nodes)
    BY ProtoInstanceAssumption DEF Definitions
  <2>2. Children(n) \in Seq(Nodes)
    BY <2>1, EmptySeq DEF Children
  <2>3. PICK s \in Seq(Nodes) : s = Children(n)
    BY <2>2
  <2>4. DOMAIN s = 1 .. Len(s) /\ Len(s) \in Nat
    BY LenProperties
  <2>5. IsFiniteSet(1 .. Len(s))
    BY <2>4, FS_Interval
  <2> QED BY <2>3, <2>4, <2>5
<1>2. IsFiniteSet(Owners)
  BY ProtoInstanceAssumption, FS_AddElement
<1>3. IsFiniteSet(lists)
  <2> DEFINE f == [n \in Owners |-> DOMAIN Children(n)]
  <2>1. f \in Surjection(Owners, lists)
    BY DEF Surjection
  <2> QED BY <1>2, <2>1, FS_Surjection
<1>4. \A T \in lists : IsFiniteSet(T)
  BY <1>1
<1>5. IsFiniteSet(UNION lists)
  BY <1>3, <1>4, FS_UNION
<1> QED BY <1>1, <1>5 DEF Indices

LEMMA FinitelyManyPaths ==
  ASSUME proto \in Definitions
  PROVE  IsFiniteSet(BoundedSeq(Indices, MaxPath))
<1> DEFINE I == Indices
           Paths(m) == [1 .. m -> I]
<1>1. MaxPath \in Nat /\ IsFiniteSet(I)
  BY ProtoInstanceAssumption, FinitelyManyIndices
<1> HIDE DEF I
<1>2. ASSUME NEW m \in Nat PROVE IsFiniteSet(Paths(m))
  <2> DEFINE Pairs(f) == {x \in (1 .. m) \X I : f[x[1]] = x[2]}
             graph == [f \in Paths(m) |-> Pairs(f)]
  <2>0. IsFiniteSet(1 .. m)
    BY FS_Interval
  <2>1. IsFiniteSet(SUBSET ((1 .. m) \X I))
    BY <1>1, <2>0, FS_Product, FS_SUBSET
  <2>2. ASSUME NEW f \in Paths(m), NEW g \in Paths(m), Pairs(f) = Pairs(g) PROVE f = g
    <3>1. ASSUME NEW i \in 1 .. m PROVE f[i] = g[i]
      <4>1. <<i, f[i]>> \in Pairs(f)
        OBVIOUS
      <4>2. <<i, f[i]>> \in Pairs(g)
        BY <2>2, <4>1
      <4> QED BY <4>2
    <3> QED BY <3>1
  <2>3. graph \in Injection(Paths(m), SUBSET ((1 .. m) \X I))
    <3>1. graph \in [Paths(m) -> SUBSET ((1 .. m) \X I)]
      OBVIOUS
    <3> QED BY <3>1, <2>2 DEF Injection, IsInjective
  <2> QED BY <2>1, <2>3, FS_Injection
<1> DEFINE sets == {Paths(m) : m \in 0 .. MaxPath}
<1>3. IsFiniteSet(sets)
  <2>1. IsFiniteSet(0 .. MaxPath)
    BY <1>1, FS_Interval
  <2> DEFINE f == [m \in 0 .. MaxPath |-> Paths(m)]
  <2>2. f \in Surjection(0 .. MaxPath, sets)
    BY DEF Surjection
  <2> QED BY <2>1, <2>2, FS_Surjection
<1>4. \A T \in sets : IsFiniteSet(T)
  BY <1>1, <1>2
<1>5. IsFiniteSet(UNION sets)
  BY <1>3, <1>4, FS_UNION
<1> QED BY <1>5 DEF BoundedSeq, SeqOf, I

-----------------------------------------------------------------------------
(***************************************************************************)
(* The order of the paths.  Branch is where the second path leaves the     *)
(* first, for a later one or deeper.                                       *)
(***************************************************************************)
Path == Seq(Nat)

Branch(p, q, k) ==
  /\ k \in 1 .. Len(q) /\ k <= Len(p) + 1
  /\ \A j \in 1 .. (k - 1) : p[j] = q[j]
  /\ k = Len(p) + 1 \/ p[k] < q[k]

LEMMA SameStart ==
  ASSUME NEW p \in Path, NEW q \in Path, NEW k \in Nat, k <= Len(p), k <= Len(q)
  PROVE  SubSeq(p, 1, k) = SubSeq(q, 1, k) <=> \A j \in 1 .. k : p[j] = q[j]
<1> DEFINE a == SubSeq(p, 1, k)
           b == SubSeq(q, 1, k)
<1>0. Len(p) \in Nat /\ Len(q) \in Nat /\ p \in Seq(Nat) /\ q \in Seq(Nat)
  BY LenProperties DEF Path
<1>1. /\ \A j \in 1 .. k : p[j] \in Nat
      /\ \A j \in 1 .. k : q[j] \in Nat
  BY <1>0, ElementOfSeq
<1>2. k - 1 + 1 = k /\ \A j \in 1 .. k : 1 + j - 1 = j
  OBVIOUS
<1>3. /\ a \in Seq(Nat)
      /\ Len(a) = IF 1 <= k THEN k - 1 + 1 ELSE 0
      /\ \A j \in 1 .. (k - 1 + 1) : a[j] = p[1 + j - 1]
  BY <1>0, <1>1, SubSeqProperties
<1>4. /\ b \in Seq(Nat)
      /\ Len(b) = IF 1 <= k THEN k - 1 + 1 ELSE 0
      /\ \A j \in 1 .. (k - 1 + 1) : b[j] = q[1 + j - 1]
  BY <1>0, <1>1, SubSeqProperties
<1> HIDE DEF a, b
<1>5. /\ Len(a) = k /\ Len(b) = k
      /\ \A j \in 1 .. k : a[j] = p[j] /\ b[j] = q[j]
  BY <1>2, <1>3, <1>4
<1>6. a = b <=> \A j \in 1 .. k : a[j] = b[j]
  BY <1>3, <1>4, <1>5, SeqEqual
<1> QED BY <1>5, <1>6 DEF a, b

LEMMA BeforeBranches ==
  ASSUME NEW p \in Path, NEW q \in Path
  PROVE  Before(p, q) <=> \E k \in Nat : Branch(p, q, k)
<1>0. /\ Len(p) \in Nat /\ Len(q) \in Nat
      /\ DOMAIN p = 1 .. Len(p) /\ DOMAIN q = 1 .. Len(q)
      /\ p \in Seq(Nat) /\ q \in Seq(Nat)
  BY LenProperties DEF Path
<1>1. \A j \in 1 .. Len(p) : p[j] \in Nat
  BY <1>0, ElementOfSeq
<1>2. IsStrictPrefix(p, q) <=> Branch(p, q, Len(p) + 1)
  <2>1. ASSUME Len(p) <= Len(q)
        PROVE  SubSeq(p, 1, Len(p)) = SubSeq(q, 1, Len(p)) <=>
                 \A j \in 1 .. Len(p) : p[j] = q[j]
    BY <1>0, <2>1, SameStart
  <2>2. p = q <=> Len(p) = Len(q) /\ \A j \in 1 .. Len(p) : p[j] = q[j]
    <3>1. ASSUME Len(p) = Len(q), \A j \in 1 .. Len(p) : p[j] = q[j] PROVE p = q
      BY <1>0, <3>1, SeqEqual
    <3> QED BY <3>1
  <2>3. Len(p) + 1 - 1 = Len(p)
    BY <1>0
  <2>4. IsStrictPrefix(p, q) <=>
          Len(p) <= Len(q) /\ Len(p) # Len(q) /\ \A j \in 1 .. Len(p) : p[j] = q[j]
    BY <2>1, <2>2 DEF IsStrictPrefix, IsPrefix
  <2>5. Len(p) <= Len(q) /\ Len(p) # Len(q) <=> Len(p) + 1 \in 1 .. Len(q)
    <3>1. \A a, b \in Nat : a <= b /\ a # b <=> a + 1 \in 1 .. b
      OBVIOUS
    <3> QED BY <3>1, <1>0
  <2>6. Branch(p, q, Len(p) + 1) <=>
          Len(p) + 1 \in 1 .. Len(q) /\ \A j \in 1 .. Len(p) : p[j] = q[j]
    BY <2>3, <1>0 DEF Branch
  <2> QED BY <2>4, <2>5, <2>6
<1>3. ASSUME NEW k \in DOMAIN p \cap DOMAIN q
      PROVE  p[k] < q[k] /\ SubSeq(p, 1, k - 1) = SubSeq(q, 1, k - 1) <=> Branch(p, q, k)
  <2>1. /\ k - 1 \in Nat /\ k - 1 <= Len(p) /\ k - 1 <= Len(q)
        /\ k \in 1 .. Len(q) /\ k <= Len(p) + 1 /\ k # Len(p) + 1
    BY <1>0
  <2>2. SubSeq(p, 1, k - 1) = SubSeq(q, 1, k - 1) <=> \A j \in 1 .. (k - 1) : p[j] = q[j]
    BY <2>1, SameStart
  <2> QED BY <2>1, <2>2 DEF Branch
<1>4. ASSUME NEW k \in Nat, Branch(p, q, k)
      PROVE  k = Len(p) + 1 \/ k \in DOMAIN p \cap DOMAIN q
  BY <1>0, <1>4 DEF Branch
<1>5. Len(p) + 1 \in Nat /\ DOMAIN p \cap DOMAIN q \subseteq Nat
  BY <1>0
<1> QED BY <1>2, <1>3, <1>4, <1>5 DEF Before

LEMMA BeforeIsTransitive ==
  ASSUME NEW p \in Path, NEW q \in Path, NEW r \in Path, Before(p, q), Before(q, r)
  PROVE  Before(p, r)
<1>0. /\ Len(p) \in Nat /\ Len(q) \in Nat /\ Len(r) \in Nat
      /\ \A j \in 1 .. Len(p) : p[j] \in Nat
      /\ \A j \in 1 .. Len(q) : q[j] \in Nat
      /\ \A j \in 1 .. Len(r) : r[j] \in Nat
  BY LenProperties, ElementOfSeq DEF Path
<1>1. PICK k \in Nat : Branch(p, q, k)
  BY BeforeBranches
<1>2. PICK l \in Nat : Branch(q, r, l)
  BY BeforeBranches
<1>3. CASE k < l
  <2>1. k \in 1 .. (l - 1) /\ \A j \in 1 .. (k - 1) : j \in 1 .. (l - 1)
    BY <1>1, <1>3 DEF Branch
  <2>2. Branch(p, r, k)
    BY <1>0, <1>1, <1>2, <1>3, <2>1 DEF Branch
  <2> QED BY <2>2, BeforeBranches
<1>4. CASE l < k
  <2>1. l \in 1 .. (k - 1) /\ \A j \in 1 .. (l - 1) : j \in 1 .. (k - 1)
    BY <1>2, <1>4 DEF Branch
  <2>2. l # Len(q) + 1 /\ l <= Len(p) + 1 /\ p[l] = q[l]
    BY <1>0, <1>1, <1>4, <2>1 DEF Branch
  <2>3. Branch(p, r, l)
    BY <1>0, <1>1, <1>2, <2>1, <2>2 DEF Branch
  <2> QED BY <2>3, BeforeBranches
<1>5. CASE k = l
  <2>1. k \in 1 .. Len(q) /\ k \in 1 .. Len(r) /\ q[k] < r[k]
    BY <1>0, <1>1, <1>2, <1>5 DEF Branch
  <2>2. \A j \in 1 .. (k - 1) : p[j] = r[j]
    BY <1>1, <1>2, <1>5 DEF Branch
  <2>3. k <= Len(p) + 1 /\ (k = Len(p) + 1 \/ p[k] < r[k])
    BY <1>0, <1>1, <2>1 DEF Branch
  <2>4. Branch(p, r, k)
    BY <2>1, <2>2, <2>3 DEF Branch
  <2> QED BY <2>4, BeforeBranches
<1> QED BY <1>3, <1>4, <1>5

LEMMA BeforeIsTotal ==
  ASSUME NEW p \in Path, NEW q \in Path, p # q
  PROVE  Before(p, q) \/ Before(q, p)
<1>0. /\ Len(p) \in Nat /\ Len(q) \in Nat
      /\ \A j \in 1 .. Len(p) : p[j] \in Nat
      /\ \A j \in 1 .. Len(q) : q[j] \in Nat
  BY LenProperties, ElementOfSeq DEF Path
<1> DEFINE D == {j \in 1 .. Len(p) : j <= Len(q) /\ p[j] # q[j]}
<1>1. CASE D = {}
  <2>1. Len(p) # Len(q)
    <3>1. SUFFICES ASSUME Len(p) = Len(q) PROVE FALSE
      OBVIOUS
    <3>2. \A j \in 1 .. Len(p) : p[j] = q[j]
      BY <1>0, <1>1, <3>1
    <3> QED BY <3>1, <3>2, SeqEqual DEF Path
  <2>2. CASE Len(p) < Len(q)
    <3>1. Branch(p, q, Len(p) + 1)
      BY <1>0, <1>1, <2>2 DEF Branch
    <3> QED BY <3>1, <1>0, BeforeBranches
  <2>3. CASE Len(q) < Len(p)
    <3>1. Branch(q, p, Len(q) + 1)
      BY <1>0, <1>1, <2>3 DEF Branch
    <3> QED BY <3>1, <1>0, BeforeBranches
  <2> QED BY <1>0, <2>1, <2>2, <2>3
<1>2. CASE D # {}
  <2>1. D \subseteq Nat
    OBVIOUS
  <2>2. PICK k \in D : \A j \in D : k <= j
    BY <1>2, <2>1, LeastElement
  <2>3. ASSUME NEW j \in 1 .. (k - 1) PROVE p[j] = q[j]
    <3>1. j \notin D /\ j \in 1 .. Len(p) /\ j <= Len(q)
      BY <1>0, <2>2
    <3> QED BY <3>1
  <2>4. p[k] \in Nat /\ q[k] \in Nat /\ p[k] # q[k] /\ k \in 1 .. Len(p) /\ k \in 1 .. Len(q)
    BY <1>0, <2>2
  <2>5. Branch(p, q, k) \/ Branch(q, p, k)
    BY <1>0, <2>3, <2>4 DEF Branch
  <2> QED BY <2>4, <2>5, BeforeBranches
<1> QED BY <1>1, <1>2

(* A finite set of paths has a first one: a smallest set without would     *)
(* have one when it loses any of its paths.                                *)
LEMMA FirstOfPaths ==
  ASSUME NEW T, T \subseteq Path, IsFiniteSet(T), T # {}
  PROVE  \E p \in T : \A q \in T \ {p} : Before(p, q)
<1> DEFINE HasFirst(X) == \E p \in X : \A q \in X \ {p} : Before(p, q)
           Bad == {X \in SUBSET T : X # {} /\ ~HasFirst(X)}
           sizes == {Cardinality(X) : X \in Bad}
<1>1. \A X \in SUBSET T : IsFiniteSet(X) /\ Cardinality(X) \in Nat
  BY FS_Subset, FS_CardinalityType
<1>2. SUFFICES ASSUME Bad # {} PROVE FALSE
  BY <1>1
<1>3. sizes \subseteq Nat /\ sizes # {}
  BY <1>1, <1>2
<1>4. PICK c \in sizes : \A d \in sizes : c <= d
  BY <1>3, LeastElement
<1>5. PICK X \in Bad : Cardinality(X) = c
  BY <1>4
<1>6. PICK x : x \in X
  BY <1>5
<1> DEFINE Y == X \ {x}
<1>7. Y \in SUBSET T /\ Cardinality(Y) = Cardinality(X) - 1 /\ Cardinality(X) \in Nat
  BY <1>1, <1>5, <1>6, FS_RemoveElement
<1>8. Y \notin Bad
  <2>1. SUFFICES ASSUME Y \in Bad PROVE FALSE
    OBVIOUS
  <2>2. Cardinality(Y) \in sizes
    BY <2>1
  <2>3. c <= Cardinality(Y)
    BY <2>2, <1>4
  <2> QED BY <2>3, <1>5, <1>7
<1>9. Y # {}
  <2>1. SUFFICES ASSUME Y = {} PROVE FALSE
    OBVIOUS
  <2>2. X \ {x} = {}
    BY <2>1
  <2>3. HasFirst(X)
    BY <1>6, <2>2
  <2> QED BY <2>3, <1>5
<1>10. HasFirst(Y)
  BY <1>7, <1>8, <1>9
<1>11. PICK y \in Y : \A q \in Y \ {y} : Before(y, q)
  BY <1>10
<1>12. X \subseteq Path /\ x \in Path /\ y \in Path /\ x # y /\ y \in X
  BY <1>5, <1>6, <1>11
<1>13. CASE Before(x, y)
  <2>1. ASSUME NEW q \in X \ {x} PROVE Before(x, q)
    BY <1>11, <1>12, <1>13, BeforeIsTransitive
  <2>2. HasFirst(X)
    BY <1>6, <2>1
  <2> QED BY <2>2, <1>5
<1>14. CASE Before(y, x)
  <2>1. ASSUME NEW q \in X \ {y} PROVE Before(y, q)
    BY <1>11, <1>14
  <2>2. HasFirst(X)
    BY <1>12, <2>1
  <2> QED BY <2>2, <1>5
<1> QED BY <1>12, <1>13, <1>14, BeforeIsTotal

LEMMA BoundedPaths ==
  ASSUME proto \in Definitions
  PROVE  BoundedSeq(Indices, MaxPath) \subseteq Path
<1>1. ASSUME NEW m \in Nat, NEW p \in [1 .. m -> Indices] PROVE p \in Path
  <2>1. p \in [1 .. m -> Nat]
    BY FinitelyManyIndices
  <2> QED BY <2>1, IsASeq DEF Path
<1> QED BY <1>1, ProtoInstanceAssumption DEF BoundedSeq, SeqOf

LEMMA ClonedPaths ==
  ASSUME proto \in Definitions
  PROVE  /\ Cloned \subseteq Path
         /\ IsFiniteSet(Cloned)
<1>1. Cloned \subseteq BoundedSeq(Indices, MaxPath)
  BY DEF Cloned, Visited
<1> QED BY <1>1, BoundedPaths, FinitelyManyPaths, FS_Subset

(***************************************************************************)
(* get_path and resolve_node_path find a clone of each node that has one,  *)
(* in whatever order the nodes are in each other's fields.                 *)
(***************************************************************************)
LEMMA ResolveFindsAClone ==
  ASSUME proto \in Definitions, NEW n, PathsTo(n) # {}
  PROVE  Resolve(n) \in Cloned /\ NodeAt(Resolve(n)) = n
<1>1. PathsTo(n) \subseteq Path /\ IsFiniteSet(PathsTo(n))
  <2>1. PathsTo(n) \subseteq Cloned
    BY DEF PathsTo
  <2> QED BY <2>1, ClonedPaths, FS_Subset
<1>2. \E p \in PathsTo(n) : \A q \in PathsTo(n) \ {p} : Before(p, q)
  BY <1>1, FirstOfPaths
<1>3. Resolve(n) \in PathsTo(n)
  BY <1>2 DEF Resolve
<1> QED BY <1>3 DEF PathsTo

(* The only clone of a node is the one they find. *)
LEMMA ResolveFindsTheClone ==
  ASSUME proto \in Definitions, NEW p \in Cloned, ~Shared(NodeAt(p))
  PROVE  Resolve(NodeAt(p)) = p
<1> DEFINE n == NodeAt(p)
<1>1. PathsTo(n) \in SUBSET Cloned /\ p \in PathsTo(n)
  BY DEF PathsTo
<1>2. IsFiniteSet(PathsTo(n)) /\ Cardinality(PathsTo(n)) \in Nat
  BY <1>1, ClonedPaths, FS_Subset, FS_CardinalityType
<1>3. ~(Cardinality(PathsTo(n)) > 1)
  BY DEF Shared, PathsTo
<1>4. Cardinality(PathsTo(n)) # 0
  BY <1>1, <1>2, FS_EmptySet
<1>5. PathsTo(n) = {p}
  BY <1>1, <1>2, <1>3, <1>4, FS_Singleton
<1>6. Resolve(n) \in PathsTo(n)
  BY <1>1, ResolveFindsAClone DEF PathsTo
<1> QED BY <1>5, <1>6

-----------------------------------------------------------------------------
(***************************************************************************)
(* What the definition made of the instance: the clone that stands for     *)
(* each node that a route or an IS names.                                  *)
(***************************************************************************)
Wired ==
  /\ \A n \in NodesNamed : PathsTo(n) # {}
  /\ clones = Cloned
  /\ wires = [routes |-> {<<Resolve(r[1]), Resolve(r[2])>> : r \in proto.body.routes},
              ins |-> {Resolve(n) : n \in proto.ins},
              outs |-> {Resolve(n) : n \in proto.outs}]
  /\ ~IsEventOut(proto.kind) => wires.outs = wires.ins

ListenersHere == {End("world"), End("out"), End("in")} \cup {Clone(p) : p \in clones}

(* The listeners of a clone, of the eventOut and of the eventIn. *)
CloneTodo(p) ==
  {Clone(r[2]) : r \in {q \in wires.routes : q[1] = p}}
    \cup (IF p \in wires.outs THEN {End("out")} ELSE {})
OutTodo == {End("world")} \cup (IF proto.feedback THEN {End("in")} ELSE {})
InTodo == {Clone(p) : p \in wires.ins}

FromClone(f) ==
  /\ f.op = "emit"
  /\ \E p \in clones : f.from = Clone(p) /\ f.todo \subseteq CloneTodo(p)
FromOut(f) == f.op = "emit" /\ f.from = End("out") /\ f.todo \subseteq OutTodo
Passing(f) ==
  /\ f.op = "in" /\ f.todo \subseteq InTodo
  /\ f.from = End("out") \/ (f.from = End("world") /\ f.v \in Values)

Frames ==
  {f \in [op : {"emit", "in"}, from : ListenersHere, v : Values \cup {NoValue},
          at : 1 .. LastStamp, event : 1 .. MaxEvents, todo : SUBSET ListenersHere] :
     FromClone(f) \/ FromOut(f) \/ Passing(f)}

InstanceTypes ==
  /\ proto \in Definitions
  /\ made \in BOOLEAN /\ late \in BOOLEAN /\ overtaken \in BOOLEAN
  /\ value \in [clones -> Values]
  /\ outValue \in Values /\ heard \in Values \cup {NoValue} /\ lastIn \in Values \cup {NoValue}
  /\ outTime \in 0 .. LastStamp
  /\ events \in 0 .. MaxEvents
  /\ calls \in Seq(Frames)
  /\ made => Wired
  /\ ~made => /\ heard = NoValue /\ lastIn = NoValue /\ calls = << >> /\ clones = {}
              /\ wires = [routes |-> {}, ins |-> {}, outs |-> {}]

(* What has not got to where it goes is on its way. *)
Pending(l) == \E i \in DOMAIN calls : l \in calls[i].todo

SingleOut == Cardinality(wires.outs) = 1

(* Whatever overtakes what. *)
HeardInv == heard # NoValue => heard = outValue \/ Pending(End("world"))
OutInv ==
  IsEventOut(proto.kind) /\ SingleOut /\ ~late =>
    \A p \in wires.outs : value[p] = outValue \/ Pending(End("out"))

(* As long as nothing has overtaken the last event, all calls send one     *)
(* value, and the nodes behind the eventIn have it or are still to be sent *)
(* it.                                                                     *)
Arrives(i) ==
  calls[i].op = "in" => \A p \in wires.ins : value[p] = Sent(calls[i]) \/ Clone(p) \in calls[i].todo
OneValue == \A i, j \in DOMAIN calls : Sent(calls[i]) = Sent(calls[j])
FieldInv ==
  ~IsEventOut(proto.kind) /\ SingleOut /\ ~late =>
    \A p \in wires.outs : \/ value[p] = outValue \/ Pending(End("out"))
                         \/ \E i \in DOMAIN calls : calls[i].op = "in"
InInv ==
  lastIn # NoValue =>
    /\ \A i \in DOMAIN calls : Sent(calls[i]) = lastIn
    /\ \A p \in wires.ins : value[p] = lastIn \/ Pending(Clone(p))

NotOvertaken == /\ \A i \in DOMAIN calls : Arrives(i)
               /\ OneValue /\ FieldInv /\ InInv

InstanceInv ==
  /\ InstanceTypes
  /\ HeardInv /\ OutInv
  /\ ~overtaken => NotOvertaken

LEMMA SameResolve ==
  ASSUME proto' = proto, NEW n
  PROVE  PathsTo(n)' = PathsTo(n) /\ Resolve(n)' = Resolve(n)
<1>1. PathsTo(n)' = PathsTo(n)
  BY SameCloned, SameNodeAt DEF PathsTo
<1>2. Resolve(n)' = Resolve(n)
  BY <1>1 DEF Resolve
<1> QED BY <1>1, <1>2

LEMMA SameInstance ==
  ASSUME UNCHANGED <<proto, instance>>
  PROVE  /\ Wired' <=> Wired
         /\ Frames' = Frames /\ ListenersHere' = ListenersHere
         /\ made' = made /\ clones' = clones /\ wires' = wires /\ proto' = proto
<1>1. proto' = proto /\ made' = made /\ clones' = clones /\ wires' = wires
  BY DEF instance
<1>2. Cloned' = Cloned
  BY <1>1, SameCloned
<1>3. Wired' <=> Wired
  BY <1>1, <1>2, SameResolve DEF Wired, NodesNamed, IsEventOut
<1>4. ListenersHere' = ListenersHere
  BY <1>1 DEF ListenersHere, End, Clone
<1>5. /\ \A p : CloneTodo(p)' = CloneTodo(p)
      /\ OutTodo' = OutTodo /\ InTodo' = InTodo
  BY <1>1 DEF CloneTodo, OutTodo, InTodo, End, Clone
<1>6. ASSUME NEW f
      PROVE  /\ FromClone(f)' <=> FromClone(f)
             /\ FromOut(f)' <=> FromOut(f)
             /\ Passing(f)' <=> Passing(f)
  BY <1>1, <1>5 DEF FromClone, FromOut, Passing, Clone, End
<1>7. Frames' = Frames
  BY <1>4, <1>6 DEF Frames
<1> QED BY <1>1, <1>3, <1>4, <1>7

LEMMA WiresTyped ==
  ASSUME proto \in Definitions, Wired
  PROVE  /\ wires.ins \subseteq clones /\ wires.outs \subseteq clones
         /\ wires.routes \subseteq clones \X clones
         /\ SingleOut => \E q \in clones : wires.outs = {q}
<1>1. \A n \in NodesNamed : Resolve(n) \in clones
  BY ResolveFindsAClone DEF Wired
<1>2. wires.ins \subseteq clones /\ wires.outs \subseteq clones
  BY <1>1 DEF Wired, NodesNamed
<1>3. wires.routes \subseteq clones \X clones
  <2>1. \A r \in proto.body.routes : Resolve(r[1]) \in clones /\ Resolve(r[2]) \in clones
    BY <1>1 DEF NodesNamed
  <2> QED BY <2>1 DEF Wired
<1>4. IsFiniteSet(wires.outs)
  BY <1>2, ClonedPaths, FS_Subset DEF Wired
<1> QED BY <1>2, <1>3, <1>4, FS_Singleton DEF SingleOut

(* The innermost call, and the calls once it has taken a listener, which   *)
(* may call in its turn.                                                   *)
LEMMA FrameTyped ==
  ASSUME InstanceTypes, calls # << >>
  PROVE  /\ made /\ Wired
         /\ Len(calls) \in Nat \ {0} /\ DOMAIN calls = 1 .. Len(calls)
         /\ Len(calls) \in DOMAIN calls
         /\ Frame = calls[Len(calls)] /\ Frame \in Frames
         /\ \A i \in DOMAIN calls : calls[i] \in Frames
         /\ Under \in Seq(Frames) /\ Len(Under) = Len(calls) - 1
         /\ \A i \in 1 .. (Len(calls) - 1) : Under[i] = calls[i]
<1>1. calls \in Seq(Frames) /\ made /\ Wired
  BY DEF InstanceTypes
<1>2. Len(calls) \in Nat \ {0} /\ DOMAIN calls = 1 .. Len(calls) /\ Len(calls) \in DOMAIN calls
  BY <1>1, LenProperties, EmptySeq, LastProperties
<1>3. \A i \in DOMAIN calls : calls[i] \in Frames
  BY <1>1, <1>2, ElementOfSeq
<1>4. /\ Under \in Seq(Frames) /\ Len(Under) = Len(calls) - 1
      /\ \A i \in 1 .. (Len(calls) - 1) : Under[i] = calls[i]
  BY <1>1, FrontProperties DEF Under
<1> QED BY <1>1, <1>2, <1>3, <1>4 DEF Frame

LEMMA TopReplaced ==
  ASSUME InstanceTypes, calls # << >>, NEW f \in Frames
  PROVE  /\ Append(Under, f) \in Seq(Frames) /\ Len(Append(Under, f)) = Len(calls)
         /\ DOMAIN Append(Under, f) = 1 .. Len(calls)
         /\ \A i \in 1 .. (Len(calls) - 1) : Append(Under, f)[i] = calls[i]
         /\ Append(Under, f)[Len(calls)] = f
<1> DEFINE c == Append(Under, f)
<1>1. /\ Len(calls) \in Nat \ {0}
      /\ Under \in Seq(Frames) /\ Len(Under) = Len(calls) - 1
      /\ \A i \in 1 .. (Len(calls) - 1) : Under[i] = calls[i]
  BY FrameTyped
<1>2. /\ c \in Seq(Frames) /\ Len(c) = Len(Under) + 1
      /\ \A i \in 1 .. Len(Under) : c[i] = Under[i]
      /\ c[Len(Under) + 1] = f
  BY <1>1, AppendProperties
<1> HIDE DEF c
<1>3. Len(calls) - 1 + 1 = Len(calls)
  BY <1>1
<1>4. DOMAIN c = 1 .. Len(c)
  BY <1>2, LenProperties
<1> QED BY <1>1, <1>2, <1>3, <1>4 DEF c

LEMMA CalledAgain ==
  ASSUME InstanceTypes, calls # << >>, NEW caller \in Frames, NEW f \in Frames
  PROVE  /\ Calling(caller, f) \in Seq(Frames)
         /\ DOMAIN Calling(caller, f) = 1 .. (Len(calls) + 1)
         /\ \A i \in 1 .. (Len(calls) - 1) : Calling(caller, f)[i] = calls[i]
         /\ Calling(caller, f)[Len(calls)] = caller
         /\ Calling(caller, f)[Len(calls) + 1] = f
<1> DEFINE c == Calling(caller, f)
<1> DEFINE b == Append(Under, caller)
<1>1. /\ b \in Seq(Frames) /\ Len(b) = Len(calls)
      /\ \A i \in 1 .. (Len(calls) - 1) : b[i] = calls[i]
      /\ b[Len(calls)] = caller
  BY TopReplaced
<1>2. c = Append(b, f)
  BY DEF Calling
<1> HIDE DEF b, c
<1>3. /\ c \in Seq(Frames) /\ Len(c) = Len(b) + 1
      /\ \A i \in 1 .. Len(b) : c[i] = b[i]
      /\ c[Len(b) + 1] = f
  BY <1>1, <1>2, AppendProperties
<1>4. DOMAIN c = 1 .. Len(c)
  BY <1>3, LenProperties
<1>5. Len(calls) \in Nat \ {0}
  BY FrameTyped
<1>6. \A i \in 1 .. (Len(calls) - 1) : i \in 1 .. Len(calls)
  BY <1>5
<1>7. Len(calls) \in 1 .. Len(calls)
  BY <1>5
<1> QED BY <1>1, <1>3, <1>4, <1>6, <1>7 DEF c

(* What the sender of a frame holds. *)
LEMMA SentTyped ==
  ASSUME InstanceTypes, NEW f \in Frames
  PROVE  Sent(f) \in Values
<1>1. CASE FromClone(f)
  BY <1>1 DEF FromClone, Sent, Clone, InstanceTypes
<1>2. CASE FromOut(f) \/ (Passing(f) /\ f.from = End("out"))
  BY <1>2 DEF FromOut, Sent, End, InstanceTypes
<1>3. CASE Passing(f) /\ f.from = End("world")
  BY <1>3 DEF Passing, Sent, End
<1> QED BY <1>1, <1>2, <1>3 DEF Frames, Passing

-----------------------------------------------------------------------------
(***************************************************************************)
(* A step of a call: the first n calls stay, but for listener l, which was *)
(* taken.                                                                  *)
(***************************************************************************)
Kept(l, n) ==
  \A i \in 1 .. n :
    /\ calls'[i].op = calls[i].op /\ calls'[i].from = calls[i].from /\ calls'[i].v = calls[i].v
    /\ calls'[i].at = calls[i].at /\ calls'[i].event = calls[i].event
    /\ calls'[i].todo \subseteq calls[i].todo
    /\ calls[i].todo \ {l} \subseteq calls'[i].todo

LEMMA FrameTaken ==
  ASSUME NEW f \in Frames, NEW l, NEW g, g = [f EXCEPT !.todo = @ \ {l}]
  PROVE  /\ g \in Frames /\ g.op = f.op /\ g.from = f.from /\ g.v = f.v
         /\ g.at = f.at /\ g.event = f.event /\ g.todo = f.todo \ {l}
<1> DEFINE R == [op : {"emit", "in"}, from : ListenersHere, v : Values \cup {NoValue},
                 at : 1 .. LastStamp, event : 1 .. MaxEvents, todo : SUBSET ListenersHere]
<1>1. f \in R /\ (FromClone(f) \/ FromOut(f) \/ Passing(f))
  BY DEF Frames
<1>2. /\ g \in R /\ g.op = f.op /\ g.from = f.from /\ g.v = f.v
      /\ g.at = f.at /\ g.event = f.event /\ g.todo = f.todo \ {l}
  BY <1>1
<1> HIDE DEF R
<1>3. FromClone(g) \/ FromOut(g) \/ Passing(g)
  <2>1. CASE FromClone(f)
    BY <1>2, <2>1 DEF FromClone
  <2>2. CASE FromOut(f)
    BY <1>2, <2>2 DEF FromOut
  <2>3. CASE Passing(f)
    BY <1>2, <2>3 DEF Passing
  <2> QED BY <1>1, <2>1, <2>2, <2>3
<1> QED BY <1>2, <1>3 DEF Frames, R

LEMMA PassedOn ==
  ASSUME InstanceTypes, calls # << >>, NEW l \in Frame.todo,
         NEW caller, caller = [Frame EXCEPT !.todo = @ \ {l}]
  PROVE  /\ caller \in Frames
         /\ calls' = Append(Under, caller) =>
              calls' \in Seq(Frames) /\ DOMAIN calls' = DOMAIN calls /\ Kept(l, Len(calls))
         /\ \A f \in Frames : calls' = Calling(caller, f) =>
              /\ calls' \in Seq(Frames) /\ DOMAIN calls' = 1 .. (Len(calls) + 1)
              /\ Kept(l, Len(calls))
              /\ calls'[Len(calls) + 1] = f
<1>1. /\ Len(calls) \in Nat \ {0} /\ DOMAIN calls = 1 .. Len(calls)
      /\ Frame = calls[Len(calls)] /\ Frame \in Frames
  BY FrameTyped
<1>2. /\ caller \in Frames
      /\ caller.op = Frame.op /\ caller.from = Frame.from /\ caller.v = Frame.v
      /\ caller.at = Frame.at /\ caller.event = Frame.event
      /\ caller.todo = Frame.todo \ {l}
  BY <1>1, FrameTaken
<1>3. ASSUME calls' \in Seq(Frames), \A i \in 1 .. (Len(calls) - 1) : calls'[i] = calls[i],
             calls'[Len(calls)] = caller
      PROVE  Kept(l, Len(calls))
  <2>1. \A i \in 1 .. Len(calls) : i = Len(calls) \/ i \in 1 .. (Len(calls) - 1)
    BY <1>1
  <2> QED BY <1>1, <1>2, <1>3, <2>1 DEF Kept
<1>4. ASSUME calls' = Append(Under, caller)
      PROVE  calls' \in Seq(Frames) /\ DOMAIN calls' = DOMAIN calls /\ Kept(l, Len(calls))
  <2>1. PICK c : c = Append(Under, caller)
    OBVIOUS
  <2>2. /\ c \in Seq(Frames) /\ DOMAIN c = 1 .. Len(calls)
        /\ \A i \in 1 .. (Len(calls) - 1) : c[i] = calls[i]
        /\ c[Len(calls)] = caller
    BY <1>2, <2>1, TopReplaced
  <2>3. calls' = c
    BY <1>4, <2>1
  <2> QED BY <1>1, <1>3, <2>2, <2>3
<1>5. ASSUME NEW f \in Frames, calls' = Calling(caller, f)
      PROVE  /\ calls' \in Seq(Frames) /\ DOMAIN calls' = 1 .. (Len(calls) + 1)
             /\ Kept(l, Len(calls))
             /\ calls'[Len(calls) + 1] = f
  <2>1. /\ calls' \in Seq(Frames) /\ DOMAIN calls' = 1 .. (Len(calls) + 1)
        /\ \A i \in 1 .. (Len(calls) - 1) : calls'[i] = calls[i]
        /\ calls'[Len(calls)] = caller
        /\ calls'[Len(calls) + 1] = f
    <3>1. PICK a \in Frames, b \in Frames : a = caller /\ b = f
      BY <1>2
    <3> HIDE <1>5
    <3>2. /\ Calling(a, b) \in Seq(Frames)
          /\ DOMAIN Calling(a, b) = 1 .. (Len(calls) + 1)
          /\ \A i \in 1 .. (Len(calls) - 1) : Calling(a, b)[i] = calls[i]
          /\ Calling(a, b)[Len(calls)] = a
          /\ Calling(a, b)[Len(calls) + 1] = b
      BY CalledAgain
    <3> QED BY <3>1, <3>2, <1>5
  <2> QED BY <1>3, <2>1
<1> QED BY <1>2, <1>4, <1>5

(* What was on its way, but for l, still is. *)
LEMMA PendingKept ==
  ASSUME NEW l, NEW m, m # l, NEW n, Kept(l, n), 1 .. n \subseteq DOMAIN calls',
         \A i \in DOMAIN calls \ (1 .. n) : calls[i].todo = {}, Pending(m)
  PROVE  Pending(m)'
<1>1. PICK i \in DOMAIN calls : m \in calls[i].todo
  BY DEF Pending
<1>2. i \in 1 .. n
  BY <1>1
<1>3. m \in calls'[i].todo /\ i \in DOMAIN calls'
  BY <1>1, <1>2 DEF Kept
<1> QED BY <1>3 DEF Pending

(* What a frame that stays sends, if the values only change to the one     *)
(* that all calls send.                                                    *)
SentOf(f, val, out) == IF f.from.kind = "clone" THEN val[f.from.path]
                       ELSE IF f.from.kind = "out" THEN out ELSE f.v

LEMMA SentIs == /\ \A f : Sent(f) = SentOf(f, value, outValue)
                /\ \A i : Sent(calls[i])' = SentOf(calls'[i], value', outValue')
BY DEF Sent, SentOf

LEMMA SentStays ==
  ASSUME NEW f \in Frames, NEW g, g.from = f.from, g.v = f.v,
         NEW V, NEW val, NEW out, NEW newVal, NEW newOut, SentOf(f, val, out) = V,
         \A p \in clones : newVal[p] = val[p] \/ newVal[p] = V,
         newOut = out \/ newOut = V
  PROVE  SentOf(g, newVal, newOut) = V
<1>1. CASE FromClone(f)
  BY <1>1 DEF FromClone, SentOf, Clone
<1>2. CASE f.from.kind = "out"
  BY <1>2 DEF SentOf
<1>3. CASE f.from = End("world")
  BY <1>3 DEF SentOf, End
<1>4. CASE FromOut(f) \/ Passing(f)
  <2>1. f.from = End("out") \/ f.from = End("world")
    BY <1>4 DEF FromOut, Passing
  <2> QED BY <1>2, <1>3, <2>1 DEF End
<1> QED BY <1>1, <1>4 DEF Frames

(***************************************************************************)
(* The part of the invariant that holds while nothing overtakes anything,  *)
(* in a step of a call that sends V: all calls in progress send it.        *)
(***************************************************************************)
LEMMA StepKeeps ==
  ASSUME InstanceTypes, NotOvertaken, UNCHANGED <<proto, instance, histories>>, made,
         NEW l, NEW n, Kept(l, n), 1 .. n \subseteq DOMAIN calls \cap DOMAIN calls',
         \A i \in DOMAIN calls \ (1 .. n) : calls[i].todo = {},
         NEW V, \E i \in DOMAIN calls : Sent(calls[i]) = V,
         \A i \in DOMAIN calls' \ (1 .. n) : Arrives(i)' /\ Sent(calls[i])' = V,
         \A p \in clones : /\ value'[p] = value[p] \/ value'[p] = V
                           /\ l = Clone(p) => value'[p] = V,
         outValue' = outValue \/ outValue' = V
  PROVE  /\ \A i \in DOMAIN calls' : Arrives(i)'
         /\ OneValue' /\ InInv'
<1>1. wires' = wires /\ lastIn' = lastIn
  BY SameInstance DEF histories
<1>2. \A i \in DOMAIN calls : Sent(calls[i]) = V
  BY DEF NotOvertaken, OneValue
<1>3. calls # << >> /\ \A i \in DOMAIN calls : calls[i] \in Frames
  <2>1. calls # << >>
    OBVIOUS
  <2> QED BY <2>1, FrameTyped
<1>4. wires.ins \subseteq clones
  BY <1>3, FrameTyped, WiresTyped DEF InstanceTypes
<1>5. ASSUME NEW i \in 1 .. n PROVE Arrives(i)' /\ Sent(calls[i])' = V
  <2>1. Arrives(i) /\ Sent(calls[i]) = V /\ i \in DOMAIN calls /\ calls[i] \in Frames
    BY <1>2, <1>3 DEF NotOvertaken
  <2>2. /\ calls'[i].op = calls[i].op /\ calls'[i].from = calls[i].from /\ calls'[i].v = calls[i].v
        /\ calls'[i].todo \subseteq calls[i].todo
        /\ calls[i].todo \ {l} \subseteq calls'[i].todo
    BY DEF Kept
  <2>3. SentOf(calls[i], value, outValue) = V
    BY <2>1, SentIs
  <2>4. SentOf(calls'[i], value', outValue') = V
    BY <2>1, <2>2, <2>3, SentStays
  <2>5. Sent(calls[i])' = V
    BY <2>4, SentIs
  <2>6. ASSUME calls'[i].op = "in", NEW p \in wires.ins
        PROVE  value'[p] = V \/ Clone(p) \in calls'[i].todo
    BY <1>4, <2>1, <2>2, <2>6 DEF Arrives
  <2> QED BY <1>1, <2>5, <2>6 DEF Arrives, Clone
<1>6. \A i \in DOMAIN calls' : Arrives(i)' /\ Sent(calls[i])' = V
  BY <1>5
<1>7. InInv'
  <2>1. SUFFICES ASSUME lastIn # NoValue
                 PROVE  /\ V = lastIn
                        /\ \A p \in wires.ins : value'[p] = lastIn \/ Pending(Clone(p))'
    BY <1>1, <1>6 DEF InInv, Clone, Pending
  <2>2. V = lastIn
    BY <1>2, <2>1 DEF NotOvertaken, InInv
  <2>3. ASSUME NEW p \in wires.ins PROVE value'[p] = lastIn \/ Pending(Clone(p))'
    <3>1. CASE value[p] = lastIn
      BY <3>1, <2>2, <1>4
    <3>2. CASE l = Clone(p)
      BY <3>2, <2>2, <1>4
    <3>3. CASE l # Clone(p) /\ value[p] # lastIn
      <4>1. Pending(Clone(p))
        BY <3>3, <2>1 DEF NotOvertaken, InInv
      <4>2. \A m : m = Clone(p) => Pending(m)'
        BY <3>3, <4>1, PendingKept
      <4> QED BY <4>2 DEF Pending, Clone
    <3> QED BY <3>1, <3>2, <3>3
  <2> QED BY <2>2, <2>3
<1>8. OneValue'
  BY <1>6 DEF OneValue
<1> QED BY <1>6, <1>7, <1>8

-----------------------------------------------------------------------------
(* The calls that an event begins. *)

LEMMA CallTyped ==
  ASSUME NEW op \in {"emit", "in"}, NEW from \in ListenersHere, NEW v \in Values \cup {NoValue},
         NEW at \in 1 .. LastStamp, NEW e \in 1 .. MaxEvents, NEW todo \in SUBSET ListenersHere,
         NEW f, f = Call(op, from, v, at, e, todo),
         FromClone(f) \/ FromOut(f) \/ Passing(f)
  PROVE  f \in Frames
BY DEF Call, Frames

LEMMA CloneSendsTyped ==
  ASSUME proto \in Definitions, Wired, NEW p \in clones, NEW at \in 1 .. LastStamp, NEW e \in 1 .. MaxEvents
  PROVE  /\ CloneSends(p, at, e) \in Frames
         /\ CloneSends(p, at, e).op = "emit" /\ CloneSends(p, at, e).from = Clone(p)
         /\ CloneSends(p, at, e).todo = CloneTodo(p) /\ CloneSends(p, at, e).event = e
<1> DEFINE f == CloneSends(p, at, e)
<1>1. CloneTodo(p) \subseteq ListenersHere /\ Clone(p) \in ListenersHere
  <2>1. \A r \in wires.routes : r[2] \in clones
    BY WiresTyped
  <2> QED BY <2>1 DEF CloneTodo, ListenersHere
<1>2. f = Call("emit", Clone(p), NoValue, at, e, CloneTodo(p))
  BY DEF CloneSends, CloneTodo
<1> HIDE DEF f
<1>3. f.op = "emit" /\ f.from = Clone(p) /\ f.todo = CloneTodo(p) /\ f.event = e
  BY <1>2 DEF Call
<1>4. FromClone(f)
  BY <1>3 DEF FromClone
<1>5. f \in Frames
  BY <1>1, <1>2, <1>4, CallTyped
<1> QED BY <1>3, <1>5 DEF f

LEMMA OutSendsTyped ==
  ASSUME NEW at \in 1 .. LastStamp, NEW e \in 1 .. MaxEvents
  PROVE  /\ OutSends(at, e) \in Frames
         /\ OutSends(at, e).op = "emit" /\ OutSends(at, e).from = End("out")
         /\ OutSends(at, e).todo = OutTodo /\ OutSends(at, e).event = e
<1> DEFINE f == OutSends(at, e)
<1>1. OutTodo \subseteq ListenersHere /\ End("out") \in ListenersHere
  BY DEF OutTodo, ListenersHere
<1>2. f = Call("emit", End("out"), NoValue, at, e, OutTodo)
  BY DEF OutSends, OutTodo
<1> HIDE DEF f
<1>3. f.op = "emit" /\ f.from = End("out") /\ f.todo = OutTodo /\ f.event = e
  BY <1>2 DEF Call
<1>4. FromOut(f)
  BY <1>3 DEF FromOut
<1>5. f \in Frames
  BY <1>1, <1>2, <1>4, CallTyped
<1> QED BY <1>3, <1>5 DEF f

LEMMA InPassesTyped ==
  ASSUME proto \in Definitions, Wired, NEW at \in 1 .. LastStamp, NEW e \in 1 .. MaxEvents, NEW from, NEW v,
         (from = End("out") /\ v = NoValue) \/ (from = End("world") /\ v \in Values)
  PROVE  /\ InPasses(from, v, at, e) \in Frames
         /\ InPasses(from, v, at, e).op = "in" /\ InPasses(from, v, at, e).from = from
         /\ InPasses(from, v, at, e).v = v
         /\ InPasses(from, v, at, e).todo = InTodo /\ InPasses(from, v, at, e).event = e
<1> DEFINE f == InPasses(from, v, at, e)
<1>1. InTodo \subseteq ListenersHere /\ from \in ListenersHere /\ v \in Values \cup {NoValue}
  BY WiresTyped DEF InTodo, ListenersHere
<1>2. f = Call("in", from, v, at, e, InTodo)
  BY DEF InPasses, InTodo
<1> HIDE DEF f
<1>3. f.op = "in" /\ f.from = from /\ f.v = v /\ f.todo = InTodo /\ f.event = e
  BY <1>2 DEF Call
<1>4. Passing(f)
  BY <1>3 DEF Passing
<1>5. f \in Frames
  BY <1>1, <1>2, <1>4, CallTyped
<1> QED BY <1>3, <1>5 DEF f

(* What the listeners are that a frame may still have. *)
LEMMA ListenersKnown ==
  ASSUME NEW f \in Frames, wires.routes \subseteq clones \X clones
  PROVE  /\ End("world") \in f.todo => FromOut(f)
         /\ End("in") \in f.todo => FromOut(f) /\ proto.feedback
         /\ End("out") \in f.todo => \E p \in wires.outs : FromClone(f) /\ f.from = Clone(p)
         /\ \A q : Clone(q) \in f.todo =>
              \/ Passing(f) /\ q \in wires.ins
              \/ \E p \in clones : FromClone(f) /\ f.from = Clone(p) /\ <<p, q>> \in wires.routes
<1>1. CASE FromClone(f)
  <2>1. PICK p \in clones : f.op = "emit" /\ f.from = Clone(p) /\ f.todo \subseteq CloneTodo(p)
    BY <1>1 DEF FromClone
  <2>2. \A m \in f.todo : \/ m = End("out") /\ p \in wires.outs
                         \/ \E r \in wires.routes : r[1] = p /\ m = Clone(r[2])
    BY <2>1 DEF CloneTodo
  <2>3. End("world") \notin f.todo /\ End("in") \notin f.todo
    BY <2>2 DEF End, Clone
  <2>4. End("out") \in f.todo => p \in wires.outs
    BY <2>2 DEF End, Clone
  <2>5. ASSUME NEW q, Clone(q) \in f.todo PROVE <<p, q>> \in wires.routes
    <3>1. PICK r \in wires.routes : r[1] = p /\ Clone(q) = Clone(r[2])
      BY <2>2, <2>5 DEF End, Clone
    <3>2. q = r[2]
      BY <3>1 DEF Clone
    <3>3. r = <<r[1], r[2]>>
      OBVIOUS
    <3> QED BY <3>1, <3>2, <3>3
  <2> QED BY <1>1, <2>1, <2>3, <2>4, <2>5
<1>2. CASE FromOut(f)
  BY <1>2 DEF FromOut, OutTodo, End, Clone
<1>3. CASE Passing(f)
  BY <1>3 DEF Passing, InTodo, End, Clone
<1> QED BY <1>1, <1>2, <1>3 DEF Frames

-----------------------------------------------------------------------------
(* An event is delivered to a listener. *)

(* What the deliveries have in common. *)
LEMMA Taking ==
  ASSUME InstanceInv, calls # << >>, NEW l \in Frame.todo
  PROVE  /\ InstanceTypes /\ made /\ Wired /\ proto \in Definitions
         /\ Len(calls) \in Nat \ {0} /\ Len(calls) \in DOMAIN calls /\ DOMAIN calls = 1 .. Len(calls)
         /\ Frame = calls[Len(calls)] /\ Frame \in Frames
         /\ Sent(Frame) \in Values /\ Frame.at \in 1 .. LastStamp /\ Frame.event \in 1 .. MaxEvents
         /\ l \in ListenersHere
         /\ \E i \in DOMAIN calls : Sent(calls[i]) = Sent(Frame)
<1>1. InstanceTypes
  BY DEF InstanceInv
<1>2. /\ made /\ Wired /\ Len(calls) \in DOMAIN calls /\ DOMAIN calls = 1 .. Len(calls)
      /\ Len(calls) \in Nat \ {0}
      /\ Frame = calls[Len(calls)] /\ Frame \in Frames
  BY <1>1, FrameTyped
<1>3. Frame.at \in 1 .. LastStamp /\ Frame.event \in 1 .. MaxEvents /\ Frame.todo \subseteq ListenersHere
  BY <1>2 DEF Frames
<1>4. Sent(Frame) \in Values
  BY <1>1, <1>2, SentTyped
<1>5. proto \in Definitions
  BY <1>1 DEF InstanceTypes
<1> QED BY <1>1, <1>2, <1>3, <1>4, <1>5

LEMMA CloneKeeps ==
  ASSUME InstanceInv, calls # << >>, NEW p \in clones, Clone(p) \in Frame.todo,
         ProcessClone(p, [Frame EXCEPT !.todo = @ \ {Clone(p)}]),
         UNCHANGED <<proto, instance, histories, events>>
  PROVE  InstanceInv'
<1> DEFINE l == Clone(p)
           caller == [Frame EXCEPT !.todo = @ \ {l}]
<1>0. PICK n \in Nat, v \in Values, at \in 1 .. LastStamp, e \in 1 .. MaxEvents :
        n = Len(calls) /\ v = Sent(Frame) /\ at = Frame.at /\ e = Frame.event
  BY Taking
<1> DEFINE f == CloneSends(p, at, e)
<1>1. /\ InstanceTypes /\ Wired /\ made /\ n \in DOMAIN calls /\ DOMAIN calls = 1 .. n
      /\ \E i \in DOMAIN calls : Sent(calls[i]) = v
      /\ proto \in Definitions /\ Frame \in Frames
  BY <1>0, Taking
<1>2. /\ proto' = proto /\ made' = made /\ clones' = clones /\ wires' = wires /\ Frames' = Frames
      /\ Wired' /\ lastIn' = lastIn /\ overtaken' = overtaken /\ events' = events
      /\ outValue' = outValue /\ outTime' = outTime /\ heard' = heard /\ late' = late
  BY <1>1, SameInstance DEF ProcessClone, outVars, histories
<1>3. caller.at = at /\ caller.event = e
  BY <1>0, <1>1, FrameTaken
<1>4. value' = [value EXCEPT ![p] = v] /\ calls' = Calling(caller, f)
  BY <1>0, <1>3 DEF ProcessClone
<1>5. f \in Frames /\ f.op = "emit" /\ f.from = l /\ f.todo = CloneTodo(p)
  BY <1>1, CloneSendsTyped
<1> HIDE DEF f
<1>6. /\ calls' \in Seq(Frames) /\ DOMAIN calls' = 1 .. (n + 1)
      /\ Kept(l, n) /\ calls'[n + 1] = f
  BY <1>0, <1>1, <1>4, <1>5, PassedOn
<1> HIDE DEF caller
<1>7. /\ value' \in [clones -> Values]
      /\ value'[p] = v /\ \A q \in clones \ {p} : value'[q] = value[q]
  BY <1>1, <1>4 DEF InstanceTypes
<1>8. InstanceTypes'
  BY <1>1, <1>2, <1>6, <1>7 DEF InstanceTypes
<1>9. /\ 1 .. n \subseteq DOMAIN calls \cap DOMAIN calls'
      /\ DOMAIN calls \ (1 .. n) = {} /\ DOMAIN calls' \ (1 .. n) = {n + 1}
      /\ n + 1 \in DOMAIN calls'
  BY <1>1, <1>6
<1>10. \A m : m # l /\ Pending(m) => Pending(m)'
  BY <1>6, <1>9, PendingKept
<1>11. End("world") # l /\ End("out") # l
  BY DEF End, Clone
<1>12. HeardInv'
  BY <1>2, <1>10, <1>11 DEF InstanceInv, HeardInv, Pending, End
<1>13. \A q \in wires.outs : (q # p => value'[q] = value[q]) /\ (q = p => Pending(End("out"))')
  <2> SUFFICES ASSUME NEW q \in wires.outs
               PROVE  (q # p => value'[q] = value[q]) /\ (q = p => Pending(End("out"))')
    OBVIOUS
  <2>1. q \in clones
    BY <1>1, WiresTyped
  <2>2. q = p => End("out") \in f.todo
    BY <1>5 DEF CloneTodo
  <2>3. \A m : m \in f.todo => Pending(m)'
    BY <1>6, <1>9 DEF Pending
  <2>4. q = p => Pending(End("out"))'
    BY <2>2, <2>3
  <2> QED BY <1>7, <2>1, <2>4
<1>14. OutInv'
  BY <1>2, <1>10, <1>11, <1>13 DEF InstanceInv, OutInv, SingleOut, IsEventOut, Pending, End
<1>15. ASSUME ~overtaken PROVE NotOvertaken'
  <2>1. NotOvertaken
    BY <1>15 DEF InstanceInv
  <2>2. \A q \in clones : /\ value'[q] = value[q] \/ value'[q] = v
                          /\ l = Clone(q) => value'[q] = v
    BY <1>7 DEF Clone
  <2>3. Sent(calls[n + 1])' = v
    <3>1. SentOf(f, value', outValue') = v
      BY <1>5, <1>7 DEF SentOf, Clone
    <3> QED BY <1>6, <3>1, SentIs
  <2>4. Arrives(n + 1)'
    BY <1>5, <1>6 DEF Arrives
  <2>5. \A i \in DOMAIN calls' \ (1 .. n) : Arrives(i)' /\ Sent(calls[i])' = v
    BY <1>9, <2>3, <2>4
  <2>6. UNCHANGED histories
    OBVIOUS
  <2>7. \A i \in DOMAIN calls' : Arrives(i)' /\ OneValue' /\ InInv'
    BY <1>1, <1>2, <1>6, <1>9, <2>1, <2>2, <2>5, <2>6, StepKeeps
  <2>8. FieldInv'
    <3>1. \A i \in DOMAIN calls : calls[i].op = "in" => i \in DOMAIN calls' /\ calls'[i].op = "in"
      BY <1>1, <1>6, <1>9 DEF Kept
    <3> QED BY <1>2, <1>10, <1>11, <1>13, <2>1, <3>1
         DEF NotOvertaken, FieldInv, SingleOut, IsEventOut, Pending, End
  <2> QED BY <1>9, <2>7, <2>8 DEF NotOvertaken
<1> QED BY <1>2, <1>8, <1>12, <1>14, <1>15 DEF InstanceInv

LEMMA OutKeeps ==
  ASSUME InstanceInv, calls # << >>, End("out") \in Frame.todo,
         ProcessOut([Frame EXCEPT !.todo = @ \ {End("out")}]),
         UNCHANGED <<proto, instance, histories, events>>
  PROVE  InstanceInv'
<1> DEFINE l == End("out")
           caller == [Frame EXCEPT !.todo = @ \ {l}]
<1>0. PICK n \in Nat, v \in Values, at \in 1 .. LastStamp, e \in 1 .. MaxEvents :
        n = Len(calls) /\ v = Sent(Frame) /\ at = Frame.at /\ e = Frame.event
  BY Taking
<1> DEFINE f == OutSends(at, e)
           goesOn == at > outTime
<1>1. /\ InstanceTypes /\ Wired /\ made /\ n \in DOMAIN calls /\ DOMAIN calls = 1 .. n
      /\ \E i \in DOMAIN calls : Sent(calls[i]) = v
      /\ proto \in Definitions /\ Frame \in Frames
  BY <1>0, Taking
<1>2. /\ proto' = proto /\ made' = made /\ clones' = clones /\ wires' = wires /\ Frames' = Frames
      /\ Wired' /\ lastIn' = lastIn /\ overtaken' = overtaken /\ events' = events
      /\ value' = value /\ outTime' = outTime /\ heard' = heard
  BY <1>1, SameInstance DEF ProcessOut, histories
<1>3. caller.at = at /\ caller.event = e
  BY <1>0, <1>1, FrameTaken
<1>4. /\ late' = (at <= outTime /\ outValue # v)
      /\ IF goesOn THEN calls' = Calling(caller, f) /\ outValue' = v
                   ELSE calls' = Append(Under, caller) /\ outValue' = outValue
      /\ goesOn <=> ~(at <= outTime)
  <2>1. outTime \in Nat /\ at \in Nat
    BY <1>1, ProtoInstanceAssumption DEF InstanceTypes
  <2>2. goesOn <=> ~(at <= outTime)
    BY <2>1
  <2> QED BY <1>0, <1>3, <2>2 DEF ProcessOut
<1>5. f \in Frames /\ f.op = "emit" /\ f.from = End("out") /\ f.todo = OutTodo
  BY OutSendsTyped
<1> HIDE DEF f, goesOn
<1>6. /\ calls' \in Seq(Frames) /\ Kept(l, n)
      /\ DOMAIN calls' = IF goesOn THEN 1 .. (n + 1) ELSE 1 .. n
      /\ goesOn => calls'[n + 1] = f
  BY <1>0, <1>1, <1>4, <1>5, PassedOn
<1> HIDE DEF caller
<1>7. outValue' = (IF goesOn THEN v ELSE outValue) /\ outValue' \in Values /\ late' \in BOOLEAN
  BY <1>1, <1>4 DEF InstanceTypes
<1>8. InstanceTypes'
  BY <1>1, <1>2, <1>6, <1>7 DEF InstanceTypes
<1>9. /\ 1 .. n \subseteq DOMAIN calls \cap DOMAIN calls'
      /\ DOMAIN calls \ (1 .. n) = {}
      /\ \A i \in DOMAIN calls' \ (1 .. n) : i = n + 1 /\ goesOn
      /\ goesOn => n + 1 \in DOMAIN calls'
  BY <1>1, <1>6
<1>10. \A m : m # l /\ Pending(m) => Pending(m)'
  BY <1>6, <1>9, PendingKept
<1>11. goesOn => Pending(End("world"))'
  <2>1. End("world") \in f.todo
    BY <1>5 DEF OutTodo
  <2>2. \A m : goesOn /\ m \in f.todo => Pending(m)'
    BY <1>6, <1>9 DEF Pending
  <2> QED BY <2>1, <2>2
<1>12. HeardInv'
  <2>1. End("world") # l
    BY DEF End
  <2> QED BY <1>2, <1>7, <1>10, <1>11, <2>1 DEF InstanceInv, HeardInv, Pending, End
<1>13. SingleOut => \A p \in wires.outs : value[p] = v
  <2> SUFFICES ASSUME SingleOut, NEW p \in wires.outs PROVE value[p] = v
    OBVIOUS
  <2>1. wires.outs \subseteq clones /\ \E q \in clones : wires.outs = {q}
    BY <1>1, WiresTyped
  <2>2. \E q \in wires.outs : Frame.from = Clone(q)
    BY <1>1, WiresTyped, ListenersKnown
  <2>3. Frame.from = Clone(p)
    BY <2>1, <2>2
  <2> QED BY <1>0, <2>3 DEF Sent, Clone
<1>14. SingleOut /\ ~late' => \A p \in wires.outs : value[p] = outValue'
  BY <1>4, <1>7, <1>13
<1>15. OutInv'
  BY <1>2, <1>14 DEF OutInv, SingleOut
<1>16. ASSUME ~overtaken PROVE NotOvertaken'
  <2>1. NotOvertaken
    BY <1>16 DEF InstanceInv
  <2>2. \A q \in clones : /\ value'[q] = value[q] \/ value'[q] = v
                          /\ l = Clone(q) => value'[q] = v
    BY <1>2 DEF Clone, End
  <2>3. goesOn => Sent(calls[n + 1])' = v
    <3>1. goesOn => SentOf(f, value', outValue') = v
      BY <1>5, <1>7 DEF SentOf, End
    <3> QED BY <1>6, <3>1, SentIs
  <2>4. goesOn => Arrives(n + 1)'
    BY <1>5, <1>6 DEF Arrives
  <2>5. \A i \in DOMAIN calls' \ (1 .. n) : Arrives(i)' /\ Sent(calls[i])' = v
    BY <1>9, <2>3, <2>4
  <2>6. UNCHANGED histories /\ (outValue' = outValue \/ outValue' = v)
    BY <1>7
  <2>7. \A i \in DOMAIN calls \ (1 .. n) : calls[i].todo = {}
    BY <1>9
  <2>8. Kept(l, n) /\ 1 .. n \subseteq DOMAIN calls \cap DOMAIN calls'
    BY <1>6, <1>9
  <2> HIDE DEF l
  <2>11. /\ \A i \in DOMAIN calls' : Arrives(i)'
        /\ OneValue' /\ InInv'
    BY <1>1, <2>1, <2>2, <2>5, <2>6, <2>7, <2>8, StepKeeps
  <2>9. FieldInv'
    BY <1>2, <1>14 DEF FieldInv, SingleOut
  <2>10. 1 \in DOMAIN calls'
    BY <1>1, <1>9
  <2> QED BY <2>9, <2>10, <2>11 DEF NotOvertaken
<1> QED BY <1>2, <1>8, <1>12, <1>15, <1>16 DEF InstanceInv

LEMMA WorldKeeps ==
  ASSUME InstanceInv, calls # << >>, End("world") \in Frame.todo,
         ProcessWorld([Frame EXCEPT !.todo = @ \ {End("world")}]),
         UNCHANGED <<proto, instance, histories, events>>
  PROVE  InstanceInv'
<1> DEFINE l == End("world")
           caller == [Frame EXCEPT !.todo = @ \ {l}]
<1>0. PICK n \in Nat, v \in Values : n = Len(calls) /\ v = Sent(Frame)
  BY Taking
<1>1. /\ InstanceTypes /\ Wired /\ made /\ n \in DOMAIN calls /\ DOMAIN calls = 1 .. n
      /\ \E i \in DOMAIN calls : Sent(calls[i]) = v
      /\ proto \in Definitions /\ Frame \in Frames
  BY <1>0, Taking
<1>2. /\ proto' = proto /\ made' = made /\ clones' = clones /\ wires' = wires /\ Frames' = Frames
      /\ Wired' /\ lastIn' = lastIn /\ overtaken' = overtaken /\ events' = events
      /\ value' = value /\ outValue' = outValue /\ outTime' = outTime /\ late' = late
      /\ heard' = v /\ calls' = Append(Under, caller)
  BY <1>0, <1>1, SameInstance DEF ProcessWorld, histories
<1>3. calls' \in Seq(Frames) /\ Kept(l, n) /\ DOMAIN calls' = 1 .. n
  BY <1>0, <1>1, <1>2, PassedOn
<1> HIDE DEF caller
<1>4. InstanceTypes'
  BY <1>1, <1>2, <1>3 DEF InstanceTypes
<1>5. /\ 1 .. n \subseteq DOMAIN calls \cap DOMAIN calls'
      /\ \A i \in DOMAIN calls \ (1 .. n) : calls[i].todo = {}
      /\ DOMAIN calls' \ (1 .. n) = {} /\ DOMAIN calls' = DOMAIN calls
  BY <1>1, <1>3
<1>6. \A m : m # l /\ Pending(m) => Pending(m)'
  BY <1>3, <1>5, PendingKept
<1>7. HeardInv'
  <2>1. FromOut(Frame)
    BY <1>1, WiresTyped, ListenersKnown
  <2>2. Sent(Frame) = outValue
    BY <2>1 DEF FromOut, Sent, End
  <2> QED BY <1>0, <1>2, <2>2 DEF HeardInv
<1>8. End("out") # l
  BY DEF End
<1>9. OutInv'
  BY <1>2, <1>6, <1>8 DEF InstanceInv, OutInv, SingleOut, IsEventOut, Pending, End
<1>10. ASSUME ~overtaken PROVE NotOvertaken'
  <2>1. NotOvertaken
    BY <1>10 DEF InstanceInv
  <2>2. \A q \in clones : /\ value'[q] = value[q] \/ value'[q] = v
                          /\ l = Clone(q) => value'[q] = v
    BY <1>2 DEF Clone, End
  <2>3. UNCHANGED histories /\ (outValue' = outValue \/ outValue' = v)
    BY <1>2
  <2>4. \A i \in DOMAIN calls' \ (1 .. n) : Arrives(i)' /\ Sent(calls[i])' = v
    BY <1>5
  <2> HIDE DEF l
  <2>5. /\ \A i \in DOMAIN calls' : Arrives(i)'
        /\ OneValue' /\ InInv'
    BY <1>1, <1>3, <1>5, <2>1, <2>2, <2>3, <2>4, StepKeeps
  <2>6. FieldInv'
    <3>1. \A i \in DOMAIN calls : calls[i].op = "in" => i \in DOMAIN calls' /\ calls'[i].op = "in"
      BY <1>1, <1>3, <1>5 DEF Kept
    <3> QED BY <1>2, <1>6, <1>8, <2>1, <3>1
         DEF NotOvertaken, FieldInv, SingleOut, IsEventOut, Pending, End
  <2> QED BY <2>5, <2>6 DEF NotOvertaken
<1> QED BY <1>2, <1>4, <1>7, <1>9, <1>10 DEF InstanceInv

LEMMA InKeeps ==
  ASSUME InstanceInv, calls # << >>, End("in") \in Frame.todo,
         ProcessIn([Frame EXCEPT !.todo = @ \ {End("in")}]),
         UNCHANGED <<proto, instance, histories, events>>
  PROVE  InstanceInv'
<1> DEFINE l == End("in")
           caller == [Frame EXCEPT !.todo = @ \ {l}]
<1>0. PICK n \in Nat, v \in Values, at \in 1 .. LastStamp, e \in 1 .. MaxEvents :
        n = Len(calls) /\ v = Sent(Frame) /\ at = Frame.at /\ e = Frame.event
  BY Taking
<1> DEFINE f == InPasses(End("out"), NoValue, at, e)
<1>1. /\ InstanceTypes /\ Wired /\ made /\ n \in DOMAIN calls /\ DOMAIN calls = 1 .. n
      /\ \E i \in DOMAIN calls : Sent(calls[i]) = v
      /\ proto \in Definitions /\ Frame \in Frames
  BY <1>0, Taking
<1>2. /\ proto' = proto /\ made' = made /\ clones' = clones /\ wires' = wires /\ Frames' = Frames
      /\ Wired' /\ lastIn' = lastIn /\ overtaken' = overtaken /\ events' = events
      /\ value' = value /\ outValue' = outValue /\ outTime' = outTime /\ heard' = heard /\ late' = late
  BY <1>1, SameInstance DEF ProcessIn, outVars, histories
<1>3. caller.at = at /\ caller.event = e
  BY <1>0, <1>1, FrameTaken
<1>4. calls' = Calling(caller, f)
  BY <1>3 DEF ProcessIn
<1>5. f \in Frames /\ f.op = "in" /\ f.from = End("out") /\ f.todo = InTodo
  BY <1>1, InPassesTyped
<1> HIDE DEF f
<1>6. /\ calls' \in Seq(Frames) /\ DOMAIN calls' = 1 .. (n + 1)
      /\ Kept(l, n) /\ calls'[n + 1] = f
  BY <1>0, <1>1, <1>4, <1>5, PassedOn
<1> HIDE DEF caller
<1>7. InstanceTypes'
  BY <1>1, <1>2, <1>6 DEF InstanceTypes
<1>8. /\ 1 .. n \subseteq DOMAIN calls \cap DOMAIN calls'
      /\ \A i \in DOMAIN calls \ (1 .. n) : calls[i].todo = {}
      /\ DOMAIN calls' \ (1 .. n) = {n + 1}
  BY <1>1, <1>6
<1>9. \A m : m # l /\ Pending(m) => Pending(m)'
  BY <1>6, <1>8, PendingKept
<1>10. End("world") # l /\ End("out") # l
  BY DEF End
<1>11. HeardInv'
  BY <1>2, <1>9, <1>10 DEF InstanceInv, HeardInv, Pending, End
<1>12. OutInv'
  BY <1>2, <1>9, <1>10 DEF InstanceInv, OutInv, SingleOut, IsEventOut, Pending, End
<1>13. ASSUME ~overtaken PROVE NotOvertaken'
  <2>1. NotOvertaken
    BY <1>13 DEF InstanceInv
  <2>2. \A q \in clones : /\ value'[q] = value[q] \/ value'[q] = v
                          /\ l = Clone(q) => value'[q] = v
    BY <1>2 DEF Clone, End
  <2>3. UNCHANGED histories /\ (outValue' = outValue \/ outValue' = v)
    BY <1>2
  <2>4. Sent(calls[n + 1])' = v
    <3>1. FromOut(Frame)
      BY <1>1, WiresTyped, ListenersKnown
    <3>2. Sent(Frame) = outValue
      BY <3>1 DEF FromOut, Sent, End
    <3>3. SentOf(f, value', outValue') = v
      BY <1>0, <1>2, <1>5, <3>2 DEF SentOf, End
    <3> QED BY <1>6, <3>3, SentIs
  <2>5. Arrives(n + 1)'
    BY <1>2, <1>5, <1>6 DEF Arrives, InTodo, Clone
  <2>6. \A i \in DOMAIN calls' \ (1 .. n) : Arrives(i)' /\ Sent(calls[i])' = v
    BY <1>8, <2>4, <2>5
  <2>7. Kept(l, n)
    BY <1>6
  <2> HIDE DEF l
  <2>8. /\ \A i \in DOMAIN calls' : Arrives(i)'
        /\ OneValue' /\ InInv'
    BY <1>1, <1>8, <2>1, <2>2, <2>3, <2>6, <2>7, StepKeeps
  <2>9. FieldInv'
    <3>1. \A i \in DOMAIN calls : calls[i].op = "in" => i \in DOMAIN calls' /\ calls'[i].op = "in"
      BY <1>1, <1>6, <1>8 DEF Kept
    <3> QED BY <1>2, <1>9, <1>10, <2>1, <3>1
         DEF NotOvertaken, FieldInv, SingleOut, IsEventOut, Pending, End
  <2> QED BY <2>8, <2>9 DEF NotOvertaken
<1> QED BY <1>2, <1>7, <1>11, <1>12, <1>13 DEF InstanceInv

LEMMA NextListenerKeeps ==
  ASSUME InstanceInv, NextListener
  PROVE  InstanceInv'
<1>1. calls # << >> /\ UNCHANGED <<proto, instance, histories, events>>
  BY DEF NextListener, Delivering
<1>2. PICK l \in Frame.todo :
        CASE l.kind = "out" -> ProcessOut([Frame EXCEPT !.todo = @ \ {l}])
          [] l.kind = "world" -> ProcessWorld([Frame EXCEPT !.todo = @ \ {l}])
          [] l.kind = "in" -> ProcessIn([Frame EXCEPT !.todo = @ \ {l}])
          [] OTHER -> ProcessClone(l.path, [Frame EXCEPT !.todo = @ \ {l}])
  BY DEF NextListener
<1>3. l \in ListenersHere
  BY <1>1, Taking
<1>4. CASE l = End("out")
  <2>1. ProcessOut([Frame EXCEPT !.todo = @ \ {l}])
    BY <1>2, <1>4 DEF End
  <2> QED BY <1>1, <1>4, <2>1, OutKeeps
<1>5. CASE l = End("world")
  <2>1. ProcessWorld([Frame EXCEPT !.todo = @ \ {l}])
    BY <1>2, <1>5 DEF End
  <2> QED BY <1>1, <1>5, <2>1, WorldKeeps
<1>6. CASE l = End("in")
  <2>1. ProcessIn([Frame EXCEPT !.todo = @ \ {l}])
    BY <1>2, <1>6 DEF End
  <2> QED BY <1>1, <1>6, <2>1, InKeeps
<1>7. CASE \E p \in clones : l = Clone(p)
  <2>1. PICK p \in clones : l = Clone(p)
    BY <1>7
  <2>2. l.kind = "clone" /\ l.path = p
    BY <2>1 DEF Clone
  <2>3. ProcessClone(p, [Frame EXCEPT !.todo = @ \ {l}])
    BY <1>2, <2>2
  <2> QED BY <1>1, <2>1, <2>3, CloneKeeps
<1> QED BY <1>3, <1>4, <1>5, <1>6, <1>7 DEF ListenersHere

-----------------------------------------------------------------------------
(* A call returns. *)

(* What the returns have in common. *)
LEMMA Returning ==
  ASSUME InstanceInv, calls # << >>, Frame.todo = {}, UNCHANGED <<proto, instance>>,
         NEW n, n = Len(calls) - 1,
         \/ calls' = Under
         \/ \E f \in Frames : calls' = Append(Under, f)
  PROVE  /\ n \in Nat /\ DOMAIN calls = 1 .. (n + 1) /\ calls[n + 1] = Frame
         /\ 1 .. n \subseteq DOMAIN calls \cap DOMAIN calls'
         /\ \A i \in DOMAIN calls \ (1 .. n) : calls[i].todo = {}
         /\ \A l : Kept(l, n)
         /\ \A l : Pending(l) => Pending(l)'
         /\ calls' \in Seq(Frames)
         /\ calls' = Under => DOMAIN calls' = 1 .. n
         /\ \A f \in Frames : calls' = Append(Under, f) =>
              DOMAIN calls' = 1 .. (n + 1) /\ calls'[n + 1] = f
<1>1. InstanceTypes
  BY DEF InstanceInv
<1>2. /\ Len(calls) \in Nat \ {0} /\ DOMAIN calls = 1 .. Len(calls)
      /\ Frame = calls[Len(calls)] /\ Len(Under) = Len(calls) - 1
      /\ Under \in Seq(Frames)
      /\ \A i \in 1 .. (Len(calls) - 1) : Under[i] = calls[i]
  BY <1>1, FrameTyped
<1>3. n \in Nat /\ Len(calls) = n + 1 /\ DOMAIN Under = 1 .. n
  BY <1>2, LenProperties
<1>4. \A i \in 1 .. n : calls'[i] = calls[i]
  <2>1. CASE calls' = Under
    BY <2>1, <1>2
  <2>2. ASSUME NEW f \in Frames, calls' = Append(Under, f)
        PROVE  \A i \in 1 .. n : calls'[i] = calls[i]
    BY <2>2, <1>1, TopReplaced
  <2> QED BY <2>1, <2>2
<1>5. /\ calls' \in Seq(Frames)
      /\ calls' = Under => DOMAIN calls' = 1 .. n
      /\ \A f \in Frames : calls' = Append(Under, f) =>
           DOMAIN calls' = 1 .. (n + 1) /\ calls'[n + 1] = f
  <2>1. CASE calls' = Under
    <3>1. \A f \in Frames : Append(Under, f) # Under
      <4> SUFFICES ASSUME NEW f \in Frames PROVE Append(Under, f) # Under
        OBVIOUS
      <4>1. Len(Append(Under, f)) = Len(calls)
        BY <1>1, TopReplaced
      <4> QED BY <1>2, <4>1
    <3> QED BY <2>1, <3>1, <1>2, <1>3
  <2>2. ASSUME NEW f \in Frames, calls' = Append(Under, f)
        PROVE  calls' \in Seq(Frames) /\ DOMAIN calls' = 1 .. (n + 1) /\ calls'[n + 1] = f /\ calls' # Under
    <3>1. /\ Append(Under, f) \in Seq(Frames) /\ Len(Append(Under, f)) = Len(calls)
          /\ DOMAIN Append(Under, f) = 1 .. Len(calls)
          /\ Append(Under, f)[Len(calls)] = f
      BY <1>1, TopReplaced
    <3>2. Append(Under, f) # Under
      BY <1>2, <3>1
    <3> QED BY <2>2, <3>1, <3>2, <1>3
  <2> QED BY <2>1, <2>2
<1>6. /\ 1 .. n \subseteq DOMAIN calls \cap DOMAIN calls'
      /\ \A i \in DOMAIN calls \ (1 .. n) : calls[i].todo = {}
  <2>1. DOMAIN calls' = 1 .. n \/ DOMAIN calls' = 1 .. (n + 1)
    BY <1>5
  <2>2. DOMAIN calls \ (1 .. n) = {n + 1}
    BY <1>2, <1>3
  <2> QED BY <1>2, <1>3, <2>1, <2>2
<1>7. \A l : Kept(l, n)
  BY <1>4 DEF Kept
<1>8. ASSUME NEW l, Pending(l) PROVE Pending(l)'
  <2>1. PICK i \in DOMAIN calls : l \in calls[i].todo
    BY <1>8 DEF Pending
  <2>2. i \in 1 .. n
    BY <1>6, <2>1
  <2> QED BY <1>4, <1>6, <2>1, <2>2 DEF Pending
<1> QED BY <1>2, <1>3, <1>5, <1>6, <1>7, <1>8

(* A call that only returns. *)
LEMMA OnlyReturns ==
  ASSUME InstanceInv, calls # << >>, Frame.todo = {}, calls' = Under,
         UNCHANGED <<proto, instance, value, outValue, heard, late, histories, events>>,
         outTime' \in 0 .. LastStamp,
         Frame.op = "emit" \/ IsEventOut(proto.kind)
  PROVE  InstanceInv'
<1>1. PICK n : n = Len(calls) - 1
  OBVIOUS
<1>2. /\ n \in Nat /\ DOMAIN calls = 1 .. (n + 1) /\ calls[n + 1] = Frame
      /\ 1 .. n \subseteq DOMAIN calls \cap DOMAIN calls'
      /\ \A i \in DOMAIN calls \ (1 .. n) : calls[i].todo = {}
      /\ \A l : Kept(l, n)
      /\ \A l : Pending(l) => Pending(l)'
      /\ calls' \in Seq(Frames) /\ DOMAIN calls' = 1 .. n
  BY <1>1, Returning
<1>3. /\ InstanceTypes /\ made /\ Wired /\ Frame \in Frames
  BY FrameTyped DEF InstanceInv
<1>4. /\ proto' = proto /\ made' = made /\ clones' = clones /\ wires' = wires /\ Frames' = Frames
      /\ Wired' /\ lastIn' = lastIn /\ overtaken' = overtaken /\ events' = events
      /\ value' = value /\ outValue' = outValue /\ heard' = heard /\ late' = late
  BY <1>3, SameInstance DEF histories
<1>5. InstanceTypes'
  BY <1>2, <1>3, <1>4 DEF InstanceTypes
<1>6. HeardInv' /\ OutInv'
  BY <1>2, <1>4 DEF InstanceInv, HeardInv, OutInv, SingleOut, IsEventOut, Pending, End
<1>7. ASSUME ~overtaken PROVE NotOvertaken'
  <2>1. NotOvertaken
    BY <1>7 DEF InstanceInv
  <2>2. PICK v : v = Sent(calls[n + 1])
    OBVIOUS
  <2>3. n + 1 \in DOMAIN calls
    BY <1>2
  <2>4. PICK l : l = End("none")
    OBVIOUS
  <2>5. \A q \in clones : /\ value'[q] = value[q] \/ value'[q] = v
                          /\ l = Clone(q) => value'[q] = v
    BY <1>4, <2>4 DEF Clone, End
  <2>6. UNCHANGED histories /\ (outValue' = outValue \/ outValue' = v)
    BY <1>4
  <2>7. Kept(l, n) /\ \E i \in DOMAIN calls : Sent(calls[i]) = v
    BY <1>2, <2>2, <2>3
  <2>8. \A i \in DOMAIN calls' \ (1 .. n) : Arrives(i)' /\ Sent(calls[i])' = v
    BY <1>2
  <2>9. /\ \A i \in DOMAIN calls' : Arrives(i)'
        /\ OneValue' /\ InInv'
    BY <1>2, <1>3, <2>1, <2>5, <2>6, <2>7, <2>8, StepKeeps
  <2>10. FieldInv'
    <3>1. CASE IsEventOut(proto.kind)
      BY <1>4, <3>1 DEF FieldInv, IsEventOut
    <3>2. CASE Frame.op = "emit"
      <4>1. \A i \in DOMAIN calls : calls[i].op = "in" => i \in 1 .. n
        BY <1>2, <3>2
      <4>2. \A i \in 1 .. n : calls'[i].op = calls[i].op
        BY <1>2 DEF Kept
      <4> QED BY <1>2, <1>4, <2>1, <4>1, <4>2
           DEF NotOvertaken, FieldInv, SingleOut, IsEventOut, Pending, End
    <3> QED BY <3>1, <3>2
  <2> QED BY <2>9, <2>10 DEF NotOvertaken
<1> QED BY <1>4, <1>5, <1>6, <1>7 DEF InstanceInv

LEMMA EmitReturnsKeeps ==
  ASSUME InstanceInv, EmitReturns
  PROVE  InstanceInv'
<1>1. /\ calls # << >> /\ Frame.todo = {} /\ calls' = Under /\ Frame.op = "emit"
      /\ UNCHANGED <<proto, instance, value, outValue, heard, late, histories, events>>
      /\ outTime' = IF Frame.from.kind = "out" THEN Frame.at ELSE outTime
  BY DEF EmitReturns, Delivering
<1>2. Frame.at \in 1 .. LastStamp /\ outTime \in 0 .. LastStamp
  BY <1>1, FrameTyped DEF InstanceInv, InstanceTypes, Frames
<1>3. outTime' \in 0 .. LastStamp
  BY <1>1, <1>2, ProtoInstanceAssumption
<1> QED BY <1>1, <1>3, OnlyReturns

LEMMA InReturnsKeeps ==
  ASSUME InstanceInv, InReturns
  PROVE  InstanceInv'
<1>1. /\ calls # << >> /\ Frame.todo = {} /\ Frame.op = "in"
      /\ UNCHANGED <<proto, instance, value, outTime, heard, histories, events>>
  BY DEF InReturns, Delivering
<1>2. InstanceTypes /\ made /\ Wired /\ Frame \in Frames /\ proto \in Definitions
      /\ Frame.at \in 1 .. LastStamp /\ Frame.event \in 1 .. MaxEvents
  BY <1>1, FrameTyped DEF InstanceInv, InstanceTypes, Frames
<1>3. CASE IsEventOut(proto.kind)
  <2>1. calls' = Under /\ UNCHANGED <<outValue, late>>
    BY <1>3 DEF InReturns
  <2>2. outTime' \in 0 .. LastStamp
    BY <1>1, <1>2 DEF InstanceTypes
  <2> QED BY <1>1, <1>3, <2>1, <2>2, OnlyReturns
<1>4. CASE ~IsEventOut(proto.kind)
  <2> DEFINE f == OutSends(Frame.at, Frame.event)
  <2>1. calls' = Append(Under, f) /\ outValue' = Sent(Frame) /\ late' = FALSE
    BY <1>4 DEF InReturns
  <2>2. f \in Frames /\ f.op = "emit" /\ f.from = End("out") /\ f.todo = OutTodo
    BY <1>2, OutSendsTyped
  <2> HIDE DEF f
  <2>3. PICK n : n = Len(calls) - 1
    OBVIOUS
  <2>4. /\ n \in Nat /\ DOMAIN calls = 1 .. (n + 1) /\ calls[n + 1] = Frame
        /\ 1 .. n \subseteq DOMAIN calls \cap DOMAIN calls'
        /\ \A i \in DOMAIN calls \ (1 .. n) : calls[i].todo = {}
        /\ \A l : Kept(l, n)
        /\ \A l : Pending(l) => Pending(l)'
        /\ calls' \in Seq(Frames)
        /\ DOMAIN calls' = 1 .. (n + 1) /\ calls'[n + 1] = f
    BY <1>1, <2>1, <2>2, <2>3, Returning
  <2>5. /\ proto' = proto /\ made' = made /\ clones' = clones /\ wires' = wires /\ Frames' = Frames
        /\ Wired' /\ lastIn' = lastIn /\ overtaken' = overtaken /\ events' = events
        /\ value' = value /\ heard' = heard /\ outTime' = outTime
    BY <1>1, <1>2, SameInstance DEF histories
  <2>6. Sent(Frame) \in Values
    BY <1>2, SentTyped
  <2>7. InstanceTypes'
    BY <1>2, <2>1, <2>4, <2>5, <2>6 DEF InstanceTypes
  <2>8. HeardInv'
    <3>1. End("world") \in f.todo /\ n + 1 \in DOMAIN calls'
      BY <2>2, <2>4 DEF OutTodo
    <3>2. Pending(End("world"))'
      BY <2>4, <3>1 DEF Pending, End
    <3> QED BY <3>2 DEF HeardInv
  <2>9. OutInv'
    BY <1>4, <2>5 DEF OutInv, IsEventOut
  <2>10. ASSUME ~overtaken PROVE NotOvertaken'
    <3>1. NotOvertaken
      BY <2>10 DEF InstanceInv
    <3>2. PICK v : v = Sent(Frame)
      OBVIOUS
    <3>3. n + 1 \in DOMAIN calls /\ DOMAIN calls' \ (1 .. n) = {n + 1} /\ n + 1 \in DOMAIN calls'
      BY <2>4
    <3>4. PICK l : l = End("none")
      OBVIOUS
    <3>5. \A q \in clones : /\ value'[q] = value[q] \/ value'[q] = v
                            /\ l = Clone(q) => value'[q] = v
      BY <2>5, <3>4 DEF Clone, End
    <3>6. UNCHANGED histories /\ (outValue' = outValue \/ outValue' = v)
      BY <2>1, <2>5, <3>2 DEF histories
    <3>7. Kept(l, n) /\ \E i \in DOMAIN calls : Sent(calls[i]) = v
      BY <2>4, <3>2, <3>3
    <3>8. Arrives(n + 1)' /\ Sent(calls[n + 1])' = v
      <4>1. SentOf(f, value', outValue') = v
        BY <2>1, <2>2, <3>2 DEF SentOf, End
      <4> QED BY <2>2, <2>4, <4>1, SentIs DEF Arrives
    <3>9. \A i \in DOMAIN calls' \ (1 .. n) : Arrives(i)' /\ Sent(calls[i])' = v
      BY <3>3, <3>8
    <3>10. UNCHANGED <<proto, instance>>
      BY <1>1
    <3>11. /\ \A i \in DOMAIN calls' : Arrives(i)'
           /\ OneValue' /\ InInv'
      BY <1>2, <2>4, <3>1, <3>5, <3>6, <3>7, <3>9, <3>10, StepKeeps
    <3>12. \A p \in wires.ins : value[p] = v
      <4>1. Arrives(n + 1) /\ calls[n + 1].op = "in" /\ calls[n + 1].todo = {}
        BY <1>1, <2>4, <3>1, <3>3 DEF NotOvertaken
      <4> QED BY <4>1, <2>4, <3>2 DEF Arrives
    <3>13. wires.outs = wires.ins
      BY <1>2, <1>4 DEF Wired
    <3>14. FieldInv'
      BY <2>1, <2>5, <3>2, <3>12, <3>13 DEF FieldInv
    <3> QED BY <3>11, <3>14 DEF NotOvertaken
  <2> QED BY <2>5, <2>7, <2>8, <2>9, <2>10 DEF InstanceInv
<1> QED BY <1>3, <1>4

-----------------------------------------------------------------------------
(* An event comes from outside. *)

(* Another call begins, whoever sends the event. *)
LEMMA Begins ==
  ASSUME InstanceInv, made, UNCHANGED <<proto, instance, outVars>>,
         events' = events + 1, events < MaxEvents,
         NEW f, f \in Frames, calls' = Append(calls, f)
  PROVE  /\ calls' \in Seq(Frames) /\ Len(calls) \in Nat /\ DOMAIN calls' = 1 .. (Len(calls) + 1)
         /\ calls'[Len(calls) + 1] = f
         /\ \A l : Pending(l) => Pending(l)'
         /\ \A l \in f.todo : Pending(l)'
         /\ (/\ value' \in [clones -> Values] /\ lastIn' \in Values \cup {NoValue}
             /\ overtaken' \in BOOLEAN) => InstanceTypes'
         /\ HeardInv'
<1>1. InstanceTypes /\ calls \in Seq(Frames)
  BY DEF InstanceInv, InstanceTypes
<1>2. /\ calls' \in Seq(Frames) /\ Len(calls') = Len(calls) + 1 /\ Len(calls) \in Nat
      /\ DOMAIN calls = 1 .. Len(calls) /\ DOMAIN calls' = 1 .. Len(calls')
      /\ \A i \in 1 .. Len(calls) : calls'[i] = calls[i]
      /\ calls'[Len(calls) + 1] = f
  BY <1>1, AppendProperties, LenProperties
<1>3. \A i \in DOMAIN calls : i \in DOMAIN calls' /\ calls'[i] = calls[i]
  BY <1>2
<1>4. \A l : Pending(l) => Pending(l)'
  BY <1>3 DEF Pending
<1>5. Len(calls) + 1 \in DOMAIN calls'
  BY <1>2
<1>6. \A l \in f.todo : Pending(l)'
  BY <1>2, <1>5 DEF Pending
<1>7. /\ proto' = proto /\ made' = made /\ clones' = clones /\ wires' = wires /\ Frames' = Frames
      /\ (Wired' <=> Wired)
      /\ outValue' = outValue /\ outTime' = outTime /\ heard' = heard /\ late' = late
  BY SameInstance DEF outVars
<1>8. events' \in 0 .. MaxEvents
  BY <1>1, ProtoInstanceAssumption DEF InstanceTypes
<1>9. ASSUME value' \in [clones -> Values], lastIn' \in Values \cup {NoValue}, overtaken' \in BOOLEAN
      PROVE  InstanceTypes'
  BY <1>1, <1>2, <1>7, <1>8, <1>9 DEF InstanceTypes
<1>10. HeardInv'
  BY <1>4, <1>7 DEF InstanceInv, HeardInv, Pending, End
<1> QED BY <1>2, <1>4, <1>6, <1>9, <1>10

LEMMA InstanceEventKeeps ==
  ASSUME InstanceInv, InstanceEvent
  PROVE  InstanceInv'
<1>1. PICK v \in Values, at \in 1 .. LastStamp :
        /\ Outside(at)
        /\ calls' = Append(calls, InPasses(End("world"), v, at, events'))
        /\ overtaken' = (calls # << >>)
        /\ lastIn' = IF calls = << >> THEN v ELSE lastIn
        /\ value' = value
  BY DEF InstanceEvent
<1>2. /\ made /\ events < MaxEvents /\ events' = events + 1
      /\ UNCHANGED <<proto, instance, outVars>>
  BY <1>1 DEF Outside
<1>3. InstanceTypes /\ Wired /\ events' \in 1 .. MaxEvents /\ proto \in Definitions
  BY <1>2, ProtoInstanceAssumption DEF InstanceInv, InstanceTypes
<1> DEFINE f == InPasses(End("world"), v, at, events')
<1>4. /\ f \in Frames /\ f.op = "in" /\ f.from = End("world") /\ f.v = v
      /\ f.todo = InTodo
  BY <1>3, InPassesTyped
<1>5. calls' = Append(calls, f)
  BY <1>1
<1> HIDE DEF f
<1>6. /\ Len(calls) \in Nat /\ DOMAIN calls' = 1 .. (Len(calls) + 1)
      /\ calls'[Len(calls) + 1] = f
      /\ \A l : Pending(l) => Pending(l)'
      /\ \A l \in f.todo : Pending(l)'
      /\ (/\ value' \in [clones -> Values] /\ lastIn' \in Values \cup {NoValue}
          /\ overtaken' \in BOOLEAN) => InstanceTypes'
      /\ HeardInv'
  BY <1>2, <1>4, <1>5, Begins
<1>7. /\ proto' = proto /\ wires' = wires /\ value' = value
      /\ outValue' = outValue /\ late' = late
  BY <1>1, <1>2 DEF instance, outVars
<1>8. InstanceTypes'
  BY <1>1, <1>3, <1>6 DEF InstanceTypes
<1>9. OutInv'
  BY <1>6, <1>7 DEF InstanceInv, OutInv, SingleOut, IsEventOut, Pending, End
<1>10. ASSUME ~overtaken' PROVE NotOvertaken'
  <2>1. calls = << >> /\ lastIn' = v
    BY <1>1, <1>10
  <2>2. DOMAIN calls' = {1} /\ calls'[1] = f
    <3>1. Len(calls) = 0
      BY <2>1
    <3> QED BY <3>1, <1>6
  <2>3. Sent(calls[1])' = v
    <3>1. SentOf(f, value', outValue') = v
      BY <1>4 DEF SentOf, End
    <3> QED BY <2>2, <3>1, SentIs
  <2>4. Arrives(1)'
    BY <1>4, <1>7, <2>2 DEF Arrives, InTodo, Clone
  <2>5. OneValue'
    BY <2>2, <2>3 DEF OneValue
  <2>6. FieldInv'
    BY <1>4, <2>2 DEF FieldInv
  <2>7. \A p \in wires.ins : Pending(Clone(p))'
    BY <1>4, <1>6 DEF InTodo
  <2>8. InInv'
    BY <1>7, <2>1, <2>2, <2>3, <2>7 DEF InInv, Pending, Clone
  <2> QED BY <2>2, <2>4, <2>5, <2>6, <2>8 DEF NotOvertaken
<1> QED BY <1>6, <1>8, <1>9, <1>10 DEF InstanceInv

LEMMA BodyEventKeeps ==
  ASSUME InstanceInv, BodyEvent
  PROVE  InstanceInv'
<1>1. PICK v \in Values, at \in 1 .. LastStamp, p \in clones :
        /\ Outside(at)
        /\ value' = [value EXCEPT ![p] = v]
        /\ calls' = Append(calls, CloneSends(p, at, events'))
        /\ overtaken' = (overtaken \/ calls # << >>)
        /\ lastIn' = NoValue
  BY DEF BodyEvent
<1>2. /\ made /\ events < MaxEvents /\ events' = events + 1
      /\ UNCHANGED <<proto, instance, outVars>>
  BY <1>1 DEF Outside
<1>3. InstanceTypes /\ Wired /\ events' \in 1 .. MaxEvents /\ proto \in Definitions
  BY <1>2, ProtoInstanceAssumption DEF InstanceInv, InstanceTypes
<1> DEFINE f == CloneSends(p, at, events')
<1>4. f \in Frames /\ f.op = "emit" /\ f.from = Clone(p) /\ f.todo = CloneTodo(p)
  BY <1>3, CloneSendsTyped
<1>5. calls' = Append(calls, f)
  BY <1>1
<1> HIDE DEF f
<1>6. /\ Len(calls) \in Nat /\ DOMAIN calls' = 1 .. (Len(calls) + 1)
      /\ calls'[Len(calls) + 1] = f
      /\ \A l : Pending(l) => Pending(l)'
      /\ \A l \in f.todo : Pending(l)'
      /\ (/\ value' \in [clones -> Values] /\ lastIn' \in Values \cup {NoValue}
          /\ overtaken' \in BOOLEAN) => InstanceTypes'
      /\ HeardInv'
  BY <1>2, <1>4, <1>5, Begins
<1>7. /\ proto' = proto /\ wires' = wires /\ outValue' = outValue /\ late' = late
  BY <1>1, <1>2 DEF instance, outVars
<1>8. /\ value' \in [clones -> Values] /\ \A q \in clones : q # p => value'[q] = value[q]
  BY <1>1, <1>3 DEF InstanceTypes
<1>9. InstanceTypes'
  BY <1>1, <1>3, <1>6, <1>8 DEF InstanceTypes
<1>10. \A q \in wires.outs : value'[q] = value[q] \/ Pending(End("out"))'
  <2> SUFFICES ASSUME NEW q \in wires.outs
               PROVE  value'[q] = value[q] \/ Pending(End("out"))'
    OBVIOUS
  <2>1. q \in clones
    BY <1>3, WiresTyped
  <2>2. q = p => End("out") \in f.todo
    BY <1>4 DEF CloneTodo
  <2>3. \A m : m \in f.todo => Pending(m)'
    BY <1>6
  <2>4. q = p => Pending(End("out"))'
    BY <2>2, <2>3
  <2> QED BY <1>8, <2>1, <2>4
<1>11. OutInv'
  BY <1>6, <1>7, <1>10 DEF InstanceInv, OutInv, SingleOut, IsEventOut, Pending, End
<1>12. ASSUME ~overtaken' PROVE NotOvertaken'
  <2>1. calls = << >> /\ ~overtaken
    BY <1>1, <1>12
  <2>2. DOMAIN calls' = {1} /\ calls'[1] = f
    <3>1. Len(calls) = 0
      BY <2>1
    <3> QED BY <3>1, <1>6
  <2>3. Arrives(1)' /\ OneValue'
    BY <1>4, <2>2 DEF Arrives, OneValue
  <2>4. FieldInv'
    <3>1. \A q \in wires.outs : ~IsEventOut(proto.kind) /\ SingleOut /\ ~late => value[q] = outValue
      BY <2>1 DEF InstanceInv, NotOvertaken, FieldInv, Pending
    <3> QED BY <1>7, <1>10, <3>1 DEF FieldInv, SingleOut, IsEventOut, Pending, End
  <2>5. InInv'
    BY <1>1 DEF InInv
  <2> QED BY <2>2, <2>3, <2>4, <2>5 DEF NotOvertaken
<1> QED BY <1>6, <1>9, <1>11, <1>12 DEF InstanceInv

LEMMA SourceChangesKeeps ==
  ASSUME InstanceInv, SourceChanges
  PROVE  InstanceInv'
<1>1. /\ overtaken' = TRUE
      /\ UNCHANGED <<proto, instance, value, outVars, lastIn, events>>
  BY DEF SourceChanges
<1>2. PICK i \in DOMAIN calls, v \in Values :
        calls[i].from.kind = "world" /\ calls' = [calls EXCEPT ![i].v = v]
  BY DEF SourceChanges
<1>3. InstanceTypes /\ calls # << >>
  <2>1. calls # << >>
    OBVIOUS
  <2> QED BY <2>1 DEF InstanceInv
<1>4. /\ \A j \in DOMAIN calls : calls[j] \in Frames
      /\ calls \in Seq(Frames)
  BY <1>3, FrameTyped DEF InstanceTypes
<1> DEFINE g == [calls[i] EXCEPT !.v = v]
<1>5. g \in Frames /\ g.todo = calls[i].todo
  <2>1. PICK f \in Frames : f = calls[i]
    BY <1>4
  <2> DEFINE R == [op : {"emit", "in"}, from : ListenersHere, v : Values \cup {NoValue},
                   at : 1 .. LastStamp, event : 1 .. MaxEvents, todo : SUBSET ListenersHere]
  <2>2. f \in R /\ (FromClone(f) \/ FromOut(f) \/ Passing(f))
    BY DEF Frames
  <2>3. /\ g \in R /\ g.op = f.op /\ g.from = f.from /\ g.v = v /\ g.todo = f.todo
    BY <2>1, <2>2
  <2> HIDE DEF R, g
  <2>4. f.from.kind = "world"
    BY <1>2, <2>1
  <2>5. ~FromClone(f)
    <3> SUFFICES ASSUME FromClone(f) PROVE FALSE
      OBVIOUS
    <3>1. PICK p \in clones : f.from = Clone(p)
      BY DEF FromClone
    <3>2. f.from.kind = "clone"
      BY <3>1 DEF Clone
    <3> QED BY <2>4, <3>2
  <2>6. ~FromOut(f) /\ f.from # End("out")
    BY <2>4 DEF FromOut, End
  <2>7. f.op = "in" /\ f.todo \subseteq InTodo /\ f.from = End("world")
    BY <2>2, <2>5, <2>6 DEF Passing
  <2>8. Passing(g)
    BY <2>3, <2>7 DEF Passing
  <2> QED BY <2>1, <2>3, <2>8 DEF Frames, R
<1>6. calls' = [calls EXCEPT ![i] = g]
  BY <1>2
<1> HIDE DEF g
<1>7. /\ calls' \in Seq(Frames) /\ DOMAIN calls' = DOMAIN calls
      /\ \A j \in DOMAIN calls : calls'[j].todo = calls[j].todo
  <2>1. calls' \in Seq(Frames) /\ DOMAIN calls' = DOMAIN calls
    BY <1>4, <1>5, <1>6, ExceptSeq
  <2> QED BY <1>4, <1>5, <1>6, <2>1
<1>8. /\ proto' = proto /\ made' = made /\ clones' = clones /\ wires' = wires /\ Frames' = Frames
      /\ (Wired' <=> Wired)
      /\ value' = value /\ lastIn' = lastIn /\ events' = events
      /\ outValue' = outValue /\ outTime' = outTime /\ heard' = heard /\ late' = late
  BY <1>1, SameInstance DEF outVars
<1>9. calls' = << >> <=> calls = << >>
  BY <1>2, <1>7
<1>10. InstanceTypes'
  BY <1>1, <1>3, <1>7, <1>8, <1>9 DEF InstanceTypes
<1>11. \A l : Pending(l) => Pending(l)'
  BY <1>7 DEF Pending
<1>12. HeardInv' /\ OutInv'
  BY <1>8, <1>11 DEF InstanceInv, HeardInv, OutInv, SingleOut, IsEventOut, Pending, End
<1> QED BY <1>1, <1>10, <1>12 DEF InstanceInv

-----------------------------------------------------------------------------
(***************************************************************************)
(* The invariant of an instance (proto.cpp, event.h): what does not have   *)
(* the last value yet is on its way to be sent it, and as long as nothing  *)
(* overtakes the last event, all calls in progress send its value.         *)
(***************************************************************************)
LEMMA NothingChanges ==
  ASSUME InstanceInv,
         UNCHANGED <<proto, instance, value, outValue, outTime, heard, late, histories, calls, events>>
  PROVE  InstanceInv'
<1>1. /\ proto' = proto /\ made' = made /\ clones' = clones /\ wires' = wires /\ Frames' = Frames
      /\ (Wired' <=> Wired)
      /\ value' = value /\ lastIn' = lastIn /\ overtaken' = overtaken /\ events' = events
      /\ outValue' = outValue /\ outTime' = outTime /\ heard' = heard /\ late' = late
      /\ calls' = calls
  BY SameInstance DEF histories
<1>2. InstanceTypes'
  BY <1>1 DEF InstanceInv, InstanceTypes
<1>3. \A l : Pending(l) <=> Pending(l)'
  BY <1>1 DEF Pending
<1>4. HeardInv' /\ OutInv'
  BY <1>1, <1>3 DEF InstanceInv, HeardInv, OutInv, SingleOut, IsEventOut, Pending, End
<1>5. \A i : Sent(calls[i])' = Sent(calls[i])
  BY <1>1 DEF Sent
<1>6. NotOvertaken => NotOvertaken'
  <2>1. \A i : Arrives(i) => Arrives(i)'
    BY <1>1, <1>5 DEF Arrives, Clone
  <2>2. OneValue => OneValue'
    BY <1>1, <1>5 DEF OneValue
  <2>3. FieldInv => FieldInv'
    BY <1>1 DEF FieldInv, SingleOut, IsEventOut, Pending, End
  <2>4. InInv => InInv'
    BY <1>1, <1>5 DEF InInv, Pending, Clone
  <2> QED BY <1>1, <2>1, <2>2, <2>3, <2>4 DEF NotOvertaken
<1> QED BY <1>1, <1>2, <1>4, <1>6 DEF InstanceInv

LEMMA MakeInstanceKeeps ==
  ASSUME InstanceInv, CreateInstance
  PROVE  InstanceInv'
<1>1. ~made /\ UNCHANGED <<proto, histories, calls, events>>
  BY DEF CreateInstance
<1>2. CASE (\E n \in NodesNamed : Endless(n)) \/ (\E n \in NodesNamed : PathsTo(n) = {})
  <2>1. UNCHANGED <<instance, value, outVars>>
    BY <1>2 DEF CreateInstance
  <2> QED BY <1>1, <2>1, NothingChanges DEF outVars
<1>3. CASE ~(\E n \in NodesNamed : Endless(n)) /\ ~(\E n \in NodesNamed : PathsTo(n) = {})
  <2>1. PICK given \in Values :
          /\ made' = TRUE
          /\ clones' = Cloned
          /\ wires' = [routes |-> {<<Resolve(r[1]), Resolve(r[2])>> : r \in proto.body.routes},
                       ins |-> {Resolve(n) : n \in proto.ins},
                       outs |-> {Resolve(n) : n \in proto.outs}]
          /\ value' = [p \in Cloned |-> InitialValue(p, given)]
          /\ outValue' = IF IsEventOut(proto.kind) THEN 0 ELSE given
          /\ UNCHANGED <<outTime, heard, late>>
    BY <1>3 DEF CreateInstance
  <2>2. /\ InstanceTypes /\ proto \in Definitions /\ proto' = proto /\ calls' = << >>
        /\ heard' = NoValue /\ lastIn' = NoValue /\ events' = events /\ overtaken' = overtaken
    BY <1>1, <2>1 DEF InstanceInv, InstanceTypes, histories
  <2>3. Cloned' = Cloned /\ \A n : PathsTo(n)' = PathsTo(n) /\ Resolve(n)' = Resolve(n)
    BY <2>2, SameCloned, SameResolve
  <2>4. /\ \A n \in NodesNamed : PathsTo(n) # {}
        /\ NodesNamed' = NodesNamed
    BY <1>3, <2>2 DEF NodesNamed
  <2>5. ~IsEventOut(proto.kind) => proto.outs = proto.ins
    BY <2>2 DEF Definitions, IsEventOut
  <2>6. Wired'
    BY <2>1, <2>2, <2>3, <2>4, <2>5 DEF Wired, IsEventOut
  <2>7. \A p \in Cloned : InitialValue(p, given) \in Values
    BY DEF InitialValue, Values
  <2>8. value' \in [clones' -> Values] /\ outValue' \in Values
    BY <2>1, <2>7 DEF Values
  <2>9. InstanceTypes'
    BY <2>1, <2>2, <2>6, <2>8 DEF InstanceTypes
  <2>10. HeardInv'
    BY <2>2 DEF HeardInv
  <2>11. \A p \in wires'.outs : value'[p] = outValue'
    <3>1. \A n \in proto.outs : Resolve(n) \in Cloned /\ NodeAt(Resolve(n)) = n
      BY <2>2, <2>4, ResolveFindsAClone DEF NodesNamed
    <3>2. \A n \in proto.outs : value'[Resolve(n)] = outValue'
      <4> SUFFICES ASSUME NEW n \in proto.outs PROVE value'[Resolve(n)] = outValue'
        OBVIOUS
      <4>1. value'[Resolve(n)] = InitialValue(Resolve(n), given)
        BY <2>1, <3>1
      <4>2. InitialValue(Resolve(n), given) = IF IsEventOut(proto.kind) THEN 0 ELSE given
        BY <2>5, <3>1 DEF InitialValue
      <4> QED BY <2>1, <4>1, <4>2
    <3> QED BY <2>1, <3>2
  <2>12. OutInv' /\ FieldInv'
    BY <2>11 DEF OutInv, FieldInv
  <2>13. \A i \in DOMAIN calls' : FALSE
    BY <2>2
  <2>14. NotOvertaken'
    BY <2>2, <2>12, <2>13 DEF NotOvertaken, OneValue, InInv
  <2> QED BY <2>9, <2>10, <2>12, <2>14 DEF InstanceInv
<1> QED BY <1>2, <1>3

LEMMA InstanceInitHolds ==
  ASSUME InstanceInit
  PROVE  InstanceInv
<1>1. calls = << >> /\ clones = {} /\ wires = [routes |-> {}, ins |-> {}, outs |-> {}] /\ value = << >>
  BY DEF InstanceInit
<1>2. value \in [clones -> Values] /\ calls \in Seq(Frames)
  BY <1>1
<1>3. InstanceTypes
  <2>1. 0 \in 0 .. LastStamp /\ 0 \in 0 .. MaxEvents
    BY ProtoInstanceAssumption
  <2>2. /\ proto \in Definitions /\ made = FALSE /\ late = FALSE /\ overtaken = FALSE
        /\ outValue = 0 /\ outTime = 0 /\ heard = NoValue /\ lastIn = NoValue /\ events = 0
    BY DEF InstanceInit
  <2> QED BY <1>1, <1>2, <2>1, <2>2 DEF InstanceTypes, Values
<1>4. HeardInv /\ OutInv
  BY <1>1 DEF InstanceInit, HeardInv, OutInv
<1>5. NotOvertaken
  BY <1>1 DEF InstanceInit, NotOvertaken, OneValue, FieldInv, InInv
<1> QED BY <1>3, <1>4, <1>5 DEF InstanceInv

THEOREM InstanceInvariant == InstanceSpec => []InstanceInv
<1>1. ASSUME InstanceInv, [InstanceNext]_piVars PROVE InstanceInv'
  <2>1. CASE CreateInstance
    BY <1>1, <2>1, MakeInstanceKeeps
  <2>2. CASE InstanceEvent
    BY <1>1, <2>2, InstanceEventKeeps
  <2>3. CASE BodyEvent
    BY <1>1, <2>3, BodyEventKeeps
  <2>4. CASE SourceChanges
    BY <1>1, <2>4, SourceChangesKeeps
  <2>5. CASE NextListener
    BY <1>1, <2>5, NextListenerKeeps
  <2>6. CASE EmitReturns
    BY <1>1, <2>6, EmitReturnsKeeps
  <2>7. CASE InReturns
    BY <1>1, <2>7, InReturnsKeeps
  <2>8. CASE StackOverflow
    BY <1>1, <2>8, NothingChanges DEF StackOverflow, outVars
  <2>9. CASE UNCHANGED piVars
    BY <1>1, <2>9, NothingChanges DEF piVars, outVars
  <2> QED BY <1>1, <2>1, <2>2, <2>3, <2>4, <2>5, <2>6, <2>7, <2>8, <2>9 DEF InstanceNext
<1>2. InstanceInit => InstanceInv
  BY InstanceInitHolds
<1> QED BY <1>1, <1>2, PTL DEF InstanceSpec

(* An event for the instance changes every node of its body that the       *)
(* definition maps it to (InReachesBody).                                  *)
THEOREM EventsReachTheBody == InstanceSpec => []InReachesBody
<1>1. InstanceInv => InReachesBody
  <2> SUFFICES ASSUME InstanceInv, AtRest, lastIn # NoValue, ~overtaken, NEW p \in clones,
                      NodeAt(p) \in proto.ins, ~Shared(NodeAt(p))
               PROVE  value[p] = lastIn
    BY DEF InReachesBody
  <2>1. /\ proto \in Definitions /\ Wired /\ p \in Cloned /\ calls = << >>
    BY DEF InstanceInv, InstanceTypes, AtRest, Wired
  <2>2. Resolve(NodeAt(p)) = p
    BY <2>1, ResolveFindsTheClone
  <2>3. p \in wires.ins
    BY <2>1, <2>2 DEF Wired
  <2>4. ~Pending(Clone(p))
    BY <2>1 DEF Pending
  <2> QED BY <2>3, <2>4 DEF InstanceInv, NotOvertaken, InInv
<1> QED BY <1>1, InstanceInvariant, PTL

(* What the world has heard of the instance, what the instance has and     *)
(* what the body has agree (OutFollowsBody).                               *)
THEOREM OutputFollowsTheBody == InstanceSpec => []OutFollowsBody
<1>1. InstanceInv => OutFollowsBody
  <2> SUFFICES ASSUME InstanceInv, AtRest
               PROVE  OutFollowsBody
    BY DEF OutFollowsBody
  <2>1. calls = << >>
    BY DEF AtRest
  <2>2. \A l : ~Pending(l)
    BY <2>1 DEF Pending
  <2>3. heard # NoValue => heard = outValue
    BY <2>2 DEF InstanceInv, HeardInv
  <2>4. ASSUME ~late, SingleOut, overtaken => IsEventOut(proto.kind), NEW p \in wires.outs
        PROVE  value[p] = outValue
    <3>1. CASE IsEventOut(proto.kind)
      BY <2>2, <2>4, <3>1 DEF InstanceInv, OutInv
    <3>2. CASE ~IsEventOut(proto.kind)
      BY <2>1, <2>2, <2>4, <3>2 DEF InstanceInv, NotOvertaken, FieldInv
    <3> QED BY <3>1, <3>2
  <2> QED BY <2>3, <2>4 DEF OutFollowsBody, SingleOut
<1> QED BY <1>1, InstanceInvariant, PTL

-----------------------------------------------------------------------------
(***************************************************************************)
(* The nodes along a path: each is in a field of the one before it.        *)
(***************************************************************************)
ChildAt(n, k) == IF n # NoNode /\ k \in DOMAIN Children(n) THEN Children(n)[k] ELSE NoNode

Walk(p, m, at) == at = [k \in 0 .. m |-> IF k = 0 THEN Body ELSE ChildAt(at[k - 1], p[k])]

LEMMA WalksExist ==
  ASSUME NEW p, NEW m \in Nat
  PROVE  \E at : Walk(p, m, at)
<1> DEFINE Bad == {k \in Nat : ~\E at : Walk(p, k, at)}
<1>1. SUFFICES ASSUME Bad # {} PROVE FALSE
  OBVIOUS
<1>2. PICK k \in Bad : \A j \in Bad : k <= j
  BY <1>1, LeastElement
<1>3. k # 0
  <2>1. Walk(p, 0, [j \in 0 .. 0 |-> Body])
    BY DEF Walk
  <2> QED BY <2>1, <1>2
<1>4. k - 1 \in Nat /\ k - 1 \notin Bad
  BY <1>2, <1>3
<1>5. PICK at : Walk(p, k - 1, at)
  BY <1>4
<1> DEFINE next == [j \in 0 .. k |-> IF j = k THEN ChildAt(at[k - 1], p[k]) ELSE at[j]]
<1>6. ASSUME NEW j \in 0 .. k
      PROVE  next[j] = IF j = 0 THEN Body ELSE ChildAt(next[j - 1], p[j])
  <2>0. \A i \in 0 .. (k - 1) : at[i] = IF i = 0 THEN Body ELSE ChildAt(at[i - 1], p[i])
    BY <1>4, <1>5 DEF Walk
  <2>1. CASE j = k
    <3>1. k - 1 \in 0 .. k /\ k - 1 # k
      BY <1>4
    <3>2. next[k - 1] = at[k - 1] /\ next[k] = ChildAt(at[k - 1], p[k])
      BY <3>1
    <3> QED BY <2>1, <3>2, <1>3
  <2>2. CASE j # k
    <3>1. j \in 0 .. (k - 1) /\ (j # 0 => j - 1 \in 0 .. k /\ j - 1 # k)
      BY <2>2, <1>4
    <3>2. next[j] = at[j] /\ (j # 0 => next[j - 1] = at[j - 1])
      BY <2>2, <3>1
    <3> QED BY <2>0, <3>1, <3>2
  <2> QED BY <2>1, <2>2
<1>7. Walk(p, k, next)
  <2> HIDE DEF next
  <2>1. next = [j \in 0 .. k |-> next[j]]
    BY DEF next
  <2>2. next = [j \in 0 .. k |-> IF j = 0 THEN Body ELSE ChildAt(next[j - 1], p[j])]
    BY <1>6, <2>1
  <2> QED BY <2>2 DEF Walk
<1> QED BY <1>2, <1>7

(* Two walks go the same way as long as their paths do. *)
LEMMA WalksAgree ==
  ASSUME NEW p, NEW q, NEW l \in Nat, NEW m \in Nat, NEW n \in Nat, n <= l, n <= m,
         NEW f, NEW g, Walk(p, l, f), Walk(q, m, g), \A k \in 1 .. n : p[k] = q[k]
  PROVE  f[n] = g[n]
<1> DEFINE Bad == {k \in 0 .. n : f[k] # g[k]}
<1>0. /\ \A k \in 0 .. l : f[k] = IF k = 0 THEN Body ELSE ChildAt(f[k - 1], p[k])
      /\ \A k \in 0 .. m : g[k] = IF k = 0 THEN Body ELSE ChildAt(g[k - 1], q[k])
  BY DEF Walk
<1>1. SUFFICES ASSUME Bad # {} PROVE FALSE
  BY <1>1
<1>2. PICK k \in Bad : \A j \in Bad : k <= j
  <2>1. Bad \subseteq Nat
    OBVIOUS
  <2> HIDE DEF Bad
  <2> QED BY <1>1, <2>1, LeastElement
<1>3. k \in 0 .. l /\ k \in 0 .. m
  BY <1>2
<1>4. k # 0
  BY <1>0, <1>2, <1>3
<1>5. k - 1 \in 0 .. n /\ k - 1 \notin Bad /\ k \in 1 .. n
  BY <1>2, <1>4
<1>6. f[k - 1] = g[k - 1] /\ p[k] = q[k]
  BY <1>5
<1> QED BY <1>0, <1>2, <1>3, <1>4, <1>6

LEMMA NodeAtWalks ==
  ASSUME NEW p \in Path
  PROVE  \E at : Walk(p, Len(p), at) /\ NodeAt(p) = at[Len(p)]
<1>1. Len(p) \in Nat
  BY LenProperties DEF Path
<1> DEFINE at == CHOOSE f : Walk(p, Len(p), f)
<1>2. Walk(p, Len(p), at)
  BY <1>1, WalksExist
<1>3. NodeAt(p) = at[Len(p)]
  BY DEF NodeAt, Walk, ChildAt
<1> QED BY <1>2, <1>3

(* A node at the end of a path is a child of the one before it. *)
LEMMA NodeAtChild ==
  ASSUME NEW p \in Path, p # << >>
  PROVE  NodeAt(p) = ChildAt(NodeAt(Front(p)), p[Len(p)])
<1>1. /\ Len(p) \in Nat \ {0} /\ p \in Seq(Nat)
      /\ Front(p) \in Path /\ Len(Front(p)) = Len(p) - 1
      /\ \A k \in 1 .. (Len(p) - 1) : Front(p)[k] = p[k]
  BY LenProperties, EmptySeq, FrontProperties DEF Path
<1>2. PICK f : Walk(p, Len(p), f) /\ NodeAt(p) = f[Len(p)]
  BY NodeAtWalks
<1>3. PICK g : Walk(Front(p), Len(Front(p)), g) /\ NodeAt(Front(p)) = g[Len(Front(p))]
  BY <1>1, NodeAtWalks
<1>4. f[Len(p)] = ChildAt(f[Len(p) - 1], p[Len(p)])
  <2>1. \A k \in 0 .. Len(p) : f[k] = IF k = 0 THEN Body ELSE ChildAt(f[k - 1], p[k])
    BY <1>2 DEF Walk
  <2>2. Len(p) \in 0 .. Len(p) /\ Len(p) # 0
    BY <1>1
  <2> QED BY <2>1, <2>2
<1>5. f[Len(p) - 1] = g[Len(p) - 1]
  <2>1. Len(p) - 1 \in Nat /\ Len(p) - 1 <= Len(p) /\ Len(p) \in Nat
    BY <1>1
  <2>2. Walk(Front(p), Len(p) - 1, g)
    BY <1>1, <1>3
  <2>3. \A k \in 1 .. (Len(p) - 1) : p[k] = Front(p)[k]
    BY <1>1
  <2> QED BY <1>2, <2>1, <2>2, <2>3, WalksAgree
<1> QED BY <1>1, <1>2, <1>3, <1>4, <1>5

LEMMA ShapeTyped ==
  ASSUME proto \in Definitions
  PROVE  /\ proto.body \in Bodies /\ proto.feedback \in BOOLEAN
         /\ proto.body.fields \in [Nodes \cup {Body} -> Seq(Nodes)]
         /\ proto.body.routes \subseteq Nodes \X Nodes
         /\ proto.ins \subseteq Nodes /\ proto.outs \subseteq Nodes
BY ProtoInstanceAssumption DEF Definitions

LEMMA ChildAtTyped ==
  ASSUME proto \in Definitions, NEW n \in Nodes \cup {Body, NoNode}, NEW k,
         ChildAt(n, k) # NoNode
  PROVE  /\ ChildAt(n, k) \in Nodes /\ n \in Nodes \cup {Body}
         /\ ChildAt(n, k) \in Range(proto.body.fields[n])
<1>1. n # NoNode /\ k \in DOMAIN Children(n) /\ ChildAt(n, k) = Children(n)[k]
  BY DEF ChildAt
<1>2. Children(n) = proto.body.fields[n]
  BY <1>1 DEF Children
<1>3. n \in Nodes \cup {Body} /\ proto.body.fields[n] \in Seq(Nodes)
  BY <1>1, ShapeTyped
<1>4. PICK s \in Seq(Nodes) : s = proto.body.fields[n]
  BY <1>3
<1>5. k \in 1 .. Len(s) /\ ChildAt(n, k) = s[k]
  BY <1>1, <1>2, <1>4, LenProperties
<1>6. s[k] \in Nodes
  BY <1>5, ElementOfSeq
<1> QED BY <1>1, <1>2, <1>3, <1>4, <1>5, <1>6 DEF Range

LEMMA WalkTyped ==
  ASSUME proto \in Definitions, NEW p, NEW m \in Nat, NEW at, Walk(p, m, at)
  PROVE  \A k \in 0 .. m : at[k] \in Nodes \cup {Body, NoNode}
<1> DEFINE Bad == {k \in 0 .. m : at[k] \notin Nodes \cup {Body, NoNode}}
<1>0. \A k \in 0 .. m : at[k] = IF k = 0 THEN Body ELSE ChildAt(at[k - 1], p[k])
  BY DEF Walk
<1>1. SUFFICES ASSUME Bad # {} PROVE FALSE
  BY <1>1
<1>2. PICK k \in Bad : \A j \in Bad : k <= j
  <2>1. Bad \subseteq Nat
    OBVIOUS
  <2> HIDE DEF Bad
  <2> QED BY <1>1, <2>1, LeastElement
<1>3. k # 0
  BY <1>0, <1>2
<1>4. k - 1 \in 0 .. m /\ k - 1 \notin Bad
  BY <1>2, <1>3
<1>5. at[k - 1] \in Nodes \cup {Body, NoNode}
  BY <1>4
<1>6. ChildAt(at[k - 1], p[k]) \in Nodes \cup {NoNode}
  BY <1>5, ChildAtTyped
<1> QED BY <1>0, <1>2, <1>3, <1>6

(* A path leads to nodes of the body only, each in a field of the last.    *)
LEMMA NodeAtTyped ==
  ASSUME proto \in Definitions, NEW p \in Path, p # << >>, NodeAt(p) # NoNode
  PROVE  /\ NodeAt(p) \in Nodes /\ NodeAt(Front(p)) \in Nodes \cup {Body}
         /\ NodeAt(p) \in Range(proto.body.fields[NodeAt(Front(p))])
<1>1. Front(p) \in Path
  BY FrontProperties DEF Path
<1>2. PICK at : Walk(Front(p), Len(Front(p)), at) /\ NodeAt(Front(p)) = at[Len(Front(p))]
  BY <1>1, NodeAtWalks
<1>3. Len(Front(p)) \in Nat
  BY <1>1, LenProperties DEF Path
<1>4. NodeAt(Front(p)) \in Nodes \cup {Body, NoNode}
  BY <1>2, <1>3, WalkTyped
<1>5. NodeAt(p) = ChildAt(NodeAt(Front(p)), p[Len(p)])
  BY NodeAtChild
<1> QED BY <1>4, <1>5, ChildAtTyped

-----------------------------------------------------------------------------
(* The rest of the type invariant: what the bounds of the model hold. *)

LEMMA FrameCount ==
  ASSUME InstanceTypes, calls # << >>, NEW f, NEW g
  PROVE  /\ Len(Under) = Len(calls) - 1 /\ Len(calls) \in Nat
         /\ Len(Append(Under, f)) = Len(calls)
         /\ Len(Calling(f, g)) = Len(calls) + 1
<1> DEFINE S == Frames \cup {f, g}
<1>1. Under \in Seq(Frames) /\ Len(Under) = Len(calls) - 1 /\ Len(calls) \in Nat
  BY FrameTyped
<1>2. Under \in Seq(S)
  BY <1>1, SeqDef
<1>3. Append(Under, f) \in Seq(S) /\ Len(Append(Under, f)) = Len(Under) + 1
  BY <1>2, AppendProperties
<1>4. Len(Append(Append(Under, f), g)) = Len(Append(Under, f)) + 1
  BY <1>3, AppendProperties
<1> QED BY <1>1, <1>3, <1>4 DEF Calling

Bounds ==
  /\ Len(calls) <= MaxFrames + 1
  /\ broken \in {"none", "endless search", "assert", "overflow"}

LEMMA BoundsKept == InstanceTypes /\ Bounds /\ [InstanceNext]_piVars => Bounds'
<1> SUFFICES ASSUME InstanceTypes, Bounds, [InstanceNext]_piVars PROVE Bounds'
  OBVIOUS
<1>1. MaxFrames \in Nat /\ MaxEvents \in Nat
  BY ProtoInstanceAssumption
<1>2. CASE CreateInstance \/ StackOverflow \/ UNCHANGED piVars
  BY <1>2 DEF CreateInstance, StackOverflow, piVars, Bounds
<1>3. CASE InstanceEvent \/ BodyEvent \/ SourceChanges
  <2>1. /\ Len(calls) <= MaxFrames /\ broken' = broken
        /\ \/ \E f : calls' = Append(calls, f)
           \/ \E i, v : calls' = [calls EXCEPT ![i].v = v]
    BY <1>3 DEF InstanceEvent, BodyEvent, SourceChanges, Delivering, Outside
  <2>2. \A f : Len(Append(calls, f)) = Len(calls) + 1 /\ Len(calls) \in Nat
    <3> SUFFICES ASSUME NEW f PROVE Len(Append(calls, f)) = Len(calls) + 1 /\ Len(calls) \in Nat
      OBVIOUS
    <3>1. calls \in Seq(Frames)
      BY DEF InstanceTypes
    <3>2. calls \in Seq(Frames \cup {f}) /\ Len(calls) \in Nat
      BY <3>1, SeqDef, LenProperties
    <3> QED BY <3>2, AppendProperties
  <2>3. \A i, v : Len([calls EXCEPT ![i].v = v]) = Len(calls)
    <3> SUFFICES ASSUME NEW i, NEW v PROVE Len([calls EXCEPT ![i].v = v]) = Len(calls)
      OBVIOUS
    <3>1. calls \in Seq(Frames)
      BY DEF InstanceTypes
    <3> DEFINE g == [calls[i] EXCEPT !.v = v]
    <3>2. calls \in Seq(Frames \cup {g})
      BY <3>1, SeqDef
    <3>3. [calls EXCEPT ![i].v = v] = [calls EXCEPT ![i] = g]
      OBVIOUS
    <3> HIDE DEF g
    <3>4. CASE i \in DOMAIN calls
      <4>1. Len([calls EXCEPT ![i] = g]) = Len(calls)
        BY <3>2, <3>4, ExceptSeq
      <4> QED BY <3>3, <4>1
    <3>5. CASE i \notin DOMAIN calls
      <4>1. calls = [j \in DOMAIN calls |-> calls[j]]
        BY <3>1
      <4>2. [calls EXCEPT ![i] = g] = calls
        BY <4>1, <3>5
      <4> QED BY <3>3, <4>2
    <3> QED BY <3>4, <3>5
  <2>4. Len(calls') = Len(calls) + 1 \/ Len(calls') = Len(calls)
    BY <2>1, <2>2, <2>3
  <2>5. Len(calls') <= MaxFrames + 1
    <3> DEFINE a == Len(calls)
               b == Len(calls')
    <3>1. a \in Nat /\ a <= MaxFrames /\ (b = a \/ b = a + 1)
      BY <2>1, <2>2, <2>4
    <3> HIDE DEF a, b
    <3>2. b <= MaxFrames + 1
      BY <3>1, <1>1
    <3> QED BY <3>2 DEF b
  <2> QED BY <2>1, <2>5 DEF Bounds
<1>4. CASE NextListener
  <2>1. calls # << >> /\ Len(calls) <= MaxFrames /\ broken' = broken
    BY <1>4 DEF NextListener, Delivering
  <2>2. \E f, g : calls' = Append(Under, f) \/ calls' = Calling(f, g)
    BY <1>4 DEF NextListener, ProcessOut, ProcessWorld, ProcessIn, ProcessClone
  <2>3. Len(calls') = Len(calls) \/ Len(calls') = Len(calls) + 1
    BY <2>1, <2>2, FrameCount
  <2>4. Len(calls) \in Nat
    BY <2>1, FrameCount
  <2>5. Len(calls') <= MaxFrames + 1
    <3> DEFINE a == Len(calls)
               b == Len(calls')
    <3>1. a \in Nat /\ a <= MaxFrames /\ (b = a - 1 \/ b = a \/ b = a + 1)
      BY <2>1, <2>3, <2>4
    <3> HIDE DEF a, b
    <3>2. b <= MaxFrames + 1
      BY <3>1, <1>1
    <3> QED BY <3>2 DEF b
  <2> QED BY <2>1, <2>5 DEF Bounds
<1>5. CASE EmitReturns \/ InReturns
  <2>1. calls # << >> /\ Len(calls) <= MaxFrames /\ broken' = broken
    BY <1>5 DEF EmitReturns, InReturns, Delivering
  <2>2. \E f : calls' = Under \/ calls' = Append(Under, f)
    BY <1>5 DEF EmitReturns, InReturns
  <2>3. Len(calls') = Len(calls) - 1 \/ Len(calls') = Len(calls)
    BY <2>1, <2>2, FrameCount
  <2>4. Len(calls) \in Nat
    BY <2>1, FrameCount
  <2>5. Len(calls') <= MaxFrames + 1
    <3> DEFINE a == Len(calls)
               b == Len(calls')
    <3>1. a \in Nat /\ a <= MaxFrames /\ (b = a - 1 \/ b = a \/ b = a + 1)
      BY <2>1, <2>3, <2>4
    <3> HIDE DEF a, b
    <3>2. b <= MaxFrames + 1
      BY <3>1, <1>1
    <3> QED BY <3>2 DEF b
  <2> QED BY <2>1, <2>5 DEF Bounds
<1> QED BY <1>2, <1>3, <1>4, <1>5 DEF InstanceNext

LEMMA BoundsAlways == InstanceSpec => []Bounds
<1>1. InstanceInit => Bounds
  <2> SUFFICES ASSUME InstanceInit PROVE Bounds
    OBVIOUS
  <2>1. Len(calls) = 0 /\ events = 0 /\ broken = "none"
    BY EmptySeq DEF InstanceInit
  <2> QED BY <2>1, ProtoInstanceAssumption DEF Bounds
<1>2. InstanceInv => InstanceTypes
  BY DEF InstanceInv
<1> QED BY <1>1, <1>2, BoundsKept, InstanceInvariant, PTL DEF InstanceSpec

(* Every variable has its type, for every body and every wiring. *)
THEOREM InstanceTypeCorrect == InstanceSpec => []InstanceTypeOK
<1>1. InstanceInv /\ Bounds => InstanceTypeOK
  <2> SUFFICES ASSUME InstanceInv, Bounds PROVE InstanceTypeOK
    OBVIOUS
  <2>1. InstanceTypes
    BY DEF InstanceInv
  <2>2. wires.ins \cup wires.outs \subseteq clones /\ wires.routes \subseteq clones \X clones
    BY <2>1, WiresTyped DEF InstanceTypes
  <2>3. \A p \in clones : NodeAt(p) \in Nodes
    <3> SUFFICES ASSUME NEW p \in clones PROVE NodeAt(p) \in Nodes
      OBVIOUS
    <3>1. p \in Cloned
      BY <2>1 DEF InstanceTypes, Wired
    <3>2. proto \in Definitions
      BY <2>1 DEF InstanceTypes
    <3>3. p \in Path /\ p # << >> /\ NodeAt(p) # NoNode
      BY <3>1, <3>2, ClonedPaths DEF Cloned, Visited
    <3> QED BY <3>2, <3>3, NodeAtTyped
  <2> QED BY <2>1, <2>2, <2>3 DEF InstanceTypes, Bounds, InstanceTypeOK
<1> QED BY <1>1, BoundsAlways, InstanceInvariant, PTL

-----------------------------------------------------------------------------
(***************************************************************************)
(* What stops the program.  A search is endless only for a Script that     *)
(* refers to itself.                                                       *)
(***************************************************************************)
LEMMA EndlessSearchesFindASelf ==
  ASSUME proto \in Definitions, NEW n, Endless(n)
  PROVE  \E m \in Nodes : m \in Range(proto.body.fields[m])
<1>1. PICK s \in Visited : IsSelf(s)
  BY DEF Endless
<1>2. s \in Path
  BY <1>1, BoundedPaths DEF Visited
<1>3. s # << >> /\ NodeAt(s) # NoNode /\ NodeAt(s) = NodeAt(Front(s))
  BY <1>1 DEF Visited, IsSelf
<1> QED BY <1>2, <1>3, NodeAtTyped

(***************************************************************************)
(* A body holds all its nodes: some path leads to each, and never by way   *)
(* of a reference of a node to itself.                                     *)
(***************************************************************************)
Leads(body, p, at) ==
  /\ at[0] = Body
  /\ \A k \in 1 .. Len(p) :
       /\ p[k] \in DOMAIN body.fields[at[k - 1]]
       /\ at[k] = body.fields[at[k - 1]][p[k]]
       /\ at[k] # at[k - 1]

BodiesAreWhole ==
  \A b \in Bodies : b.opaque = {} =>
    \A n \in Nodes : \E p \in Seq(Nat) :
      \E at \in [0 .. Len(p) -> Nodes \cup {Body}] :
        p # << >> /\ Len(p) <= MaxPath /\ Leads(b, p, at) /\ at[Len(p)] = n

LEMMA NodeAtPrefix ==
  ASSUME NEW p \in Path, NEW at, Walk(p, Len(p), at),
         NEW q \in Path, Len(q) <= Len(p), \A k \in 1 .. Len(q) : q[k] = p[k]
  PROVE  NodeAt(q) = at[Len(q)]
<1>1. Len(p) \in Nat /\ Len(q) \in Nat
  BY LenProperties DEF Path
<1>2. PICK g : Walk(q, Len(q), g) /\ NodeAt(q) = g[Len(q)]
  BY NodeAtWalks
<1>3. g[Len(q)] = at[Len(q)]
  BY <1>1, <1>2, WalksAgree
<1> QED BY <1>2, <1>3

LEMMA WholeBodiesHaveClones ==
  ASSUME BodiesAreWhole, proto \in Definitions, proto.body.opaque = {}, NEW n \in Nodes
  PROVE  PathsTo(n) # {}
<1>0. proto.body \in Bodies
  BY ShapeTyped
<1>1. PICK p \in Seq(Nat) :
        \E at \in [0 .. Len(p) -> Nodes \cup {Body}] :
          p # << >> /\ Len(p) <= MaxPath /\ Leads(proto.body, p, at) /\ at[Len(p)] = n
  BY <1>0 DEF BodiesAreWhole
<1>2. PICK at \in [0 .. Len(p) -> Nodes \cup {Body}] :
        p # << >> /\ Len(p) <= MaxPath /\ Leads(proto.body, p, at) /\ at[Len(p)] = n
  BY <1>1
<1>3. p \in Path /\ p \in Seq(Nat) /\ Len(p) \in Nat \ {0}
  BY <1>2, LenProperties, EmptySeq DEF Path
<1>4. NoNode \notin Nodes \cup {Body}
  BY ProtoInstanceAssumption
<1>5. Walk(p, Len(p), at)
  <2>1. ASSUME NEW k \in 0 .. Len(p)
        PROVE  at[k] = IF k = 0 THEN Body ELSE ChildAt(at[k - 1], p[k])
    <3>1. CASE k = 0
      BY <3>1, <1>2 DEF Leads
    <3>2. CASE k # 0
      <4>1. k \in 1 .. Len(p) /\ k - 1 \in 0 .. Len(p)
        BY <3>2, <1>3
      <4>2. at[k - 1] # NoNode
        BY <4>1, <1>2, <1>4
      <4>3. Children(at[k - 1]) = proto.body.fields[at[k - 1]]
        BY DEF Children
      <4> QED BY <3>2, <4>1, <4>2, <4>3, <1>2 DEF Leads, ChildAt
    <3> QED BY <3>1, <3>2
  <2>2. at = [k \in 0 .. Len(p) |-> at[k]]
    OBVIOUS
  <2>3. at = [k \in 0 .. Len(p) |-> IF k = 0 THEN Body ELSE ChildAt(at[k - 1], p[k])]
    BY <2>1, <2>2
  <2> QED BY <2>3 DEF Walk
<1>6. NodeAt(p) = n
  BY <1>2, <1>3, <1>5, NodeAtPrefix
<1>7. ASSUME NEW k \in 1 .. Len(p) PROVE ~IsSelf(SubSeq(p, 1, k))
  <2> DEFINE q == SubSeq(p, 1, k)
  <2>1. /\ q \in Seq(Nat) /\ Len(q) = k /\ \A j \in 1 .. k : q[j] = p[j]
    <3>1. \A j \in 1 .. k : p[j] \in Nat
      BY <1>3, ElementOfSeq
    <3>2. /\ q \in Seq(Nat) /\ Len(q) = IF 1 <= k THEN k - 1 + 1 ELSE 0
          /\ \A j \in 1 .. (k - 1 + 1) : q[j] = p[1 + j - 1]
      BY <1>3, <3>1, SubSeqProperties
    <3>3. k - 1 + 1 = k /\ \A j \in 1 .. k : 1 + j - 1 = j
      OBVIOUS
    <3> HIDE DEF q
    <3> QED BY <3>2, <3>3
  <2> HIDE DEF q
  <2>2. q # << >>
    BY <2>1, EmptySeq
  <2>3. /\ Front(q) \in Seq(Nat) /\ Len(Front(q)) = k - 1
        /\ \A j \in 1 .. (k - 1) : Front(q)[j] = p[j]
    <3>1. /\ Front(q) \in Seq(Nat) /\ Len(Front(q)) = Len(q) - 1
          /\ \A j \in 1 .. (Len(q) - 1) : Front(q)[j] = q[j]
      BY <2>1, <2>2, FrontProperties
    <3>2. \A j \in 1 .. (k - 1) : j \in 1 .. k
      OBVIOUS
    <3> QED BY <2>1, <3>1, <3>2
  <2>4. NodeAt(q) = at[k]
    BY <1>3, <1>5, <2>1, NodeAtPrefix DEF Path
  <2>5. NodeAt(Front(q)) = at[k - 1]
    <3>1. PICK r \in Path : r = Front(q)
      BY <2>3 DEF Path
    <3>2. Len(r) <= Len(p) /\ \A j \in 1 .. Len(r) : r[j] = p[j]
      BY <1>3, <2>3, <3>1
    <3>3. NodeAt(r) = at[Len(r)]
      BY <1>3, <1>5, <3>2, NodeAtPrefix
    <3> QED BY <2>3, <3>1, <3>3
  <2>6. at[k] # at[k - 1]
    BY <1>2 DEF Leads
  <2> QED BY <2>4, <2>5, <2>6 DEF IsSelf, q
<1>8. p \in BoundedSeq(Indices, MaxPath)
  <2>1. ASSUME NEW k \in 1 .. Len(p) PROVE p[k] \in Indices
    <3>1. k - 1 \in 0 .. Len(p)
      BY <1>3
    <3>2. at[k - 1] \in Nodes \cup {Body} /\ p[k] \in DOMAIN proto.body.fields[at[k - 1]]
      BY <1>2, <3>1 DEF Leads
    <3>3. p[k] \in DOMAIN Children(at[k - 1])
      BY <3>2 DEF Children
    <3> QED BY <3>2, <3>3 DEF Indices
  <2>2. DOMAIN p = 1 .. Len(p) /\ p = [k \in DOMAIN p |-> p[k]]
    BY <1>3, LenProperties
  <2>3. p \in [1 .. Len(p) -> Indices] /\ Len(p) \in 0 .. MaxPath
    BY <1>2, <1>3, <2>1, <2>2, ProtoInstanceAssumption
  <2> QED BY <2>3 DEF BoundedSeq, SeqOf
<1>9. p \in PathsTo(n)
  <2>1. n # NoNode
    BY <1>4
  <2> QED BY <1>2, <1>6, <1>7, <1>8, <2>1 DEF PathsTo, Cloned, Visited
<1> QED BY <1>9

-----------------------------------------------------------------------------
(***************************************************************************)
(* Without feedback, the calls of one event are one that passes it in, at  *)
(* the bottom, clones that have routes to each other, and the eventOut.    *)
(***************************************************************************)
Follows(f, g) ==
  /\ g.op = "emit"
  /\ \/ f.op = "in"
     \/ /\ f.from.kind = "clone"
        /\ g.from = End("out") \/ <<f.from.path, g.from.path>> \in wires.routes

Ordered ==
  /\ \A i \in DOMAIN calls : calls[i].event <= events
  /\ \A i, j \in DOMAIN calls : i <= j => calls[i].event <= calls[j].event
Chains ==
  \A i, j \in DOMAIN calls :
    j = i + 1 /\ calls[i].event = calls[j].event => Follows(calls[i], calls[j])

Chained == ~proto.feedback => Ordered /\ Chains

(* The calls that stay are chained as before; a new one may follow them.   *)
LEMMA ChainKept ==
  ASSUME InstanceTypes, InstanceTypes', Ordered, Chains, UNCHANGED <<proto, instance>>,
         NEW l, NEW n \in Nat, Kept(l, n), 1 .. n \subseteq DOMAIN calls,
         events' >= events,
         \/ DOMAIN calls' = 1 .. n
         \/ /\ DOMAIN calls' = 1 .. (n + 1)
            /\ calls'[n + 1].event <= events'
            /\ n # 0 =>
                 /\ calls[n].event <= calls'[n + 1].event
                 /\ calls[n].event = calls'[n + 1].event => Follows(calls[n], calls'[n + 1])
  PROVE  Ordered' /\ Chains'
<1>0. calls \in Seq(Frames) /\ calls' \in Seq(Frames') /\ wires' = wires
      /\ events \in Nat /\ events' \in Nat
  BY ProtoInstanceAssumption DEF InstanceTypes, instance
<1>1. /\ \A i \in DOMAIN calls : calls[i].event \in Nat
      /\ \A i \in DOMAIN calls' : calls'[i].event \in Nat
  <2>1. \A f \in Frames : f.event \in Nat
    BY DEF Frames
  <2>2. \A f \in Frames' : f.event \in Nat
    BY DEF Frames
  <2> QED BY <1>0, <2>1, <2>2, LenProperties, ElementOfSeq
<1>2. \A i \in 1 .. n :
        /\ calls'[i].op = calls[i].op /\ calls'[i].from = calls[i].from
        /\ calls'[i].event = calls[i].event
  BY DEF Kept
<1>3. \A i \in DOMAIN calls' : i \in 1 .. n \/ (i = n + 1 /\ DOMAIN calls' = 1 .. (n + 1))
  OBVIOUS
<1>4. \A i \in 1 .. n : i \in DOMAIN calls /\ i \in Nat
  OBVIOUS
<1>5. \A i \in 1 .. n : n \in DOMAIN calls /\ calls[i].event <= calls[n].event
  <2> SUFFICES ASSUME NEW i \in 1 .. n
               PROVE  n \in DOMAIN calls /\ calls[i].event <= calls[n].event
    OBVIOUS
  <2>1. n \in 1 .. n /\ i <= n
    OBVIOUS
  <2>2. n \in DOMAIN calls /\ i \in DOMAIN calls
    BY <2>1
  <2> QED BY <2>1, <2>2 DEF Ordered
<1>6. \A i \in DOMAIN calls' : calls'[i].event <= events'
  <2> SUFFICES ASSUME NEW i \in DOMAIN calls' PROVE calls'[i].event <= events'
    OBVIOUS
  <2>1. CASE i \in 1 .. n
    BY <2>1, <1>0, <1>1, <1>2, <1>4 DEF Ordered
  <2>2. CASE i = n + 1 /\ DOMAIN calls' = 1 .. (n + 1)
    <3>1. DOMAIN calls' # 1 .. n
      <4>1. n + 1 \in 1 .. (n + 1) /\ n + 1 \notin 1 .. n
        OBVIOUS
      <4> QED BY <2>2, <4>1
    <3> QED BY <2>2, <3>1
  <2> QED BY <1>3, <2>1, <2>2
<1>7. ASSUME NEW i \in DOMAIN calls', NEW j \in DOMAIN calls', i <= j
      PROVE  calls'[i].event <= calls'[j].event
  <2>1. CASE i \in 1 .. n /\ j \in 1 .. n
    BY <1>2, <1>4, <1>7, <2>1 DEF Ordered
  <2>2. CASE i \in 1 .. n /\ j = n + 1 /\ DOMAIN calls' = 1 .. (n + 1)
    <3>1. DOMAIN calls' # 1 .. n /\ n # 0
      <4>1. n + 1 \in 1 .. (n + 1) /\ n + 1 \notin 1 .. n
        OBVIOUS
      <4> QED BY <2>2, <4>1
    <3>2. calls[n].event <= calls'[n + 1].event
      BY <3>1
    <3>3. calls[i].event \in Nat /\ calls[n].event \in Nat /\ calls'[j].event \in Nat
          /\ calls[i].event <= calls[n].event /\ calls'[i].event = calls[i].event
      BY <1>1, <1>2, <1>4, <1>5, <2>2
    <3> QED BY <2>2, <3>2, <3>3
  <2>3. CASE i = n + 1
    <3>1. j = n + 1
      BY <1>3, <1>7, <2>3
    <3> QED BY <1>1, <2>3, <3>1
  <2> QED BY <1>3, <2>1, <2>2, <2>3
<1>8. ASSUME NEW i \in DOMAIN calls', NEW j \in DOMAIN calls', j = i + 1,
             calls'[i].event = calls'[j].event
      PROVE  Follows(calls[i], calls[j])'
  <2>1. CASE i \in 1 .. n /\ j \in 1 .. n
    <3>1. Follows(calls[i], calls[j])
      BY <1>2, <1>4, <1>8, <2>1 DEF Chains
    <3> QED BY <1>0, <1>2, <2>1, <3>1 DEF Follows, End
  <2>2. CASE i \in 1 .. n /\ j = n + 1 /\ DOMAIN calls' = 1 .. (n + 1)
    <3>1. DOMAIN calls' # 1 .. n /\ n # 0 /\ i = n
      <4>1. n + 1 \in 1 .. (n + 1) /\ n + 1 \notin 1 .. n
        OBVIOUS
      <4> QED BY <1>8, <2>2, <4>1
    <3>2. calls[n].event = calls'[n + 1].event => Follows(calls[n], calls'[n + 1])
      BY <3>1
    <3>3. Follows(calls[n], calls'[n + 1])
      BY <1>2, <1>8, <2>2, <3>1, <3>2
    <3> QED BY <1>0, <1>2, <2>2, <3>1, <3>3 DEF Follows, End
  <2>3. i # n + 1
    BY <1>3, <1>8
  <2> QED BY <1>3, <2>1, <2>2, <2>3
<1> QED BY <1>6, <1>7, <1>8 DEF Ordered, Chains

LEMMA ChainDelivery ==
  ASSUME InstanceInv, InstanceInv', NextListener, ~proto.feedback, Ordered, Chains
  PROVE  Ordered' /\ Chains'
<1>0. calls # << >> /\ UNCHANGED <<proto, instance>> /\ events' = events
      /\ InstanceTypes /\ InstanceTypes' /\ InstanceInv
  BY DEF NextListener, Delivering, InstanceInv
<1>1. PICK l \in Frame.todo :
        CASE l.kind = "out" -> ProcessOut([Frame EXCEPT !.todo = @ \ {l}])
          [] l.kind = "world" -> ProcessWorld([Frame EXCEPT !.todo = @ \ {l}])
          [] l.kind = "in" -> ProcessIn([Frame EXCEPT !.todo = @ \ {l}])
          [] OTHER -> ProcessClone(l.path, [Frame EXCEPT !.todo = @ \ {l}])
  BY DEF NextListener
<1>2. PICK n \in Nat, at \in 1 .. LastStamp, e \in 1 .. MaxEvents :
        n = Len(calls) /\ at = Frame.at /\ e = Frame.event
  BY <1>0, Taking
<1>3. /\ Wired /\ proto \in Definitions /\ n # 0 /\ n \in DOMAIN calls /\ DOMAIN calls = 1 .. n
      /\ Frame = calls[n] /\ Frame \in Frames /\ l \in ListenersHere
  BY <1>0, <1>2, Taking
<1> DEFINE caller == [Frame EXCEPT !.todo = @ \ {l}]
<1>4. caller.at = at /\ caller.event = e
  BY <1>2, <1>3, FrameTaken
<1>5. /\ calls' = Append(Under, caller) => DOMAIN calls' = 1 .. n /\ Kept(l, n)
      /\ \A f \in Frames : calls' = Calling(caller, f) =>
           DOMAIN calls' = 1 .. (n + 1) /\ Kept(l, n) /\ calls'[n + 1] = f
  BY <1>0, <1>2, <1>3, PassedOn
<1>6. events \in Nat /\ 1 .. n \subseteq DOMAIN calls /\ e <= events /\ calls[n].event = e
  BY <1>0, <1>2, <1>3, ProtoInstanceAssumption DEF InstanceTypes, Ordered
<1>7. /\ wires.routes \subseteq clones \X clones
      /\ End("in") \notin Frame.todo
      /\ \A q : Clone(q) \in Frame.todo =>
              \/ Passing(Frame) /\ q \in wires.ins
              \/ \E p \in clones : FromClone(Frame) /\ Frame.from = Clone(p) /\ <<p, q>> \in wires.routes
      /\ End("out") \in Frame.todo => \E p \in wires.outs : FromClone(Frame) /\ Frame.from = Clone(p)
  BY <1>3, WiresTyped, ListenersKnown
<1> HIDE DEF caller
<1>8. CASE calls' = Append(Under, caller)
  <2>1. DOMAIN calls' = 1 .. n /\ Kept(l, n)
    BY <1>5, <1>8
  <2> QED BY <1>0, <1>6, <2>1, ChainKept
<1>9. ASSUME NEW f \in Frames, calls' = Calling(caller, f), f.event = e, Follows(Frame, f)
      PROVE  Ordered' /\ Chains'
  <2>1. DOMAIN calls' = 1 .. (n + 1) /\ Kept(l, n) /\ calls'[n + 1] = f
    BY <1>5, <1>9
  <2>2. /\ calls'[n + 1].event <= events' /\ events' >= events
        /\ calls[n].event <= calls'[n + 1].event
        /\ Follows(calls[n], calls'[n + 1])
    BY <1>0, <1>3, <1>6, <1>9, <2>1
  <2> QED BY <1>0, <1>6, <2>1, <2>2, ChainKept
<1>10. CASE l = End("world")
  <2>1. ProcessWorld(caller)
    BY <1>1, <1>10 DEF caller, End
  <2> QED BY <1>8, <2>1 DEF ProcessWorld
<1>11. CASE l = End("out")
  <2>1. ProcessOut(caller)
    BY <1>1, <1>11 DEF caller, End
  <2>2. calls' = Append(Under, caller) \/ calls' = Calling(caller, OutSends(at, e))
    BY <1>4, <2>1 DEF ProcessOut
  <2>3. /\ OutSends(at, e) \in Frames /\ OutSends(at, e).event = e
        /\ OutSends(at, e).op = "emit" /\ OutSends(at, e).from = End("out")
    BY OutSendsTyped
  <2>4. Frame.from.kind = "clone"
    <3>1. End("out") \in Frame.todo
      BY <1>11
    <3>2. PICK p : Frame.from = Clone(p)
      BY <1>7, <3>1
    <3> QED BY <3>2 DEF Clone
  <2>5. Follows(Frame, OutSends(at, e))
    BY <2>3, <2>4 DEF Follows
  <2> QED BY <1>8, <1>9, <2>2, <2>3, <2>5
<1>12. CASE \E p \in clones : l = Clone(p)
  <2>1. PICK p \in clones : l = Clone(p)
    BY <1>12
  <2>2. ProcessClone(p, caller)
    BY <1>1, <2>1 DEF caller, Clone
  <2>3. calls' = Calling(caller, CloneSends(p, at, e))
    BY <1>4, <2>2 DEF ProcessClone
  <2>4. /\ CloneSends(p, at, e) \in Frames /\ CloneSends(p, at, e).event = e
        /\ CloneSends(p, at, e).op = "emit" /\ CloneSends(p, at, e).from = Clone(p)
    BY <1>3, CloneSendsTyped
  <2>5. Frame.op = "in" \/ \E q \in clones : Frame.from = Clone(q) /\ <<q, p>> \in wires.routes
    BY <1>7, <2>1 DEF Passing
  <2>6. Follows(Frame, CloneSends(p, at, e))
    <3>1. CloneSends(p, at, e).from.path = p
      BY <2>4 DEF Clone
    <3>2. ASSUME NEW q \in clones, Frame.from = Clone(q), <<q, p>> \in wires.routes
          PROVE  Frame.from.kind = "clone" /\ <<Frame.from.path, p>> \in wires.routes
      BY <3>2 DEF Clone
    <3> QED BY <2>4, <2>5, <3>1, <3>2 DEF Follows
  <2> QED BY <1>9, <2>3, <2>4, <2>6
<1> QED BY <1>3, <1>7, <1>10, <1>11, <1>12 DEF ListenersHere

LEMMA ChainReturns ==
  ASSUME InstanceInv, InstanceInv', EmitReturns \/ InReturns, Ordered, Chains
  PROVE  Ordered' /\ Chains'
<1>0. /\ calls # << >> /\ Frame.todo = {} /\ UNCHANGED <<proto, instance>> /\ events' = events
      /\ InstanceTypes /\ InstanceTypes' /\ InstanceInv
  BY DEF EmitReturns, InReturns, Delivering, InstanceInv
<1>1. PICK n : n = Len(calls) - 1
  OBVIOUS
<1>2. Frame \in Frames /\ Frame.at \in 1 .. LastStamp /\ Frame.event \in 1 .. MaxEvents
  BY <1>0, FrameTyped DEF Frames
<1>3. /\ OutSends(Frame.at, Frame.event) \in Frames
      /\ OutSends(Frame.at, Frame.event).event = Frame.event
  BY <1>2, OutSendsTyped
<1>4. \/ calls' = Under
      \/ calls' = Append(Under, OutSends(Frame.at, Frame.event)) /\ Frame.op = "in"
  BY DEF EmitReturns, InReturns
<1>5. /\ n \in Nat /\ DOMAIN calls = 1 .. (n + 1) /\ calls[n + 1] = Frame
      /\ 1 .. n \subseteq DOMAIN calls \cap DOMAIN calls'
      /\ Kept(End("none"), n)
      /\ calls' = Under => DOMAIN calls' = 1 .. n
      /\ \A f \in Frames : calls' = Append(Under, f) =>
           DOMAIN calls' = 1 .. (n + 1) /\ calls'[n + 1] = f
  BY <1>0, <1>1, <1>3, <1>4, Returning
<1>6. events \in Nat /\ n + 1 \in DOMAIN calls
  BY <1>0, <1>5, ProtoInstanceAssumption DEF InstanceTypes
<1>7. CASE calls' = Under
  BY <1>0, <1>5, <1>6, <1>7, ChainKept
<1>8. CASE calls' = Append(Under, OutSends(Frame.at, Frame.event)) /\ Frame.op = "in"
  <2>1. DOMAIN calls' = 1 .. (n + 1) /\ calls'[n + 1].event = Frame.event
    BY <1>3, <1>5, <1>8
  <2>2. Frame.event <= events
    BY <1>5, <1>6 DEF Ordered
  <2>3. n # 0 => /\ calls[n].event <= Frame.event
                 /\ calls[n].event # Frame.event
    <3> SUFFICES ASSUME n # 0
                 PROVE  calls[n].event <= Frame.event /\ calls[n].event # Frame.event
      OBVIOUS
    <3>1. n \in DOMAIN calls /\ n <= n + 1
      BY <1>5
    <3>2. calls[n].event <= Frame.event
      BY <1>5, <1>6, <3>1 DEF Ordered
    <3>3. ~Follows(calls[n], Frame)
      BY <1>8 DEF Follows
    <3> QED BY <1>5, <1>6, <3>1, <3>2, <3>3 DEF Chains
  <2>4. \/ DOMAIN calls' = 1 .. n
        \/ /\ DOMAIN calls' = 1 .. (n + 1)
           /\ calls'[n + 1].event <= events'
           /\ n # 0 =>
                /\ calls[n].event <= calls'[n + 1].event
                /\ calls[n].event = calls'[n + 1].event => Follows(calls[n], calls'[n + 1])
    BY <1>0, <2>1, <2>2, <2>3
  <2>5. events' >= events /\ 1 .. n \subseteq DOMAIN calls
    BY <1>0, <1>5, <1>6
  <2> QED BY <1>0, <1>5, <2>4, <2>5, ChainKept
<1> QED BY <1>4, <1>7, <1>8

LEMMA ChainBegins ==
  ASSUME InstanceInv, InstanceInv', InstanceEvent \/ BodyEvent, Ordered, Chains
  PROVE  Ordered' /\ Chains'
<1>1. PICK at \in 1 .. LastStamp :
        /\ Outside(at)
        /\ \/ \E v \in Values : calls' = Append(calls, InPasses(End("world"), v, at, events'))
           \/ \E p \in clones : calls' = Append(calls, CloneSends(p, at, events'))
  BY DEF InstanceEvent, BodyEvent
<1>2. /\ made /\ events < MaxEvents /\ events' = events + 1
      /\ UNCHANGED <<proto, instance, outVars>>
  BY <1>1 DEF Outside
<1>3. InstanceTypes /\ InstanceTypes' /\ Wired /\ events' \in 1 .. MaxEvents /\ proto \in Definitions
      /\ events \in Nat /\ calls \in Seq(Frames)
  BY <1>2, ProtoInstanceAssumption DEF InstanceInv, InstanceTypes
<1>4. PICK f \in Frames : calls' = Append(calls, f) /\ f.event = events'
  BY <1>1, <1>3, InPassesTyped, CloneSendsTyped
<1>5. /\ Len(calls) \in Nat /\ DOMAIN calls = 1 .. Len(calls)
      /\ DOMAIN calls' = 1 .. (Len(calls) + 1)
      /\ \A i \in 1 .. Len(calls) : calls'[i] = calls[i]
      /\ calls'[Len(calls) + 1] = f
  <2>1. Len(calls') = Len(calls) + 1 /\ calls' \in Seq(Frames)
    BY <1>3, <1>4, AppendProperties
  <2> QED BY <1>3, <1>4, <2>1, AppendProperties, LenProperties
<1>6. PICK n \in Nat : n = Len(calls)
  BY <1>5
<1>7. Kept(End("none"), n)
  BY <1>5, <1>6 DEF Kept
<1>8. n # 0 => calls[n].event <= events /\ calls[n].event \in Nat
  <2>1. n # 0 => n \in DOMAIN calls
    BY <1>5, <1>6
  <2>2. \A i \in DOMAIN calls : calls[i] \in Frames
    BY <1>3, <1>5, ElementOfSeq
  <2>3. \A g \in Frames : g.event \in Nat
    BY DEF Frames
  <2> QED BY <2>1, <2>2, <2>3 DEF Ordered
<1>9. /\ DOMAIN calls' = 1 .. (n + 1)
      /\ calls'[n + 1].event <= events'
      /\ n # 0 =>
           /\ calls[n].event <= calls'[n + 1].event
           /\ calls[n].event = calls'[n + 1].event => Follows(calls[n], calls'[n + 1])
  BY <1>2, <1>3, <1>4, <1>5, <1>6, <1>8
<1>10. events' >= events /\ 1 .. n \subseteq DOMAIN calls
  BY <1>2, <1>3, <1>5, <1>6
<1> QED BY <1>2, <1>3, <1>7, <1>9, <1>10, ChainKept

LEMMA ChainUnchanged ==
  ASSUME Ordered, Chains, wires' = wires, events' = events,
         DOMAIN calls' = DOMAIN calls,
         \A i \in DOMAIN calls : /\ calls'[i].op = calls[i].op /\ calls'[i].from = calls[i].from
                                 /\ calls'[i].event = calls[i].event
  PROVE  Ordered' /\ Chains'
<1>1. Ordered'
  BY DEF Ordered
<1>2. Chains'
  <2> SUFFICES ASSUME NEW i \in DOMAIN calls', NEW j \in DOMAIN calls', j = i + 1,
                      calls'[i].event = calls'[j].event
               PROVE  Follows(calls[i], calls[j])'
    BY DEF Chains
  <2>1. Follows(calls[i], calls[j])
    BY DEF Chains
  <2> QED BY <2>1 DEF Follows, End
<1> QED BY <1>1, <1>2

LEMMA ChainStep ==
  ASSUME InstanceInv, InstanceInv', Chained, [InstanceNext]_piVars
  PROVE  Chained'
<1>0. proto' = proto
  BY DEF InstanceNext, CreateInstance, InstanceEvent, BodyEvent, Outside, SourceChanges, NextListener,
         EmitReturns, InReturns, StackOverflow, piVars
<1> SUFFICES ASSUME ~proto.feedback, Ordered, Chains PROVE Ordered' /\ Chains'
  BY <1>0 DEF Chained
<1>1. CASE CreateInstance
  <2>1. calls' = << >>
    BY <1>1 DEF CreateInstance, InstanceInv, InstanceTypes
  <2> QED BY <2>1 DEF Ordered, Chains
<1>2. CASE StackOverflow \/ UNCHANGED piVars
  <2>1. calls' = calls /\ wires' = wires /\ events' = events
    BY <1>2 DEF StackOverflow, piVars, instance
  <2> QED BY <2>1, ChainUnchanged
<1>3. CASE InstanceEvent \/ BodyEvent
  BY <1>3, ChainBegins
<1>4. CASE NextListener
  BY <1>4, ChainDelivery
<1>5. CASE EmitReturns \/ InReturns
  BY <1>5, ChainReturns
<1>6. CASE SourceChanges
  <2>1. PICK i \in DOMAIN calls, v \in Values : calls' = [calls EXCEPT ![i].v = v]
    BY <1>6 DEF SourceChanges
  <2>2. wires' = wires /\ events' = events
    BY <1>6 DEF SourceChanges, instance
  <2>3. calls \in Seq(Frames)
    BY DEF InstanceInv, InstanceTypes
  <2>4. \A j \in DOMAIN calls : calls[j] \in Frames
    BY <2>3, LenProperties, ElementOfSeq
  <2>5. /\ DOMAIN calls' = DOMAIN calls
        /\ \A j \in DOMAIN calls : j # i => calls'[j] = calls[j]
        /\ calls'[i] = [calls[i] EXCEPT !.v = v]
    BY <2>1, <2>3
  <2>6. PICK f \in Frames : f = calls[i]
    BY <2>4
  <2>7. /\ calls'[i].op = f.op /\ calls'[i].from = f.from /\ calls'[i].event = f.event
    BY <2>5, <2>6 DEF Frames
  <2> QED BY <2>2, <2>5, <2>6, <2>7, ChainUnchanged
<1> QED BY <1>1, <1>2, <1>3, <1>4, <1>5, <1>6 DEF InstanceNext

LEMMA ChainAlways == InstanceSpec => []Chained
<1>1. InstanceInit => Chained
  BY DEF InstanceInit, Chained, Ordered, Chains
<1>2. InstanceInv /\ InstanceInv' /\ Chained /\ [InstanceNext]_piVars => Chained'
  BY ChainStep
<1> QED BY <1>1, <1>2, InstanceInvariant, PTL DEF InstanceSpec

(* What a frame stands for: the node of a clone, or one of the two ends. *)
Stands(f) == IF f.op = "in" THEN Body
             ELSE IF f.from.kind = "clone" THEN NodeAt(f.from.path) ELSE NoNode

LEMMA RoutesOfTheBody ==
  ASSUME proto \in Definitions, Wired, NEW p, NEW q, <<p, q>> \in wires.routes
  PROVE  <<NodeAt(p), NodeAt(q)>> \in proto.body.routes
<1>1. PICK r \in proto.body.routes : p = Resolve(r[1]) /\ q = Resolve(r[2])
  BY DEF Wired
<1>2. r[1] \in NodesNamed /\ r[2] \in NodesNamed
  BY DEF NodesNamed
<1>3. NodeAt(p) = r[1] /\ NodeAt(q) = r[2]
  BY <1>1, <1>2, ResolveFindsAClone DEF Wired
<1>4. r = <<r[1], r[2]>>
  BY ShapeTyped
<1> QED BY <1>3, <1>4

LEMMA StandsTyped ==
  ASSUME InstanceTypes, NEW f \in Frames, calls # << >>
  PROVE  /\ Stands(f) \in Nodes \cup {Body, NoNode}
         /\ Stands(f) \in Nodes => f.op = "emit" /\ f.from.kind = "clone"
         /\ Stands(f) = NoNode => f.op = "emit" /\ f.from.kind # "clone"
         /\ Stands(f) = Body => f.op = "in"
<1>1. Wired /\ proto \in Definitions /\ clones = Cloned
  BY FrameTyped DEF InstanceTypes, Wired
<1>2. Body \notin Nodes /\ NoNode \notin Nodes /\ NoNode # Body
  BY ProtoInstanceAssumption
<1>3. f.op = "in" \/ (f.op = "emit" /\ f.from = End("out"))
      \/ (f.op = "emit" /\ \E p \in clones : f.from = Clone(p))
  BY DEF Frames, FromClone, FromOut, Passing
<1>4. CASE f.op = "in"
  BY <1>2, <1>4 DEF Stands
<1>5. CASE f.op = "emit" /\ f.from = End("out")
  <2>1. f.op # "in" /\ f.from.kind # "clone"
    BY <1>5 DEF End
  <2> QED BY <1>2, <1>5, <2>1 DEF Stands
<1>6. CASE f.op = "emit" /\ \E p \in clones : f.from = Clone(p)
  <2>1. PICK p \in clones : f.from = Clone(p)
    BY <1>6
  <2>2. f.op # "in" /\ f.from.kind = "clone" /\ f.from.path = p
    BY <1>6, <2>1 DEF Clone
  <2>3. p \in Path /\ p # << >> /\ NodeAt(p) # NoNode
    BY <1>1, ClonedPaths DEF Cloned, Visited
  <2>4. NodeAt(p) \in Nodes
    BY <1>1, <2>3, NodeAtTyped
  <2>5. Stands(f) = NodeAt(p)
    BY <2>2 DEF Stands
  <2> QED BY <1>2, <1>6, <2>2, <2>4, <2>5
<1> QED BY <1>3, <1>4, <1>5, <1>6

(* Without loops, an event has one call for each. *)
LEMMA OneCallEach ==
  ASSUME InstanceTypes, Ordered, Chains, \A set \in SUBSET Nodes : ~Loops(set),
         NEW i \in DOMAIN calls, NEW j \in DOMAIN calls, i < j,
         calls[i].event = calls[j].event
  PROVE  Stands(calls[i]) # Stands(calls[j])
<1> SUFFICES ASSUME Stands(calls[i]) = Stands(calls[j]) PROVE FALSE
  OBVIOUS
<1>0. calls # << >>
  OBVIOUS
<1>1. /\ Wired /\ proto \in Definitions
      /\ DOMAIN calls = 1 .. Len(calls) /\ Len(calls) \in Nat
      /\ \A k \in DOMAIN calls : calls[k] \in Frames
  BY <1>0, FrameTyped DEF InstanceTypes
<1>2. \A k \in i .. j : k \in DOMAIN calls
  BY <1>1
<1>3. \A k \in DOMAIN calls : calls[k].event \in Nat
  <2>1. \A f \in Frames : f.event \in Nat
    BY DEF Frames
  <2> QED BY <1>1, <2>1
<1>4. \A k \in i .. j : calls[k].event = calls[i].event
  <2> SUFFICES ASSUME NEW k \in i .. j PROVE calls[k].event = calls[i].event
    OBVIOUS
  <2>1. k \in DOMAIN calls /\ i <= k /\ k <= j
    BY <1>1, <1>2
  <2>2. calls[i].event <= calls[k].event /\ calls[k].event <= calls[j].event
    BY <2>1 DEF Ordered
  <2>3. calls[i].event \in Nat /\ calls[k].event \in Nat /\ calls[j].event \in Nat
    BY <1>3, <2>1
  <2> QED BY <2>2, <2>3
<1>5. \A k \in i .. (j - 1) : Follows(calls[k], calls[k + 1])
  <2> SUFFICES ASSUME NEW k \in i .. (j - 1) PROVE Follows(calls[k], calls[k + 1])
    OBVIOUS
  <2>1. k \in i .. j /\ k + 1 \in i .. j
    BY <1>1
  <2>2. k \in DOMAIN calls /\ k + 1 \in DOMAIN calls
    BY <1>2, <2>1
  <2>3. calls[k].event = calls[k + 1].event
    BY <1>4, <2>1
  <2> QED BY <2>2, <2>3 DEF Chains
<1>6. i \in Nat /\ j \in Nat /\ j - 1 \in Nat /\ j - 1 + 1 = j /\ i \in i .. (j - 1) /\ j - 1 \in i .. (j - 1)
  BY <1>1
<1>7. calls[j].op = "emit"
  BY <1>5, <1>6 DEF Follows
<1>8. calls[i] \in Frames /\ calls[j] \in Frames
  BY <1>1
<1>9. Stands(calls[j]) \in Nodes
  <2>1. Stands(calls[j]) # Body
    BY <1>0, <1>7, <1>8, StandsTyped
  <2>2. Stands(calls[j]) # NoNode
    <3> SUFFICES ASSUME Stands(calls[i]) = NoNode PROVE FALSE
      OBVIOUS
    <3>1. calls[i].op = "emit" /\ calls[i].from.kind # "clone"
      BY <1>0, <1>8, StandsTyped
    <3>2. Follows(calls[i], calls[i + 1])
      BY <1>5, <1>6
    <3> QED BY <3>1, <3>2 DEF Follows
  <2> QED BY <1>0, <1>8, <2>1, <2>2, StandsTyped
<1>10. /\ calls[i].op = "emit" /\ calls[i].from.kind = "clone"
       /\ calls[j].op = "emit" /\ calls[j].from.kind = "clone"
  BY <1>0, <1>8, <1>9, StandsTyped
<1>11. \A k \in i .. j : calls[k].op = "emit" /\ calls[k].from.kind = "clone"
  <2> SUFFICES ASSUME NEW k \in i .. j PROVE calls[k].op = "emit" /\ calls[k].from.kind = "clone"
    OBVIOUS
  <2>1. CASE k = i \/ k = j
    BY <1>10, <2>1
  <2>2. CASE k # i /\ k # j
    <3>1. k \in i .. (j - 1) /\ k - 1 \in i .. (j - 1) /\ k - 1 + 1 = k
      BY <1>6, <2>2
    <3>2. calls[k].op = "emit"
      BY <1>5, <3>1 DEF Follows
    <3>3. Follows(calls[k], calls[k + 1])
      BY <1>5, <3>1
    <3> QED BY <3>2, <3>3 DEF Follows
  <2> QED BY <2>1, <2>2
<1> DEFINE node(k) == Stands(calls[k])
           set == {node(k) : k \in i .. (j - 1)}
<1>12. \A k \in i .. (j - 1) : <<node(k), node(k + 1)>> \in proto.body.routes
  <2> SUFFICES ASSUME NEW k \in i .. (j - 1)
               PROVE  <<node(k), node(k + 1)>> \in proto.body.routes
    OBVIOUS
  <2>1. k \in i .. j /\ k + 1 \in i .. j
    BY <1>6
  <2>2. /\ calls[k].op = "emit" /\ calls[k].from.kind = "clone"
        /\ calls[k + 1].op = "emit" /\ calls[k + 1].from.kind = "clone"
    BY <1>11, <2>1
  <2>3. <<calls[k].from.path, calls[k + 1].from.path>> \in wires.routes
    <3>1. Follows(calls[k], calls[k + 1])
      BY <1>5
    <3>2. calls[k + 1].from # End("out")
      BY <2>2 DEF End
    <3> QED BY <2>2, <3>1, <3>2 DEF Follows
  <2>4. <<NodeAt(calls[k].from.path), NodeAt(calls[k + 1].from.path)>> \in proto.body.routes
    BY <1>1, <2>3, RoutesOfTheBody
  <2> QED BY <2>2, <2>4 DEF Stands
<1>13. node(i) = node(j)
  OBVIOUS
<1> HIDE DEF node
<1>14. set \in SUBSET Nodes
  <2>1. \A k \in i .. (j - 1) : node(k) \in Nodes
    BY <1>1, <1>12, ShapeTyped
  <2> QED BY <2>1
<1>15. \A n \in set : \E m \in set : <<n, m>> \in proto.body.routes
  <2> SUFFICES ASSUME NEW k \in i .. (j - 1) PROVE \E m \in set : <<node(k), m>> \in proto.body.routes
    OBVIOUS
  <2>1. <<node(k), node(k + 1)>> \in proto.body.routes
    BY <1>12
  <2>2. CASE k = j - 1
    <3>1. node(k + 1) = node(i) /\ node(i) \in set
      BY <1>6, <1>13, <2>2
    <3> QED BY <2>1, <3>1
  <2>3. CASE k # j - 1
    <3>1. k + 1 \in i .. (j - 1)
      BY <1>6, <2>3
    <3> QED BY <2>1, <3>1
  <2> QED BY <2>2, <2>3
<1>16. set # {}
  BY <1>6
<1>17. Loops(set)
  BY <1>15, <1>16 DEF Loops
<1> QED BY <1>14, <1>17

LEMMA FewCalls ==
  ASSUME InstanceTypes, Ordered, Chains, \A set \in SUBSET Nodes : ~Loops(set)
  PROVE  Len(calls) <= MaxEvents * (Cardinality(Nodes) + 2)
<1> DEFINE T == (1 .. MaxEvents) \X (Nodes \cup {Body, NoNode})
<1>1. /\ DOMAIN calls = 1 .. Len(calls) /\ Len(calls) \in Nat
      /\ \A k \in DOMAIN calls : calls[k] \in Frames
  BY LenProperties, ElementOfSeq DEF InstanceTypes
<1>2. IsFiniteSet(T) /\ Cardinality(T) = MaxEvents * (Cardinality(Nodes) + 2)
  <2>1. IsFiniteSet(Nodes) /\ Body \notin Nodes /\ NoNode \notin Nodes \cup {Body} /\ MaxEvents \in Nat
    BY ProtoInstanceAssumption
  <2>2. Cardinality(Nodes) \in Nat
    BY <2>1, FS_CardinalityType
  <2>3. IsFiniteSet(Nodes \cup {Body}) /\ Cardinality(Nodes \cup {Body}) = Cardinality(Nodes) + 1
    BY <2>1, FS_AddElement
  <2>4. /\ IsFiniteSet((Nodes \cup {Body}) \cup {NoNode})
        /\ Cardinality((Nodes \cup {Body}) \cup {NoNode}) = Cardinality(Nodes) + 1 + 1
    BY <2>1, <2>3, FS_AddElement
  <2>5. (Nodes \cup {Body}) \cup {NoNode} = Nodes \cup {Body, NoNode}
    OBVIOUS
  <2>6. IsFiniteSet(Nodes \cup {Body, NoNode}) /\ Cardinality(Nodes \cup {Body, NoNode}) = Cardinality(Nodes) + 2
    <3>1. Cardinality(Nodes) + 1 + 1 = Cardinality(Nodes) + 2
      BY <2>2
    <3> QED BY <2>4, <2>5, <3>1
  <2>7. IsFiniteSet(1 .. MaxEvents) /\ Cardinality(1 .. MaxEvents) = MaxEvents
    <3>1. IsFiniteSet(1 .. MaxEvents) /\ Cardinality(1 .. MaxEvents) = IF 1 > MaxEvents THEN 0 ELSE MaxEvents - 1 + 1
      BY <2>1, FS_Interval
    <3> QED BY <2>1, <3>1
  <2>8. /\ IsFiniteSet(T)
        /\ Cardinality(T) = Cardinality(1 .. MaxEvents) * Cardinality(Nodes \cup {Body, NoNode})
    BY <2>6, <2>7, FS_Product
  <2> QED BY <2>6, <2>7, <2>8
<1> DEFINE key == [k \in DOMAIN calls |-> <<calls[k].event, Stands(calls[k])>>]
<1>3. key \in Injection(DOMAIN calls, T)
  <2>1. ASSUME NEW k \in DOMAIN calls
        PROVE  <<calls[k].event, Stands(calls[k])>> \in T
    <3>1. calls[k] \in Frames /\ calls # << >>
      BY <1>1
    <3>2. calls[k].event \in 1 .. MaxEvents
      BY <3>1 DEF Frames
    <3> QED BY <3>1, <3>2, StandsTyped
  <2>2. ASSUME NEW k \in DOMAIN calls, NEW m \in DOMAIN calls, key[k] = key[m]
        PROVE  k = m
    <3>1. calls[k].event = calls[m].event /\ Stands(calls[k]) = Stands(calls[m])
      BY <2>2
    <3>2. ~(k < m) /\ ~(m < k)
      BY <3>1, OneCallEach
    <3> QED BY <1>1, <3>2
  <2>3. key \in [DOMAIN calls -> T]
    BY <2>1
  <2> QED BY <2>2, <2>3 DEF Injection, IsInjective
<1>4. Cardinality(DOMAIN calls) <= Cardinality(T)
  BY <1>2, <1>3, FS_Injection
<1>5. Cardinality(DOMAIN calls) = Len(calls)
  <2>1. Cardinality(1 .. Len(calls)) = IF 1 > Len(calls) THEN 0 ELSE Len(calls) - 1 + 1
    BY <1>1, FS_Interval
  <2> QED BY <1>1, <2>1
<1> QED BY <1>2, <1>4, <1>5

(***************************************************************************)
(* For every body that holds all its nodes, however deep and with whatever *)
(* routes, and a stack with room for one call of each node and of the two  *)
(* ends per event from outside: making an instance fails only for a Script *)
(* that refers to itself or a node hidden in the field of another          *)
(* instance, and its events overflow the stack only when the eventOut      *)
(* leads back to the eventIn or the body's routes go round (proto.cpp;     *)
(* event.h 265).                                                           *)
(***************************************************************************)
THEOREM FaultsAreExplained ==
  ASSUME BodiesAreWhole, MaxFrames >= MaxEvents * (Cardinality(Nodes) + 2)
  PROVE  InstanceSpec => []InstanceFaultsHaveCauses
<1>1. InstanceInit => InstanceFaultsHaveCauses
  BY DEF InstanceInit, InstanceFaultsHaveCauses
<1>2. ASSUME InstanceFaultsHaveCauses, InstanceInv, Chained, [InstanceNext]_piVars
      PROVE  InstanceFaultsHaveCauses'
  <2>0. proto' = proto /\ proto \in Definitions
    BY <1>2 DEF InstanceNext, CreateInstance, InstanceEvent, BodyEvent, Outside, SourceChanges,
         NextListener, EmitReturns, InReturns, StackOverflow, piVars, InstanceInv, InstanceTypes
  <2>1. CASE broken' = broken
    BY <1>2, <2>0, <2>1 DEF InstanceFaultsHaveCauses, Loops
  <2>2. CASE CreateInstance /\ broken' # broken
    <3>1. CASE \E n \in NodesNamed : Endless(n)
      <4>1. broken' = "endless search"
        BY <2>2, <3>1 DEF CreateInstance
      <4>2. \E m \in Nodes : m \in Range(proto.body.fields[m])
        BY <2>0, <3>1, EndlessSearchesFindASelf
      <4> QED BY <2>0, <4>1, <4>2 DEF InstanceFaultsHaveCauses
    <3>2. CASE ~\E n \in NodesNamed : Endless(n)
      <4>1. broken' = "assert" /\ \E n \in NodesNamed : PathsTo(n) = {}
        BY <2>2, <3>2 DEF CreateInstance
      <4>2. NodesNamed \subseteq Nodes
        BY <2>0, ShapeTyped DEF NodesNamed
      <4>3. proto.body.opaque # {}
        BY <2>0, <4>1, <4>2, WholeBodiesHaveClones
      <4> QED BY <2>0, <4>1, <4>3 DEF InstanceFaultsHaveCauses
    <3> QED BY <3>1, <3>2
  <2>3. CASE StackOverflow
    <3>1. broken' = "overflow" /\ Len(calls) > MaxFrames
      BY <2>3 DEF StackOverflow
    <3>2. proto.feedback \/ \E set \in SUBSET Nodes : Loops(set)
      <4>1. SUFFICES ASSUME ~proto.feedback, \A set \in SUBSET Nodes : ~Loops(set) PROVE FALSE
        BY <2>0, ShapeTyped
      <4>2. InstanceTypes /\ Ordered /\ Chains
        BY <1>2, <4>1 DEF InstanceInv, Chained
      <4>3. Len(calls) <= MaxEvents * (Cardinality(Nodes) + 2)
        BY <4>1, <4>2, FewCalls
      <4>4. Len(calls) \in Nat /\ MaxEvents \in Nat /\ Cardinality(Nodes) \in Nat /\ MaxFrames \in Nat
        BY <4>2, LenProperties, ProtoInstanceAssumption, FS_CardinalityType DEF InstanceTypes
      <4>5. PICK bound : bound = MaxEvents * (Cardinality(Nodes) + 2)
        OBVIOUS
      <4>6. bound \in Nat
        BY <4>4, <4>5
      <4> QED BY <3>1, <4>3, <4>4, <4>5, <4>6
    <3> QED BY <2>0, <3>1, <3>2 DEF InstanceFaultsHaveCauses, Loops
  <2> QED BY <1>2, <2>1, <2>2, <2>3 DEF InstanceNext, InstanceEvent, BodyEvent, Outside,
             SourceChanges, NextListener, EmitReturns, InReturns, piVars
<1> QED BY <1>1, <1>2, InstanceInvariant, ChainAlways, PTL DEF InstanceSpec

-----------------------------------------------------------------------------
(* The TimeSensor.                                                         *)

HandlerSet == [todo : Todos, at : Nat, v : BOOLEAN]

(* The set_enabled events at work will store what enabled is. *)
Undisturbed ==
  ~crossed => \A i \in DOMAIN handlers : handlers[i].todo = ToStore => handlers[i].v = enabled

SensorInv ==
  /\ SensorTypeOK /\ NoFutureEvents /\ IsActiveIsTold
  /\ Undisturbed /\ DisabledIsInactive /\ StartIsSeen

(* What is left to do, by its first step. *)
LEMMA TodoCases ==
  /\ Todos = {ToStore, << "tell" >>, ToTell, ToSee}
  /\ Head(ToStore) = "store" /\ Tail(ToStore) = << "tell" >> /\ Len(ToStore) = 2
  /\ Head(<< "tell" >>) = "tell" /\ Len(<< "tell" >>) = 1
  /\ Head(ToTell) = "tell" /\ Tail(ToTell) = ToSee /\ Len(ToTell) = 2
  /\ Head(ToSee) = "seen" /\ Len(ToSee) = 1
BY DEF Todos, ToStore, ToTell, ToSee

LEMMA TodoSteps ==
  ASSUME NEW d \in Todos
  PROVE  /\ "store" \in Range(d) <=> d = ToStore
         /\ "tell" \in Range(d) <=> d # ToSee
         /\ "seen" \in Range(d) <=> d \in {ToTell, ToSee}
<1>1. Range(ToStore) = {"store", "tell"} /\ Range(<< "tell" >>) = {"tell"}
      /\ Range(ToTell) = {"tell", "seen"} /\ Range(ToSee) = {"seen"}
  <2>1. DOMAIN ToStore = {1, 2} /\ DOMAIN << "tell" >> = {1}
        /\ DOMAIN ToTell = {1, 2} /\ DOMAIN ToSee = {1}
    BY DEF ToStore, ToTell, ToSee
  <2> QED
    BY <2>1 DEF Range, ToStore, ToTell, ToSee
<1> QED
  BY <1>1, TodoCases

LEMMA OwesTodo ==
  ASSUME NEW h \in Seq(HandlerSet)
  PROVE  /\ \A i \in DOMAIN h : h[i].todo \in Todos /\ h[i].at \in Nat /\ h[i].v \in BOOLEAN
         /\ \A i \in DOMAIN h : /\ "store" \in Range(h[i].todo) <=> h[i].todo = ToStore
                                /\ "tell" \in Range(h[i].todo) <=> h[i].todo # ToSee
                                /\ "seen" \in Range(h[i].todo) <=> h[i].todo \in {ToTell, ToSee}
<1>1. \A i \in DOMAIN h : h[i] \in HandlerSet
  OBVIOUS
<1> QED
  BY <1>1, TodoSteps DEF HandlerSet

LEMMA SensorFlags ==
  ASSUME SensorTypeOK
  PROVE  told \in BOOLEAN /\ ran \in BOOLEAN /\ rewound \in BOOLEAN /\ crossed \in BOOLEAN
BY DEF SensorTypeOK

(* The initial state satisfies the invariant. *)
LEMMA SensorStarts == SensorInit => SensorInv
<1> SUFFICES ASSUME SensorInit PROVE SensorInv
  OBVIOUS
<1>1. DOMAIN handlers = {} /\ handlers \in Seq(HandlerSet)
  BY DEF SensorInit
<1>2. SensorTypeOK
  <2>1. now \in 0 .. MaxTime /\ setBacks \in 0 .. MaxSetBacks /\ lastTime \in -1 .. MaxTime
    BY TimeSensorAssumption DEF SensorInit
  <2> QED
    BY <1>1, <2>1 DEF SensorInit, SensorTypeOK, HandlerSet
<1>3. NoFutureEvents
  BY <1>1 DEF SensorInit, NoFutureEvents
<1>4. IsActiveIsTold /\ Undisturbed /\ DisabledIsInactive /\ StartIsSeen
  BY <1>1, Zenon DEF SensorInit, IsActiveIsTold, Undisturbed, DisabledIsInactive, StartIsSeen
<1> QED
  BY <1>2, <1>3, <1>4 DEF SensorInv

(* A new handler: who owes what then. *)
LEMMA OneHandler ==
  ASSUME NEW f \in HandlerSet, handlers' = << f >>
  PROVE  /\ handlers' \in Seq(HandlerSet) /\ DOMAIN handlers' = {1} /\ handlers'[1] = f
         /\ Owes("store")' <=> f.todo = ToStore
         /\ Owes("tell")' <=> f.todo # ToSee
         /\ Owes("seen")' <=> f.todo \in {ToTell, ToSee}
<1> DEFINE h == << f >>
<1>1. h \in Seq(HandlerSet) /\ DOMAIN h = {1} /\ h[1] = f
  OBVIOUS
<1> HIDE DEF h
<1>2. handlers' = h
  BY DEF h
<1> QED
  BY <1>1, <1>2, OwesTodo DEF Owes

LEMMA NoHandlers ==
  ASSUME handlers = << >>
  PROVE  ~Owes("store") /\ ~Owes("tell") /\ ~Owes("seen") /\ DOMAIN handlers = {}
BY DEF Owes

(* A run ends no later than the tick that notices it. *)
LEMMA EndIsNotAhead ==
  ASSUME SensorTypeOK, NEW t \in Nat, Done(t)
  PROVE  /\ EndTime \in Nat /\ EndTime <= t
         /\ startTime < t
  BY TimeSensorAssumption DEF SensorTypeOK, Done, StopTimeReached, CycleIsOver, EndTime

(* A tick at rest. *)
LEMMA TickStep ==
  ASSUME SensorInv, NoneAtWork, NEW t \in now .. MaxTime, TickAt(t), UNCHANGED setBacks
  PROVE  SensorInv'
<1>1. /\ SensorTypeOK /\ t \in Nat /\ now \in Nat /\ now <= t /\ t <= MaxTime /\ MaxTime \in Nat
      /\ startTime \in Nat /\ stopTime \in Nat /\ cycleInterval \in Nat \ {0} /\ lastTime \in Int
      /\ handlers = << >> /\ now' = t /\ now' \in 0 .. MaxTime
  BY TimeSensorAssumption DEF SensorInv, SensorTypeOK, NoneAtWork, TickAt
<1>2. ~Owes("store") /\ ~Owes("tell") /\ ~Owes("seen") /\ DOMAIN handlers = {}
  BY <1>1, NoHandlers
<1>3. UNCHANGED <<sensorFields, told, crossed, setBacks>>
  BY DEF TickAt
<1>4. CASE enabled /\ Start(t)
  <2>1. /\ isActive' = TRUE /\ ran' = TRUE /\ rewound' = rewound /\ lastTime' = LastSeen(t)
        /\ ~isActive /\ startTime <= t /\ startTime >= LastSeen(t)
    BY <1>4 DEF Start, BecomesActive
  <2> DEFINE f == Handler(ToTell, t, TRUE)
  <2>2. f \in HandlerSet /\ f.todo = ToTell /\ f.at = t /\ f.v = TRUE
    BY <1>1 DEF HandlerSet, Handler, Todos
  <2>3. handlers' = << f >>
    BY <1>4 DEF Start
  <2> HIDE DEF f
  <2>4. /\ handlers' \in Seq(HandlerSet) /\ DOMAIN handlers' = {1} /\ handlers'[1] = f
        /\ Owes("tell")' /\ Owes("seen")' /\ ToTell # ToStore /\ ToTell # ToSee
    BY <2>2, <2>3, OneHandler, TodoCases
  <2>5. SensorTypeOK'
    BY <1>1, <1>3, <2>1, <2>4 DEF SensorTypeOK, HandlerSet, sensorFields, LastSeen
  <2>6. NoFutureEvents' /\ IsActiveIsTold' /\ Undisturbed' /\ DisabledIsInactive' /\ StartIsSeen'
    <3>1. lastTime' <= t /\ LastTick' = t /\ startTime' = startTime /\ enabled' = enabled
      BY <1>1, <1>3, <2>1, <2>4 DEF LastSeen, LastTick, sensorFields
    <3>2. NoFutureEvents' /\ StartIsSeen'
      BY <1>1, <2>1, <2>2, <2>4, <3>1 DEF NoFutureEvents, StartIsSeen
    <3>3. IsActiveIsTold' /\ Undisturbed' /\ DisabledIsInactive'
      BY <1>4, <2>2, <2>4, <3>1 DEF IsActiveIsTold, Undisturbed, DisabledIsInactive
    <3> QED
      BY <3>2, <3>3
  <2> QED
    BY <2>5, <2>6 DEF SensorInv
<1>5. CASE enabled /\ Run(t)
  <2>1. /\ isActive /\ isActive' = ~Done(t) /\ UNCHANGED <<ran, rewound>> /\ lastTime' = LastSeen(t)
    BY <1>5 DEF Run
  <2> DEFINE f == IF Done(t) THEN Handler(ToTell, EndTime, FALSE) ELSE Handler(ToSee, t, TRUE)
  <2>2. /\ f \in HandlerSet /\ f.todo \in {ToTell, ToSee} /\ f.at \in Nat /\ f.at <= t
        /\ Done(t) => f.todo = ToTell
    BY <1>1, EndIsNotAhead DEF HandlerSet, Handler, Todos
  <2>3. handlers' = << f >>
    BY <1>5 DEF Run
  <2> HIDE DEF f
  <2>4. /\ handlers' \in Seq(HandlerSet) /\ DOMAIN handlers' = {1} /\ handlers'[1] = f
        /\ Done(t) => Owes("tell")'
        /\ Owes("seen")' /\ ToTell # ToStore /\ ToTell # ToSee /\ ToSee # ToStore
    BY <2>2, <2>3, OneHandler, TodoCases
  <2>5. SensorTypeOK'
    BY <1>1, <1>3, <2>1, <2>4 DEF SensorTypeOK, HandlerSet, sensorFields, LastSeen
  <2>6. NoFutureEvents' /\ IsActiveIsTold' /\ Undisturbed' /\ DisabledIsInactive'
    <3>1. lastTime' <= t /\ told \in BOOLEAN
      BY <1>1, <2>1, SensorFlags DEF LastSeen
    <3>2. NoFutureEvents'
      BY <1>1, <2>2, <2>4, <3>1 DEF NoFutureEvents
    <3>3. Undisturbed'
      BY <2>2, <2>4 DEF Undisturbed
    <3>4. IsActiveIsTold' /\ DisabledIsInactive'
      <4>1. CASE Done(t)
        BY <1>3, <1>5, <2>1, <2>4, <4>1 DEF IsActiveIsTold, DisabledIsInactive, sensorFields
      <4>2. CASE ~Done(t)
        <5>1. isActive' = TRUE /\ isActive = TRUE /\ told = TRUE
          BY <1>1, <1>2, <2>1, <4>2, SensorFlags DEF SensorInv, SensorTypeOK, IsActiveIsTold
        <5> QED
          BY <1>3, <1>5, <5>1 DEF IsActiveIsTold, DisabledIsInactive, sensorFields
      <4> QED
        BY <4>1, <4>2
    <3> QED
      BY <3>2, <3>3, <3>4
  <2>7. StartIsSeen'
    <3>1. Done(t) => startTime < t
      BY <1>1, EndIsNotAhead
    <3>2. (ran /\ ~rewound) => startTime <= now
      BY <1>1 DEF SensorInv, StartIsSeen, LastTick
    <3>3. LastTick' = t /\ startTime' = startTime /\ enabled' = enabled /\ ran' = ran /\ rewound' = rewound
      BY <1>1, <1>3, <2>1, <2>4 DEF LastTick, sensorFields
    <3>4. CASE Done(t)
      BY <1>1, <3>1, <3>3, <3>4 DEF StartIsSeen
    <3>5. CASE ~Done(t)
      <4>1. isActive'
        BY <2>1, <3>5
      <4>2. startTime <= now => startTime <= t /\ t <= t
        BY <1>1
      <4> QED
        BY <1>1, <3>2, <3>3, <4>1, <4>2, Zenon DEF StartIsSeen
    <3> QED
      BY <3>4, <3>5
  <2> QED
    BY <2>5, <2>6, <2>7 DEF SensorInv
<1>6. CASE enabled /\ SensorIdle(t)
  <2>1. /\ ~isActive /\ ~BecomesActive(t) /\ UNCHANGED <<isActive, handlers, ran>> /\ lastTime' = t
        /\ rewound' = (rewound /\ t <= startTime)
    BY <1>6 DEF SensorIdle
  <2>2. handlers' = << >> /\ DOMAIN handlers' = {} /\ ~Owes("store")' /\ ~Owes("tell")' /\ ~Owes("seen")'
    BY <1>1, <2>1 DEF Owes
  <2>3. SensorTypeOK'
    BY <1>1, <1>3, <2>1, <2>2 DEF SensorTypeOK, sensorFields
  <2>4. NoFutureEvents' /\ IsActiveIsTold' /\ Undisturbed' /\ DisabledIsInactive'
    BY <1>1, <1>2, <1>3, <2>1, <2>2
       DEF SensorInv, NoFutureEvents, IsActiveIsTold, Undisturbed, DisabledIsInactive, sensorFields
  <2>5. StartIsSeen'
    <3>1. LastTick' = t /\ LastTick = lastTime
      BY <1>2, <2>1, <2>2 DEF LastTick
    <3>2. CASE startTime < t
      BY <1>1, <1>3, <3>1, <3>2 DEF StartIsSeen, sensorFields
    <3>3. CASE ~(startTime < t)
      <4>1. ran' /\ ~rewound' => ran /\ ~rewound
        <5>1. t <= startTime
          BY <1>1, <3>3
        <5> QED
          BY <2>1, <5>1, Zenon
      <4>2. ran /\ ~rewound => startTime = lastTime /\ startTime = t /\ crossed
        BY <1>1, <1>2, <1>6, <2>1, <3>1, <3>3 DEF SensorInv, StartIsSeen
      <4> QED
        BY <1>1, <1>3, <3>1, <4>1, <4>2 DEF StartIsSeen, sensorFields
    <3> QED
      BY <3>2, <3>3
  <2> QED
    BY <2>3, <2>4, <2>5 DEF SensorInv
<1>7. CASE ~enabled
  <2>1. UNCHANGED <<isActive, lastTime, handlers, ran, rewound>>
    BY <1>7 DEF TickAt
  <2> QED
    BY <1>1, <1>2, <1>3, <1>7, <2>1
       DEF SensorInv, SensorTypeOK, NoFutureEvents, IsActiveIsTold, Undisturbed, DisabledIsInactive,
           StartIsSeen, LastTick, sensorFields, Owes
<1> QED
  BY <1>4, <1>5, <1>6, <1>7 DEF TickAt

(* The clock is set back. *)
LEMMA SetBackStep ==
  ASSUME SensorInv, SetBack
  PROVE  SensorInv'
<1>1. /\ now \in Nat /\ MaxTime \in Nat /\ now <= MaxTime /\ setBacks \in Nat /\ setBacks' = setBacks + 1
      /\ now' \in 0 .. MaxTime /\ setBacks' \in 0 .. MaxSetBacks /\ rewound' = TRUE /\ handlers = << >>
      /\ UNCHANGED <<sensorFields, isActive, lastTime, handlers, told, ran, crossed>>
  BY TimeSensorAssumption DEF SensorInv, SensorTypeOK, SetBack, NoneAtWork
<1>2. SensorTypeOK'
  BY <1>1 DEF SensorInv, SensorTypeOK, sensorFields
<1>3. NoFutureEvents' /\ StartIsSeen'
  BY <1>1 DEF NoFutureEvents, StartIsSeen
<1>4. IsActiveIsTold' /\ Undisturbed' /\ DisabledIsInactive'
  BY <1>1 DEF SensorInv, IsActiveIsTold, Undisturbed, DisabledIsInactive, Owes, sensorFields
<1> QED
  BY <1>2, <1>3, <1>4 DEF SensorInv

(* The timestamp of an event has come; while a handler is at work it is that of the handler. *)
LEMMA EventTime ==
  ASSUME SensorInv, NEW at \in 0 .. MaxTime, Carries(at)
  PROVE  /\ now' \in 0 .. MaxTime /\ now' \in Nat /\ now <= now' /\ at <= now' /\ at \in Nat
         /\ setBacks' = setBacks
         /\ now \in Nat /\ lastTime \in Int /\ startTime \in Nat
         /\ ~NoneAtWork => now' = now
         /\ \A i \in DOMAIN handlers : handlers[i].at <= now'
<1>1. /\ now \in Nat /\ now <= MaxTime /\ MaxTime \in Nat /\ lastTime \in Int /\ startTime \in Nat
      /\ handlers \in Seq(HandlerSet)
  BY TimeSensorAssumption DEF SensorInv, SensorTypeOK, HandlerSet
<1>2. at \in Nat /\ at <= MaxTime
  BY <1>1
<1>3. /\ now' \in Nat /\ now <= now' /\ at <= now' /\ now' <= MaxTime /\ setBacks' = setBacks
  BY <1>1, <1>2 DEF Carries
<1>4. ASSUME ~NoneAtWork PROVE now' = now
  <2>1. Len(handlers) \in DOMAIN handlers
    BY <1>1, <1>4 DEF NoneAtWork
  <2>2. at = Innermost.at /\ Innermost.at <= now
    BY <1>4, <2>1 DEF Carries, SensorInv, NoFutureEvents, Innermost
  <2> QED
    BY <1>1, <1>2, <2>2 DEF Carries
<1>5. \A i \in DOMAIN handlers : handlers[i].at <= now'
  <2>1. \A i \in DOMAIN handlers : handlers[i].at \in Nat /\ handlers[i].at <= now
    BY <1>1, OwesTodo DEF SensorInv, NoFutureEvents
  <2> QED
    BY <1>1, <1>3, <2>1
<1> QED
  BY <1>1, <1>2, <1>3, <1>4, <1>5

(* An event that changes neither the handlers nor enabled nor isActive. *)
LEMMA OtherFieldStep ==
  ASSUME SensorInv, NEW at \in 0 .. MaxTime, Carries(at),
         UNCHANGED <<enabled, isActive, handlers, told, crossed>>,
         loop' \in BOOLEAN, cycleInterval' \in Cycles, startTime' \in Starts, stopTime' \in Stops,
         \/ UNCHANGED <<startTime, lastTime, ran, rewound>>
         \/ lastTime' = at /\ ran' = FALSE /\ rewound' = FALSE
         \/ ~isActive /\ lastTime' = at /\ rewound' = (rewound \/ at < lastTime) /\ UNCHANGED <<startTime, ran>>
  PROVE  SensorInv'
<1>1. /\ now' \in 0 .. MaxTime /\ now' \in Nat /\ now <= now' /\ at <= now' /\ at \in Nat
      /\ setBacks' = setBacks
      /\ now \in Nat /\ lastTime \in Int /\ startTime \in Nat
      /\ ~NoneAtWork => now' = now
      /\ \A i \in DOMAIN handlers : handlers[i].at <= now'
  BY EventTime
<1>2. /\ Owes("store")' = Owes("store") /\ Owes("tell")' = Owes("tell") /\ Owes("seen")' = Owes("seen")
  BY DEF Owes
<1>3. SensorTypeOK'
  <2>1. lastTime' \in -1 .. MaxTime
    BY DEF SensorInv, SensorTypeOK
  <2>2. ran' \in BOOLEAN /\ rewound' \in BOOLEAN
    BY SensorFlags DEF SensorInv
  <2> QED
    BY <1>1, <2>1, <2>2 DEF SensorInv, SensorTypeOK
<1>4. NoFutureEvents'
  BY <1>1 DEF SensorInv, NoFutureEvents
<1>5. IsActiveIsTold' /\ Undisturbed' /\ DisabledIsInactive'
  BY <1>2 DEF SensorInv, IsActiveIsTold, Undisturbed, DisabledIsInactive
<1>6. StartIsSeen'
  <2>0. Owes("seen") => ~NoneAtWork
    BY NoHandlers DEF NoneAtWork
  <2>1. CASE UNCHANGED <<startTime, lastTime, ran, rewound>>
    <3>1. LastTick' = LastTick
      BY <1>1, <1>2, <2>0, <2>1 DEF LastTick
    <3>2. LastTick \in Int
      BY <1>1 DEF LastTick
    <3>3. StartIsSeen
      BY DEF SensorInv
    <3>4. LastTick <= now => LastTick <= now'
      BY <1>1, <3>2
    <3> QED
      BY <1>2, <2>1, <3>1, <3>3, <3>4, Zenon DEF StartIsSeen
  <2>2. CASE ran' = FALSE
    BY <2>2 DEF StartIsSeen
  <2>3. CASE ~isActive /\ lastTime' = at /\ rewound' = (rewound \/ at < lastTime) /\ UNCHANGED <<startTime, ran>>
    <3>1. ASSUME ran, ~rewound' PROVE ~rewound /\ ~(at < lastTime)
      BY <2>3, <3>1, Zenon
    <3>2. ASSUME ran, ~rewound'
          PROVE  /\ startTime <= LastTick' /\ LastTick' <= now'
                 /\ LastTick' = startTime => LastTick = startTime
      <4>1. startTime <= LastTick /\ LastTick <= now /\ lastTime <= at
        BY <1>1, <3>1, <3>2 DEF SensorInv, StartIsSeen
      <4>2. CASE Owes("seen")
        BY <1>1, <1>2, <2>0, <4>1, <4>2 DEF LastTick
      <4>3. CASE ~Owes("seen")
        BY <1>1, <1>2, <2>3, <4>1, <4>3 DEF LastTick
      <4> QED
        BY <4>2, <4>3
    <3>3. StartIsSeen
      BY DEF SensorInv
    <3> QED
      BY <1>2, <2>3, <3>1, <3>2, <3>3, Zenon DEF StartIsSeen
  <2> QED
    BY <2>1, <2>2, <2>3
<1> QED
  BY <1>3, <1>4, <1>5, <1>6 DEF SensorInv

(* An event for a field. *)
LEMMA FieldStep ==
  ASSUME SensorInv, SetField
  PROVE  SensorInv'
<1>0. /\ loop \in BOOLEAN /\ cycleInterval \in Cycles /\ startTime \in Starts /\ stopTime \in Stops
      /\ handlers \in Seq(HandlerSet) /\ Len(handlers) \in Nat /\ enabled \in BOOLEAN
  BY DEF SensorInv, SensorTypeOK, HandlerSet
<1>1. CASE SetCycleInterval
  BY <1>0, <1>1, OtherFieldStep DEF SetCycleInterval
<1>2. CASE SetStartTime
  BY <1>0, <1>2, OtherFieldStep DEF SetStartTime
<1>3. CASE SetStopTime
  BY <1>0, <1>3, OtherFieldStep DEF SetStopTime
<1>4. CASE SetLoop
  BY <1>0, <1>4, OtherFieldStep DEF SetLoop
<1>5. CASE SetEnabled
  <2>1. PICK b \in BOOLEAN, at \in 0 .. MaxTime :
          /\ Carries(at)
          /\ enabled' = b
          /\ crossed' = Owes("store")
          /\ IF b = isActive THEN UNCHANGED handlers
             ELSE /\ Len(handlers) < MaxHandlers
                  /\ handlers' = Append(handlers, Handler(ToStore, at, b))
          /\ UNCHANGED <<loop, cycleInterval, startTime, stopTime, isActive, lastTime, told, ran, rewound>>
    BY <1>5 DEF SetEnabled
  <2>2. /\ now' \in 0 .. MaxTime /\ now' \in Nat /\ now <= now' /\ at <= now' /\ at \in Nat
        /\ setBacks' = setBacks
        /\ now \in Nat /\ lastTime \in Int /\ startTime \in Nat
        /\ ~NoneAtWork => now' = now
        /\ \A i \in DOMAIN handlers : handlers[i].at <= now'
    BY <2>1, EventTime
  <2> DEFINE f == Handler(ToStore, at, b)
  <2>3. f \in HandlerSet /\ f.todo = ToStore /\ f.at = at /\ f.v = b
    BY <2>2 DEF HandlerSet, Handler, Todos
  <2>4. \/ b = isActive /\ handlers' = handlers
        \/ b # isActive /\ handlers' = Append(handlers, f)
    BY <2>1
  <2> HIDE DEF f
  <2>5. /\ handlers' \in Seq(HandlerSet)
        /\ \A i \in DOMAIN handlers : i \in DOMAIN handlers' /\ handlers'[i] = handlers[i]
        /\ \A i \in DOMAIN handlers' : i \notin DOMAIN handlers => handlers'[i] = f
    BY <1>0, <2>3, <2>4
  <2>6. ToStore # ToTell /\ ToStore # ToSee
    BY TodoCases
  <2>7. /\ Owes("store") => Owes("store")'
        /\ Owes("tell") => Owes("tell")'
        /\ Owes("seen")' = Owes("seen")
        /\ b # isActive => Owes("store")'
    <3>1. \A i \in DOMAIN handlers' : i \notin DOMAIN handlers => "seen" \notin Range(handlers'[i].todo)
      BY <2>3, <2>5, <2>6, OwesTodo
    <3>2. b # isActive => Len(handlers') \in DOMAIN handlers' /\ handlers'[Len(handlers')] = f
      BY <1>0, <2>3, <2>4
    <3>3. b # isActive => Owes("store")'
      BY <2>3, <2>5, <3>2, OwesTodo DEF Owes
    <3> QED
      BY <2>5, <3>1, <3>3 DEF Owes
  <2>8. SensorTypeOK'
    <3>1. \A i \in DOMAIN handlers' : "seen" \in Range(handlers'[i].todo) => i = 1
      <4>1. \A i \in DOMAIN handlers : "seen" \in Range(handlers[i].todo) => i = 1
        BY DEF SensorInv, SensorTypeOK
      <4> QED
        BY <2>3, <2>5, <2>6, <4>1, OwesTodo
    <3>2. told \in BOOLEAN /\ ran \in BOOLEAN /\ rewound \in BOOLEAN /\ crossed' \in BOOLEAN
      BY <2>1, SensorFlags DEF SensorInv, Owes
    <3> QED
      BY <2>1, <2>2, <2>5, <3>1, <3>2 DEF SensorInv, SensorTypeOK, HandlerSet
  <2>9. NoFutureEvents'
    <3>1. \A i \in DOMAIN handlers' : handlers'[i].at <= now'
      BY <2>2, <2>3, <2>5
    <3> QED
      BY <2>1, <2>2, <3>1 DEF SensorInv, NoFutureEvents
  <2>10. IsActiveIsTold'
    BY <2>1, <2>7 DEF SensorInv, IsActiveIsTold
  <2>11. DisabledIsInactive'
    BY <1>0, <2>1, <2>7 DEF DisabledIsInactive
  <2>12. Undisturbed'
    <3>1. ASSUME ~crossed', NEW i \in DOMAIN handlers', handlers'[i].todo = ToStore
          PROVE  handlers'[i].v = enabled'
      <4>1. i \notin DOMAIN handlers
        BY <1>0, <2>1, <2>5, <3>1, OwesTodo DEF Owes
      <4> QED
        BY <2>1, <2>3, <2>5, <3>1, <4>1
    <3> QED
      BY <3>1 DEF Undisturbed
  <2>13. StartIsSeen'
    <3>0. Owes("seen") => ~NoneAtWork
      BY NoHandlers DEF NoneAtWork
    <3>1. LastTick' = LastTick /\ (LastTick <= now => LastTick <= now')
      BY <2>1, <2>2, <2>7, <3>0 DEF LastTick
    <3>2. StartIsSeen
      BY DEF SensorInv
    <3>3. isActive \/ ~b \/ b # isActive
      OBVIOUS
    <3> QED
      BY <2>1, <2>7, <3>1, <3>2, <3>3, Zenon DEF StartIsSeen
  <2> QED
    BY <2>8, <2>9, <2>10, <2>11, <2>12, <2>13 DEF SensorInv
<1>6. CASE SenderChanges
  <2>1. PICK j \in DOMAIN handlers :
          handlers[j].todo = ToStore /\ handlers' = [handlers EXCEPT ![j].v = ~@]
    BY <1>6 DEF SenderChanges
  <2>2. crossed' = TRUE /\ UNCHANGED <<clock, sensorFields, isActive, lastTime, told, ran, rewound>>
    BY <1>6 DEF SenderChanges
  <2>3. /\ handlers' \in Seq(HandlerSet) /\ DOMAIN handlers' = DOMAIN handlers
        /\ \A i \in DOMAIN handlers : handlers'[i].todo = handlers[i].todo /\ handlers'[i].at = handlers[i].at
    <3>1. \A i \in DOMAIN handlers : handlers[i] \in HandlerSet
      BY <1>0
    <3>2. [handlers[j] EXCEPT !.v = ~@] \in HandlerSet
      BY <3>1 DEF HandlerSet
    <3>3. handlers' = [handlers EXCEPT ![j] = [handlers[j] EXCEPT !.v = ~@]]
      BY <2>1
    <3>4. [handlers[j] EXCEPT !.v = ~@].todo = handlers[j].todo /\ [handlers[j] EXCEPT !.v = ~@].at = handlers[j].at
      BY <3>1 DEF HandlerSet
    <3> QED
      BY <1>0, <3>2, <3>3, <3>4
  <2>4. Owes("store")' = Owes("store") /\ Owes("tell")' = Owes("tell") /\ Owes("seen")' = Owes("seen")
    BY <2>3 DEF Owes
  <2>5. SensorTypeOK'
    <3>1. told \in BOOLEAN /\ ran \in BOOLEAN /\ rewound \in BOOLEAN
      BY SensorFlags DEF SensorInv
    <3> QED
      BY <2>2, <2>3, <3>1 DEF SensorInv, SensorTypeOK, HandlerSet, clock, sensorFields
  <2> QED
    BY <2>2, <2>3, <2>4, <2>5
       DEF SensorInv, NoFutureEvents, IsActiveIsTold, Undisturbed, DisabledIsInactive, StartIsSeen,
           LastTick, clock, sensorFields
<1> QED
  BY <1>1, <1>2, <1>3, <1>4, <1>5, <1>6 DEF SetField

LEMMA InnermostTyped ==
  ASSUME handlers \in Seq(HandlerSet), ~NoneAtWork
  PROVE  LET n == Len(handlers)
         IN n \in DOMAIN handlers /\ handlers[n] \in HandlerSet /\ handlers[n].todo \in Todos
<1>1. Len(handlers) \in DOMAIN handlers /\ handlers[Len(handlers)] \in HandlerSet
  BY DEF NoneAtWork
<1> QED
  BY <1>1 DEF HandlerSet

LEMMA TwoToDo ==
  ASSUME NEW d \in Todos, Len(d) = 2
  PROVE  d \in {ToStore, ToTell} /\ Tail(d) \in Todos
<1>1. d = ToStore \/ d = << "tell" >> \/ d = ToTell \/ d = ToSee
  BY TodoCases
<1>2. d = ToStore \/ d = ToTell
  <2>1. Len(<< "tell" >>) # 2 /\ Len(ToSee) # 2
    BY TodoCases
  <2> QED
    BY <1>1, <2>1, Zenon
<1> QED
  BY <1>2, TodoCases

(* A step of the innermost handler, which then has another one left to do. *)
LEMMA HandlerGoesOn ==
  ASSUME handlers \in Seq(HandlerSet), ~NoneAtWork, GoesOn, Len(Innermost.todo) = 2
  PROVE  LET n == Len(handlers)
         IN /\ n \in DOMAIN handlers
            /\ handlers' \in Seq(HandlerSet) /\ DOMAIN handlers' = DOMAIN handlers
            /\ handlers'[n].todo = Tail(handlers[n].todo) /\ handlers'[n].at = handlers[n].at
            /\ handlers'[n].v = handlers[n].v
            /\ \A i \in DOMAIN handlers : i # n => handlers'[i] = handlers[i]
<1> DEFINE n == Len(handlers)
           g == [handlers[n] EXCEPT !.todo = Tail(@)]
<1>1. n \in DOMAIN handlers /\ handlers[n] \in HandlerSet
  BY InnermostTyped
<1>2. handlers[n].todo \in {ToStore, ToTell} /\ Tail(handlers[n].todo) \in Todos
  BY InnermostTyped, TwoToDo DEF Innermost
<1>3. /\ g \in HandlerSet /\ g.todo = Tail(handlers[n].todo) /\ g.at = handlers[n].at /\ g.v = handlers[n].v
  BY <1>1, <1>2 DEF HandlerSet
<1>4. handlers' = [handlers EXCEPT ![n] = g]
  BY DEF GoesOn, Innermost
<1> HIDE DEF g
<1> QED
  BY <1>1, <1>3, <1>4

(* The innermost handler returns. *)
LEMMA HandlerReturns ==
  ASSUME handlers \in Seq(HandlerSet), ~NoneAtWork, GoesOn, Len(Innermost.todo) = 1
  PROVE  LET n == Len(handlers)
         IN /\ n \in DOMAIN handlers
            /\ handlers' \in Seq(HandlerSet) /\ DOMAIN handlers' = DOMAIN handlers \ {n}
            /\ \A i \in DOMAIN handlers' : handlers'[i] = handlers[i]
<1>1. Len(handlers) \in Nat /\ Len(handlers) # 0
  BY DEF NoneAtWork
<1>2. handlers' = SubSeq(handlers, 1, Len(handlers) - 1)
  BY DEF GoesOn
<1> QED
  BY <1>1, <1>2

LEMMA StoreStep ==
  ASSUME SensorInv, Store
  PROVE  SensorInv'
<1> DEFINE n == Len(handlers)
<1>0. /\ handlers \in Seq(HandlerSet) /\ ~NoneAtWork /\ GoesOn /\ isActive' = handlers[n].v
      /\ UNCHANGED <<clock, sensorFields, lastTime, told, ran, rewound, crossed>>
  BY DEF SensorInv, SensorTypeOK, HandlerSet, Store, Does, Innermost
<1>1. n \in DOMAIN handlers /\ handlers[n] \in HandlerSet /\ handlers[n].todo \in Todos
  BY <1>0, InnermostTyped
<1>2. handlers[n].todo = ToStore /\ Len(handlers[n].todo) = 2 /\ << "tell" >> \notin {ToStore, ToTell, ToSee}
      /\ ToStore \notin {ToTell, ToSee}
  BY <1>1, TodoCases DEF Store, Does, Innermost
<1>3. /\ handlers' \in Seq(HandlerSet) /\ DOMAIN handlers' = DOMAIN handlers
      /\ handlers'[n].todo = << "tell" >> /\ handlers'[n].at = handlers[n].at
      /\ \A i \in DOMAIN handlers : i # n => handlers'[i] = handlers[i]
  BY <1>0, <1>2, HandlerGoesOn, TodoCases DEF Innermost
<1>4. /\ Owes("store")' => Owes("store")
      /\ Owes("tell")' /\ Owes("seen")' = Owes("seen")
      /\ \A i \in DOMAIN handlers' : "seen" \in Range(handlers'[i].todo) => i = 1
  <2>1. \A i \in DOMAIN handlers : /\ handlers'[i].todo = ToStore => handlers[i].todo = ToStore
                                   /\ handlers'[i].todo \in {ToTell, ToSee} <=> handlers[i].todo \in {ToTell, ToSee}
    BY <1>2, <1>3
  <2>2. \A i \in DOMAIN handlers : /\ "store" \in Range(handlers'[i].todo) => "store" \in Range(handlers[i].todo)
                                   /\ "seen" \in Range(handlers'[i].todo) <=> "seen" \in Range(handlers[i].todo)
    BY <1>0, <1>3, <2>1, OwesTodo
  <2>3. "tell" \in Range(handlers'[n].todo)
    BY <1>1, <1>2, <1>3, OwesTodo
  <2> QED
    BY <1>1, <1>3, <2>2, <2>3 DEF Owes, SensorInv, SensorTypeOK
<1>5. SensorTypeOK'
  BY <1>0, <1>1, <1>3, <1>4 DEF SensorInv, SensorTypeOK, HandlerSet, clock, sensorFields
<1>6. NoFutureEvents'
  <2>1. \A i \in DOMAIN handlers' : handlers'[i].at = handlers[i].at
    BY <1>3
  <2> QED
    BY <1>0, <1>3, <2>1 DEF SensorInv, NoFutureEvents, clock
<1>7. IsActiveIsTold'
  BY <1>4 DEF IsActiveIsTold
<1>8. Undisturbed'
  <2>1. \A i \in DOMAIN handlers' : handlers'[i].todo = ToStore => i # n
    BY <1>2, <1>3
  <2> QED
    BY <1>0, <1>3, <2>1 DEF SensorInv, Undisturbed, sensorFields
<1>9. ~crossed => isActive' = enabled
  BY <1>0, <1>1, <1>2 DEF SensorInv, Undisturbed
<1>10. DisabledIsInactive'
  BY <1>0, <1>9 DEF DisabledIsInactive, sensorFields
<1>11. StartIsSeen'
  <2>1. LastTick' = LastTick
    BY <1>0, <1>4 DEF LastTick, clock
  <2>2. StartIsSeen /\ enabled \in BOOLEAN
    BY DEF SensorInv, SensorTypeOK
  <2> QED
    BY <1>0, <1>9, <2>1, <2>2, Zenon DEF StartIsSeen, clock, sensorFields
<1> QED
  BY <1>5, <1>6, <1>7, <1>8, <1>10, <1>11 DEF SensorInv

(* A handler that has stored is_active_: what it leaves to do when it has told it. *)
LEMMA TellStep ==
  ASSUME SensorInv, Tell
  PROVE  SensorInv'
<1> DEFINE n == Len(handlers)
<1>0. /\ handlers \in Seq(HandlerSet) /\ ~NoneAtWork /\ GoesOn /\ told' = isActive
      /\ UNCHANGED <<clock, sensorFields, isActive, lastTime, ran, rewound, crossed>>
  BY DEF SensorInv, SensorTypeOK, HandlerSet, Tell, Does
<1>1. n \in DOMAIN handlers /\ handlers[n] \in HandlerSet /\ handlers[n].todo \in Todos
  BY <1>0, InnermostTyped
<1>2. ToStore \notin {ToTell, ToSee} /\ << "tell" >> \notin {ToStore, ToTell, ToSee}
  BY TodoCases
<1>3. /\ handlers' \in Seq(HandlerSet)
      /\ \A i \in DOMAIN handlers' : /\ i \in DOMAIN handlers /\ handlers'[i].at = handlers[i].at
                                     /\ i # n => handlers'[i] = handlers[i]
                                     /\ i = n => handlers'[i].todo = ToSee /\ handlers[i].todo = ToTell
      /\ \A i \in DOMAIN handlers : i \notin DOMAIN handlers' => handlers[i].todo = << "tell" >>
  <2>1. CASE handlers[n].todo = ToTell
    BY <1>0, <1>1, <2>1, HandlerGoesOn, TodoCases DEF Innermost
  <2>2. CASE handlers[n].todo = << "tell" >>
    BY <1>0, <1>1, <2>2, HandlerReturns, TodoCases DEF Innermost
  <2> QED
    BY <1>1, <2>1, <2>2, TodoCases DEF Tell, Does, Innermost
<1>4. /\ Owes("store")' = Owes("store") /\ Owes("seen")' = Owes("seen")
      /\ \A i \in DOMAIN handlers' : "seen" \in Range(handlers'[i].todo) => i = 1
  <2>1. \A i \in DOMAIN handlers' :
          /\ "store" \in Range(handlers'[i].todo) <=> "store" \in Range(handlers[i].todo)
          /\ "seen" \in Range(handlers'[i].todo) <=> "seen" \in Range(handlers[i].todo)
    BY <1>0, <1>2, <1>3, OwesTodo
  <2>2. \A i \in DOMAIN handlers : i \notin DOMAIN handlers' =>
          "store" \notin Range(handlers[i].todo) /\ "seen" \notin Range(handlers[i].todo)
    BY <1>0, <1>2, <1>3, OwesTodo
  <2> QED
    BY <1>3, <2>1, <2>2 DEF Owes, SensorInv, SensorTypeOK
<1>5. SensorTypeOK'
  BY <1>0, <1>3, <1>4, SensorFlags DEF SensorInv, SensorTypeOK, HandlerSet, clock, sensorFields
<1>6. NoFutureEvents'
  BY <1>0, <1>3 DEF SensorInv, NoFutureEvents, clock
<1>7. IsActiveIsTold'
  BY <1>0 DEF IsActiveIsTold
<1>8. Undisturbed' /\ DisabledIsInactive'
  BY <1>0, <1>2, <1>3, <1>4 DEF SensorInv, Undisturbed, DisabledIsInactive, sensorFields
<1>9. StartIsSeen'
  <2>1. LastTick' = LastTick
    BY <1>0, <1>4 DEF LastTick, clock
  <2> QED
    BY <1>0, <1>4, <2>1, Zenon DEF SensorInv, StartIsSeen, clock, sensorFields
<1> QED
  BY <1>5, <1>6, <1>7, <1>8, <1>9 DEF SensorInv

(* The tick is seen: it is the only handler left. *)
LEMMA SeenStep ==
  ASSUME SensorInv, Seen
  PROVE  SensorInv'
<1> DEFINE n == Len(handlers)
<1>0. /\ handlers \in Seq(HandlerSet) /\ ~NoneAtWork /\ GoesOn /\ lastTime' = now
      /\ rewound' = (rewound /\ now <= startTime)
      /\ UNCHANGED <<clock, sensorFields, isActive, told, ran, crossed>>
      /\ now \in Nat /\ now \in 0 .. MaxTime /\ startTime \in Nat
  BY TimeSensorAssumption DEF SensorInv, SensorTypeOK, HandlerSet, Seen, Does
<1>1. n \in DOMAIN handlers /\ handlers[n] \in HandlerSet /\ handlers[n].todo \in Todos
  BY <1>0, InnermostTyped
<1>2. handlers[n].todo = ToSee /\ ToSee # ToStore
  BY <1>1, TodoCases DEF Seen, Does, Innermost
<1>3. n = 1 /\ DOMAIN handlers = {1}
  <2>1. "seen" \in Range(handlers[n].todo)
    BY <1>0, <1>1, <1>2, OwesTodo
  <2>2. n = 1
    BY <1>1, <2>1 DEF SensorInv, SensorTypeOK
  <2> QED
    BY <1>0, <2>2
<1>4. handlers' \in Seq(HandlerSet) /\ DOMAIN handlers' = {}
  BY <1>0, <1>2, <1>3, HandlerReturns, TodoCases DEF Innermost
<1>5. ~Owes("store")' /\ ~Owes("tell")' /\ ~Owes("seen")' /\ ~Owes("store") /\ ~Owes("tell") /\ Owes("seen")
  BY <1>0, <1>2, <1>3, <1>4, OwesTodo DEF Owes
<1>6. SensorTypeOK'
  BY <1>0, <1>4, SensorFlags DEF SensorInv, SensorTypeOK, HandlerSet, clock, sensorFields
<1>7. NoFutureEvents'
  BY <1>0, <1>4 DEF NoFutureEvents, clock
<1>8. IsActiveIsTold' /\ Undisturbed' /\ DisabledIsInactive'
  BY <1>0, <1>4, <1>5, Zenon DEF SensorInv, IsActiveIsTold, Undisturbed, DisabledIsInactive, sensorFields
<1>9. StartIsSeen'
  <2>1. LastTick' = now /\ LastTick = now /\ now' = now
    BY <1>0, <1>5 DEF LastTick, clock
  <2>2. CASE startTime < now
    BY <1>0, <2>1, <2>2 DEF StartIsSeen, clock, sensorFields
  <2>3. CASE ~(startTime < now)
    <3>1. ~rewound' => ~rewound
      <4>1. now <= startTime
        BY <1>0, <2>3
      <4> QED
        BY <1>0, <4>1, Zenon
    <3> QED
      BY <1>0, <1>5, <2>1, <3>1, Zenon DEF SensorInv, StartIsSeen, clock, sensorFields
  <2> QED
    BY <2>2, <2>3
<1> QED
  BY <1>6, <1>7, <1>8, <1>9 DEF SensorInv

LEMMA SensorStep == SensorInv /\ [SensorNext]_tsVars => SensorInv'
<1> SUFFICES ASSUME SensorInv, [SensorNext]_tsVars PROVE SensorInv'
  OBVIOUS
<1>1. CASE Tick
  BY <1>1, TickStep DEF Tick
<1>2. CASE SetBack
  BY <1>2, SetBackStep
<1>3. CASE SetField
  BY <1>3, FieldStep
<1>4. CASE HandlerStep
  BY <1>4, StoreStep, TellStep, SeenStep DEF HandlerStep
<1>5. CASE UNCHANGED tsVars
  BY <1>5 DEF tsVars, SensorInv, SensorTypeOK, NoFutureEvents, IsActiveIsTold, Undisturbed,
              DisabledIsInactive, StartIsSeen, LastTick, Owes
<1> QED
  BY <1>1, <1>2, <1>3, <1>4, <1>5 DEF SensorNext

(* The invariant holds in every behaviour. *)
LEMMA SensorInvariant == SensorSpec => []SensorInv
  BY SensorStarts, SensorStep, PTL DEF SensorSpec

-----------------------------------------------------------------------------
(* Every field keeps its type, and the sensor is updated only while none   *)
(* of its handlers is at work (do_update and the listeners).               *)
THEOREM SensorIsTyped == SensorSpec => []SensorTypeOK
<1>1. SensorInv => SensorTypeOK
  BY DEF SensorInv
<1> QED
  BY <1>1, SensorInvariant, PTL

(* Listeners may send a TimeSensor any events in the middle of a tick, of  *)
(* the end of a run or of another event: a set_enabled FALSE leaves it     *)
(* inactive unless it comes inside another one, or holds one.              *)
THEOREM DisabledSensorsAreInactive == SensorSpec => []DisabledIsInactive
<1>1. SensorInv => DisabledIsInactive
  BY DEF SensorInv
<1> QED
  BY <1>1, SensorInvariant, PTL

(* No event carries a time that has not come, whichever of the times of a  *)
(* run do_update computes and whichever listeners pass it on.              *)
THEOREM EventsAreNotAhead == SensorSpec => []NoFutureEvents
<1>1. SensorInv => NoFutureEvents
  BY DEF SensorInv
<1> QED
  BY <1>1, SensorInvariant, PTL

(* Whenever no isActive event is under way, its listeners have been told   *)
(* what is_active_ is, although it may change while they are called.       *)
THEOREM ListenersKnowIsActive == SensorSpec => []IsActiveIsTold
<1>1. SensorInv => IsActiveIsTold
  BY DEF SensorInv
<1> QED
  BY <1>1, SensorInvariant, PTL

-----------------------------------------------------------------------------
(* At rest, isActive changes in a tick only. *)
LEMMA RestChanges ==
  ASSUME SensorNext, NoneAtWork, isActive' # isActive
  PROVE  \E t \in now .. MaxTime : TickAt(t) /\ enabled /\ (Start(t) \/ Run(t))
<1>1. CASE Tick
  BY <1>1 DEF Tick, TickAt, SensorIdle
<1>2. CASE SetBack \/ SetField \/ HandlerStep
  BY <1>2 DEF SetBack, SetField, SetCycleInterval, SetStartTime, SetStopTime, SetLoop, SetEnabled,
              SenderChanges, HandlerStep, Store, Tell, Seen, Does
<1> QED
  BY <1>1, <1>2 DEF SensorNext

(* A startTime starts the sensor once, however the ticks are spaced and    *)
(* whatever changes the other fields before, during and after the run,     *)
(* unless an event or the clock takes lastTime back.                       *)
THEOREM StartsOnce == SensorSpec => RunsOncePerStart
<1>1. SensorInv /\ [SensorNext]_tsVars =>
        [(NoneAtWork /\ ran /\ ~isActive /\ isActive') => (rewound \/ crossed)]_tsVars
  <2> SUFFICES ASSUME SensorInv, SensorNext, NoneAtWork, ran, ~isActive, isActive' PROVE rewound \/ crossed
    BY DEF tsVars
  <2>1. PICK t \in now .. MaxTime : enabled /\ (Start(t) \/ Run(t))
    BY RestChanges
  <2>2. enabled /\ startTime >= LastSeen(t) /\ ~Owes("seen") /\ ~Owes("store")
    BY <2>1, NoHandlers DEF Run, Start, BecomesActive, NoneAtWork
  <2>3. lastTime \in Int /\ startTime \in Nat /\ now \in Nat /\ t \in Nat
    BY TimeSensorAssumption DEF SensorInv, SensorTypeOK
  <2>4. t >= now
    BY <2>3
  <2>5. ASSUME ~rewound PROVE lastTime = startTime
    <3>1. startTime <= lastTime /\ lastTime <= now
      BY <2>2, <2>5 DEF SensorInv, StartIsSeen, LastTick
    <3> QED
      BY <2>2, <2>3, <2>4, <3>1 DEF LastSeen
  <2> QED
    BY <2>2, <2>5, Zenon DEF SensorInv, StartIsSeen, LastTick
<1> QED
  BY <1>1, SensorInvariant, PTL DEF SensorSpec, RunsOncePerStart

(* A sensor that does not loop and has a valid stopTime ends at exactly    *)
(* stopTime or the end of its cycle, however late the tick comes.          *)
THEOREM RunsEndExactly == SensorSpec => EndsExactly
<1>1. SensorInv /\ [SensorNext]_tsVars =>
        [(NoneAtWork /\ isActive /\ ~isActive' /\ ~loop /\ stopTime > startTime) =>
           handlers'[1].at = (IF stopTime < startTime + cycleInterval THEN stopTime
                                                       ELSE startTime + cycleInterval)]_tsVars
  <2> SUFFICES ASSUME SensorInv, SensorNext, NoneAtWork, isActive, ~isActive', ~loop, stopTime > startTime
               PROVE  handlers'[1].at = (IF stopTime < startTime + cycleInterval THEN stopTime
                                                       ELSE startTime + cycleInterval)
    BY DEF tsVars
  <2>1. PICK t \in now .. MaxTime : Start(t) \/ Run(t)
    BY RestChanges
  <2>2. /\ isActive' = ~Done(t)
        /\ handlers' = << IF Done(t) THEN Handler(ToTell, EndTime, FALSE) ELSE Handler(ToSee, t, TRUE) >>
    BY <2>1 DEF Start, BecomesActive, Run
  <2>3. handlers'[1].at = EndTime
    BY <2>2 DEF Handler
  <2>4. startTime \in Nat /\ stopTime \in Nat /\ cycleInterval \in Nat
    BY TimeSensorAssumption DEF SensorInv, SensorTypeOK
  <2> QED
    BY <2>3, <2>4 DEF EndTime
<1> QED
  BY <1>1, SensorInvariant, PTL DEF SensorSpec, EndsExactly

-----------------------------------------------------------------------------
(* The calls inside a call, of a finite call graph.  Table is the equation *)
(* that defines the function Reached of Nested, for some sets of nodes.    *)

Through(g, R, u) == R \cup {p \in g.node \X g.node : <<p[1], u>> \in R /\ <<u, p[2]>> \in R}
Inner(N) == CHOOSE u \in N : TRUE
Entry(g, C, N) == IF N = {} THEN g.edge ELSE Through(g, C[N \ {Inner(N)}], Inner(N))
Table(g, D, C) == C = [N \in D |-> Entry(g, C, N)]

UpTo(g, k) == {N \in SUBSET g.node : Cardinality(N) <= k}

(* A relation that has the graph's edges and is transitive at the nodes of N. *)
Joins(g, R, N) ==
  /\ R \subseteq g.node \X g.node
  /\ g.edge \subseteq R
  /\ \A u \in N : \A m, n \in g.node : <<m, u>> \in R /\ <<u, n>> \in R => <<m, n>> \in R

LEMMA InnerRemoved ==
  ASSUME NEW V, IsFiniteSet(V), NEW N \in SUBSET V, N # {}
  PROVE  /\ Inner(N) \in N
         /\ N \ {Inner(N)} \in SUBSET V
         /\ Cardinality(N) \in Nat /\ Cardinality(N \ {Inner(N)}) = Cardinality(N) - 1
<1>1. Inner(N) \in N
  BY DEF Inner
<1>2. IsFiniteSet(N)
  BY FS_Subset
<1> QED BY <1>1, <1>2, FS_RemoveElement, FS_CardinalityType

(* The tables exist, for the sets of up to k inner nodes. *)
LEMMA TablesExist ==
  ASSUME NEW g, IsFiniteSet(g.node), NEW k \in Nat
  PROVE  \E C : Table(g, UpTo(g, k), C)
<1> DEFINE V == g.node
           Missing == {i \in Nat : ~ \E C : Table(g, UpTo(g, i), C)}
<1>1. SUFFICES ASSUME Missing # {} PROVE FALSE
  OBVIOUS
<1>2. PICK i \in Missing : \A j \in Missing : i <= j
  BY <1>1, LeastElement
<1>3. CASE i = 0
  <2> DEFINE C == [N \in UpTo(g, 0) |-> g.edge]
  <2>1. ASSUME NEW N \in UpTo(g, 0) PROVE N = {}
    <3>1. IsFiniteSet(N) /\ Cardinality(N) \in Nat
      BY FS_Subset, FS_CardinalityType DEF UpTo
    <3> QED BY <3>1, FS_EmptySet DEF UpTo
  <2>2. C = [N \in UpTo(g, 0) |-> Entry(g, C, N)]
    BY <2>1 DEF Entry
  <2> QED BY <2>2, <1>3, <1>2 DEF Table
<1>4. CASE i # 0
  <2>1. i - 1 \in Nat /\ i - 1 \notin Missing
    BY <1>2, <1>4
  <2>2. PICK C : Table(g, UpTo(g, i - 1), C)
    BY <2>1
  <2> DEFINE D == [N \in UpTo(g, i) |-> Entry(g, C, N)]
  <2>3. ASSUME NEW N \in UpTo(g, i), N # {}
        PROVE  N \ {Inner(N)} \in UpTo(g, i - 1) /\ N \ {Inner(N)} \in UpTo(g, i)
    <3>1. N \in SUBSET V /\ Cardinality(N) <= i
      BY DEF UpTo
    <3>2. /\ N \ {Inner(N)} \in SUBSET V
          /\ Cardinality(N) \in Nat /\ Cardinality(N \ {Inner(N)}) = Cardinality(N) - 1
      BY <3>1, <2>3, InnerRemoved
    <3> QED BY <3>1, <3>2, <2>1 DEF UpTo
  <2>4. ASSUME NEW N \in UpTo(g, i - 1) PROVE C[N] = Entry(g, C, N)
    BY <2>2 DEF Table
  <2>5. ASSUME NEW N \in UpTo(g, i) PROVE Entry(g, C, N) = Entry(g, D, N)
    BY <2>3, <2>4 DEF Entry
  <2>6. D = [N \in UpTo(g, i) |-> Entry(g, D, N)]
    BY <2>5
  <2> QED BY <2>6, <1>2 DEF Table
<1> QED BY <1>3, <1>4

(* One more inner node. *)
LEMMA ThroughJoins ==
  ASSUME NEW g, NEW N \in SUBSET g.node, NEW u \in g.node, NEW R, Joins(g, R, N)
  PROVE  Joins(g, Through(g, R, u), N \cup {u})
<1> DEFINE V == g.node
           T == Through(g, R, u)
<1>1. /\ R \subseteq V \X V
      /\ g.edge \subseteq R
      /\ \A v \in N : \A m, n \in V : <<m, v>> \in R /\ <<v, n>> \in R => <<m, n>> \in R
  BY DEF Joins
<1>2. \A m, n \in V : <<m, n>> \in T <=> (<<m, n>> \in R \/ (<<m, u>> \in R /\ <<u, n>> \in R))
  BY DEF Through
<1>3. T \subseteq V \X V /\ g.edge \subseteq T
  BY <1>1 DEF Through
<1> HIDE DEF T
<1>5. ASSUME NEW v \in N \cup {u}, NEW m \in V, NEW n \in V, <<m, v>> \in T, <<v, n>> \in T
      PROVE  <<m, n>> \in T
  <2>1. /\ v \in V
        /\ <<m, v>> \in R \/ (<<m, u>> \in R /\ <<u, v>> \in R)
        /\ <<v, n>> \in R \/ (<<v, u>> \in R /\ <<u, n>> \in R)
    BY <1>2, <1>5
  <2>2. v \in N =>
          /\ <<m, v>> \in R /\ <<v, n>> \in R => <<m, n>> \in R
          /\ <<u, v>> \in R /\ <<v, n>> \in R => <<u, n>> \in R
          /\ <<m, v>> \in R /\ <<v, u>> \in R => <<m, u>> \in R
    BY <1>1, <2>1
  <2>3. <<m, n>> \in T <=> (<<m, n>> \in R \/ (<<m, u>> \in R /\ <<u, n>> \in R))
    BY <1>2
  <2>4. CASE v \in N
    BY <2>1, <2>2, <2>3, <2>4
  <2>5. CASE v = u
    BY <2>1, <2>3, <2>5
  <2> QED BY <2>4, <2>5
<1>6. Joins(g, T, N \cup {u})
  BY <1>3, <1>5 DEF Joins
<1> QED BY <1>6 DEF T

(* Every relation of a table is transitive at its inner nodes. *)
LEMMA TableJoins ==
  ASSUME NEW g, IsFiniteSet(g.node), g.edge \subseteq g.node \X g.node,
         NEW C, Table(g, SUBSET g.node, C), NEW N \in SUBSET g.node
  PROVE  Joins(g, C[N], N)
<1> DEFINE V == g.node
           Sizes == {k \in Nat : \E U \in SUBSET V : Cardinality(U) = k /\ ~Joins(g, C[U], U)}
<1>1. SUFFICES ASSUME ~Joins(g, C[N], N) PROVE FALSE
  OBVIOUS
<1>2. Cardinality(N) \in Sizes
  BY <1>1, FS_Subset, FS_CardinalityType
<1>3. PICK k \in Sizes : \A j \in Sizes : k <= j
  <2>1. Sizes \subseteq Nat /\ Sizes # {}
    BY <1>2
  <2> HIDE DEF Sizes
  <2> QED BY <2>1, LeastElement
<1>4. PICK U \in SUBSET V : Cardinality(U) = k /\ ~Joins(g, C[U], U)
  BY <1>3
<1>5. C[U] = Entry(g, C, U)
  BY DEF Table
<1>6. CASE U = {}
  <2>1. C[U] = g.edge
    BY <1>5, <1>6 DEF Entry
  <2>2. Joins(g, g.edge, {})
    BY DEF Joins
  <2> QED BY <2>1, <2>2, <1>4, <1>6
<1>7. CASE U # {}
  <2> DEFINE u == Inner(U)
             R == U \ {u}
  <2>1. u \in U /\ R \in SUBSET V /\ Cardinality(U) \in Nat /\ Cardinality(R) = Cardinality(U) - 1
    BY <1>7, InnerRemoved
  <2>2. C[U] = Through(g, C[R], u)
    BY <1>5, <1>7 DEF Entry
  <2>3. Cardinality(R) \in Nat
    BY <2>1, FS_Subset, FS_CardinalityType
  <2> HIDE DEF u, R
  <2>4. Cardinality(R) \notin Sizes
    BY <2>1, <2>3, <1>3, <1>4
  <2>5. Joins(g, C[R], R)
    BY <2>1, <2>3, <2>4
  <2>6. U = R \cup {u}
    BY <2>1 DEF R
  <2>7. u \in V
    BY <2>1
  <2>8. Joins(g, Through(g, C[R], u), R \cup {u})
    BY <2>1, <2>5, <2>7, ThroughJoins
  <2> QED BY <2>2, <2>6, <2>8, <1>4
<1> QED BY <1>6, <1>7

(* The calls inside the calls of a finite graph contain its edges and are *)
(* transitive.                                                             *)
LEMMA NestedClosed ==
  ASSUME NEW g, IsFiniteSet(g.node), g.edge \subseteq g.node \X g.node
  PROVE  Joins(g, Nested(g), g.node)
<1> DEFINE V == g.node
           D == CHOOSE C : Table(g, SUBSET V, C)
<1>1. UpTo(g, Cardinality(V)) = SUBSET V /\ Cardinality(V) \in Nat
  BY FS_Subset, FS_CardinalityType DEF UpTo
<1>2. \E C : Table(g, SUBSET V, C)
  BY <1>1, TablesExist
<1>3. Table(g, SUBSET V, D)
  BY <1>2
<1>4. Nested(g) = D[V]
  BY DEF Nested, Table, Entry, Through, Inner
<1> QED BY <1>3, <1>4, TableJoins

(* The calls of a world contain what one call may call next: the listener  *)
(* of a route or of a direct write, and the sending a field begins.        *)
CallsClosed(w) ==
  /\ \A r \in w.routes : <<Sending(r[1]), r[2]>> \in w.calls
  /\ \A p \in w.writes : p \in w.calls
  /\ \A f \in Fields : <<f, Sending(f)>> \in w.calls
  /\ \A a, b, c : <<a, b>> \in w.calls /\ <<b, c>> \in w.calls => <<a, c>> \in w.calls

LEMMA FiniteCalls == IsFiniteSet(Listeners \cup {Sending(e) : e \in Emitters})
<1> DEFINE F == [s \in Scripts |-> Url(s)]
           G == [e \in Emitters |-> Sending(e)]
           S == {Sending(e) : e \in Emitters}
<1>1. IsFiniteSet(Scripts) /\ IsFiniteSet(Fields) /\ IsFiniteSet({Sensor})
  BY ScriptEventsAssumption, FS_Singleton
<1>2. IsFiniteSet(Emitters) /\ IsFiniteSet(Scripts \cup Fields)
  BY <1>1, FS_Union DEF Emitters
<1>3. IsFiniteSet(Urls)
  <2>1. F \in Surjection(Scripts, Urls)
    BY DEF Surjection, Urls
  <2> QED BY <2>1, <1>1, FS_Surjection
<1>4. IsFiniteSet(S)
  <2>1. G \in Surjection(Emitters, S)
    BY DEF Surjection
  <2> QED BY <2>1, <1>2, FS_Surjection
<1> QED BY <1>2, <1>3, <1>4, FS_Union DEF Listeners

LEMMA WorldsClosed ==
  ASSUME NEW w \in Worlds
  PROVE  CallsClosed(w) /\ w.routes \subseteq Routes /\ w.writes \subseteq Writes
<1>1. PICK rs \in SUBSET Routes, ws \in SUBSET Writes :
        w = [routes |-> rs, writes |-> ws, calls |-> Nested(CallGraph(rs, ws))]
  BY DEF Worlds
<1> DEFINE g == CallGraph(rs, ws)
           V == Listeners \cup {Sending(e) : e \in Emitters}
<1>2. g.node = V /\ g.edge = {<<Sending(r[1]), r[2]>> : r \in rs} \cup ws
                              \cup {<<f, Sending(f)>> : f \in Fields}
  BY DEF CallGraph
<1> HIDE DEF g
<1>3. g.edge \subseteq V \X V
  <2>1. ASSUME NEW r \in rs PROVE <<Sending(r[1]), r[2]>> \in V \X V
    BY ScriptEventsAssumption
  <2>2. ws \subseteq V \X V
    BY ScriptEventsAssumption DEF Listeners
  <2>3. ASSUME NEW f \in Fields PROVE <<f, Sending(f)>> \in V \X V
    BY DEF Listeners, Emitters
  <2> QED BY <1>2, <2>1, <2>2, <2>3
<1>4. Joins(g, Nested(g), V)
  BY <1>2, <1>3, FiniteCalls, NestedClosed
<1>5. w.calls = Nested(g) /\ w.routes = rs /\ w.writes = ws
  BY <1>1 DEF g
<1>6. g.edge \subseteq w.calls /\ w.calls \subseteq V \X V
  BY <1>2, <1>4, <1>5 DEF Joins
<1>7. ASSUME NEW a, NEW b, NEW c, <<a, b>> \in w.calls, <<b, c>> \in w.calls
      PROVE  <<a, c>> \in w.calls
  <2>1. a \in V /\ b \in V /\ c \in V
    BY <1>6, <1>7
  <2> QED BY <2>1, <1>2, <1>4, <1>5, <1>7 DEF Joins
<1> QED BY <1>2, <1>5, <1>6, <1>7 DEF CallsClosed

-----------------------------------------------------------------------------
(* The invariant.                                                          *)

EmitFrame == [op : {"emit"}, node : Emitters, todo : SUBSET Listeners]
DirectFrame == [op : {"direct"}, node : Scripts, seen : SUBSET Listeners,
                then : {"event", "initialize", "shutdown"}]
UpdateFrame == [op : {"update"}, next : Nat \ {0}]
CallFrame == EmitFrame \cup DirectFrame \cup UpdateFrame

\* The call that a frame is.
CallOf(f) == IF f.op = "emit" THEN Sending(f.node) ELSE f.node

\* What a loop has still to do is its world's to ask of it, and only the call of a
\* listener has callers.
CallFrameInv(f, i) ==
  /\ f.op = "emit" => \A l \in f.todo : <<f.node, l>> \in world.routes
  /\ f.op = "direct" /\ i > 1 => f.then = "event"
  /\ f.op = "update" => i = 1

\* Every call is made inside the calls below it.
Linked ==
  \A i, j \in DOMAIN stack :
    i < j /\ stack[i].op # "update" => <<CallOf(stack[i]), CallOf(stack[j])>> \in world.calls

\* A Script has queued direct output only to what it may write to.
Written == \A s \in Scripts : \A l \in directOutput[s] : <<s, l>> \in world.writes

StackInv ==
  /\ stack \in Seq(CallFrame)
  /\ \A i \in DOMAIN stack : CallFrameInv(stack[i], i)
  /\ Linked

DataInv ==
  /\ routes \subseteq world.routes
  /\ received \in [Scripts -> BOOLEAN]
  /\ modified \in [Scripts -> BOOLEAN]
  /\ pending \in [Scripts -> BOOLEAN]
  /\ directOutput \in [Scripts -> SUBSET Listeners]
  /\ Written

BrowserInv ==
  /\ stage \in {"loading", "running", "down"}
  /\ scripts \in Seq(Scripts)
  /\ engine \subseteq Scripts
  /\ updates \in 0 .. MaxUpdates

CallsInv ==
  /\ world \in Worlds
  /\ StackInv
  /\ Len(stack) <= MaxDepth + 1
  /\ DataInv
  /\ BrowserInv
  /\ fault \in Faults

LEMMA CallsTyped == CallsInv => ScriptsTypeOK
<1> SUFFICES ASSUME CallsInv PROVE ScriptsTypeOK
  OBVIOUS
<1>1. ASSUME NEW i \in DOMAIN stack PROVE stack[i].op \in {"emit", "direct", "update"}
  <2>1. i \in 1..Len(stack) /\ stack \in Seq(CallFrame)
    BY LenProperties DEF CallsInv, StackInv
  <2>2. stack[i] \in CallFrame
    BY <2>1, ElementOfSeq
  <2> QED BY <2>2 DEF CallFrame, EmitFrame, DirectFrame, UpdateFrame
<1> QED BY <1>1 DEF CallsInv, DataInv, BrowserInv, ScriptsTypeOK

LEMMA WorldCalls ==
  ASSUME world \in Worlds
  PROVE  CallsClosed(world) /\ world.routes \subseteq Routes /\ world.writes \subseteq Writes
BY WorldsClosed

(* The shape of a stack that is not empty. *)
LEMMA TopAndBelow ==
  ASSUME StackInv, stack # <<>>
  PROVE  /\ Len(stack) \in Nat \ {0} /\ DOMAIN stack = 1..Len(stack)
         /\ TopCall = stack[Len(stack)] /\ TopCall \in CallFrame /\ CallFrameInv(TopCall, Len(stack))
         /\ Below \in Seq(CallFrame) /\ Len(Below) = Len(stack) - 1
         /\ \A i \in 1..(Len(stack) - 1) : Below[i] = stack[i] /\ stack[i] \in CallFrame
<1>1. stack \in Seq(CallFrame)
  BY DEF StackInv
<1>2. Len(stack) \in Nat \ {0} /\ DOMAIN stack = 1..Len(stack)
  BY <1>1, LenProperties, EmptySeq
<1>3. \A i \in 1..Len(stack) : stack[i] \in CallFrame
  BY <1>1, ElementOfSeq
<1>4. Front(stack) \in Seq(CallFrame) /\ Len(Front(stack)) = Len(stack) - 1
      /\ \A i \in 1..(Len(stack) - 1) : Front(stack)[i] = stack[i]
  BY <1>1, FrontProperties
<1>5. Below = Front(stack)
  BY DEF Below, Front
<1>6. Len(stack) \in 1..Len(stack) /\ \A i \in 1..(Len(stack) - 1) : i \in 1..Len(stack)
  BY <1>2
<1>7. CallFrameInv(stack[Len(stack)], Len(stack))
  BY <1>2, <1>6 DEF StackInv
<1> QED BY <1>2, <1>3, <1>4, <1>5, <1>6, <1>7 DEF TopCall

(* A call returns. *)
LEMMA ReturnStep ==
  ASSUME StackInv, stack # <<>>, stack' = Below, world' = world
  PROVE  /\ StackInv' /\ Len(stack') = Len(stack) - 1
         /\ \A op \in {"emit", "direct"}, n \in Emitters :
              /\ OnStack(op, n)' => OnStack(op, n)
              /\ OnStack(op, n) => OnStack(op, n)' \/ (TopCall.op = op /\ TopCall.node = n)
<1> DEFINE L == Len(stack)
<1>1. /\ L \in Nat \ {0} /\ DOMAIN stack = 1..L /\ TopCall = stack[L]
      /\ stack' \in Seq(CallFrame) /\ Len(stack') = L - 1
      /\ \A i \in 1..(L - 1) : stack'[i] = stack[i]
  BY TopAndBelow
<1>2. DOMAIN stack' = 1..(L - 1)
  BY <1>1, LenProperties
<1> HIDE DEF L
<1>3. \A i \in 1..(L - 1) : i \in 1..L
  BY <1>1
<1>4. \A i \in 1..(L - 1) : CallFrameInv(stack[i], i)'
  BY <1>1, <1>3 DEF StackInv, CallFrameInv
<1>5. Linked'
  BY <1>1, <1>2, <1>3 DEF StackInv, Linked
<1>6. StackInv'
  BY <1>1, <1>2, <1>4, <1>5 DEF StackInv
<1>7. ASSUME NEW op \in {"emit", "direct"}, NEW n \in Emitters
      PROVE  /\ OnStack(op, n)' => OnStack(op, n)
             /\ OnStack(op, n) => OnStack(op, n)' \/ (TopCall.op = op /\ TopCall.node = n)
  <2>1. \A i \in 1..L : i = L \/ i \in 1..(L - 1)
    BY <1>1
  <2> QED BY <1>1, <1>2, <1>3, <2>1 DEF OnStack
<1> QED BY <1>1, <1>6, <1>7 DEF L

(* A frame as its loop goes on. *)
Advanced(c) ==
  /\ c \in CallFrame
  /\ c.op = TopCall.op
  /\ c.op # "update" => c.node = TopCall.node
  /\ CallFrameInv(c, Len(stack))

LEMMA AdvanceStep ==
  ASSUME StackInv, stack # <<>>, world' = world,
         NEW c, Advanced(c), stack' = Append(Below, c)
  PROVE  /\ StackInv' /\ Len(stack') = Len(stack)
         /\ \A op \in {"emit", "direct"}, n \in Emitters : OnStack(op, n)' <=> OnStack(op, n)
<1> DEFINE L == Len(stack)
<1>1. /\ L \in Nat \ {0} /\ DOMAIN stack = 1..L /\ TopCall = stack[L]
      /\ Below \in Seq(CallFrame) /\ Len(Below) = L - 1
      /\ \A i \in 1..(L - 1) : Below[i] = stack[i] /\ stack[i] \in CallFrame
  BY TopAndBelow
<1>2. c \in CallFrame /\ c.op = stack[L].op /\ (c.op # "update" => c.node = stack[L].node)
      /\ CallFrameInv(c, L)
  BY <1>1 DEF Advanced
<1> HIDE DEF L
<1>3. /\ stack' \in Seq(CallFrame) /\ Len(stack') = L
      /\ \A i \in 1..(L - 1) : stack'[i] = stack[i]
      /\ stack'[L] = c
  BY <1>1, <1>2, AppendProperties
<1>4. DOMAIN stack' = 1..L
  BY <1>1, <1>3, LenProperties
<1>5. \A i \in 1..L : i = L \/ i \in 1..(L - 1)
  BY <1>1
<1>6. \A i \in 1..L : CallFrameInv(stack[i], i)'
  BY <1>1, <1>2, <1>3, <1>5 DEF StackInv, CallFrameInv
<1>7. \A i \in 1..L : /\ stack'[i].op = stack[i].op
                      /\ stack[i].op # "update" => stack'[i].node = stack[i].node
  BY <1>2, <1>3, <1>5
<1>8. Linked'
  <2> SUFFICES ASSUME NEW i \in 1..L, NEW j \in 1..L, i < j, stack'[i].op # "update"
               PROVE  <<CallOf(stack'[i]), CallOf(stack'[j])>> \in world.calls
    BY <1>4 DEF Linked, CallOf
  <2>1. j # 1 /\ stack[j].op # "update"
    BY <1>1 DEF StackInv, CallFrameInv
  <2>2. CallOf(stack'[i]) = CallOf(stack[i]) /\ CallOf(stack'[j]) = CallOf(stack[j])
    BY <1>7, <2>1 DEF CallOf
  <2> QED BY <2>2, <1>1, <1>7 DEF StackInv, Linked
<1>9. ASSUME NEW op \in {"emit", "direct"}, NEW n \in Emitters
      PROVE  OnStack(op, n)' <=> OnStack(op, n)
  BY <1>1, <1>4, <1>7 DEF OnStack
<1>10. StackInv'
  BY <1>3, <1>4, <1>6, <1>8 DEF StackInv
<1> QED BY <1>3, <1>9, <1>10 DEF L

(* A call is made from a frame whose loop goes on. *)
LEMMA CallStep ==
  ASSUME world \in Worlds, StackInv, stack # <<>>, world' = world,
         NEW c, Advanced(c), NEW f \in EmitFrame \cup DirectFrame,
         \A l \in f.todo : f.op = "emit" => <<f.node, l>> \in world.routes,
         f.op = "direct" => f.then = "event",
         TopCall.op # "update" => <<CallOf(TopCall), CallOf(f)>> \in world.calls,
         stack' = Called(c, f)
  PROVE  /\ StackInv' /\ Len(stack') = Len(stack) + 1
         /\ \A op \in {"emit", "direct"}, n \in Emitters :
              OnStack(op, n)' <=> OnStack(op, n) \/ (f.op = op /\ f.node = n)
<1> DEFINE L == Len(stack)
<1>1. /\ L \in Nat \ {0} /\ DOMAIN stack = 1..L /\ TopCall = stack[L]
      /\ Below \in Seq(CallFrame) /\ Len(Below) = L - 1
      /\ \A i \in 1..(L - 1) : Below[i] = stack[i] /\ stack[i] \in CallFrame
  BY TopAndBelow
<1>2. c \in CallFrame /\ c.op = stack[L].op /\ (c.op # "update" => c.node = stack[L].node)
      /\ CallFrameInv(c, L)
  BY <1>1 DEF Advanced
<1> HIDE DEF L
<1>3. /\ Append(Below, c) \in Seq(CallFrame) /\ Len(Append(Below, c)) = L
      /\ \A i \in 1..(L - 1) : Append(Below, c)[i] = stack[i]
      /\ Append(Below, c)[L] = c
  BY <1>1, <1>2, AppendProperties
<1>30. f \in CallFrame /\ f.op \in {"emit", "direct"}
  BY DEF CallFrame, EmitFrame, DirectFrame
<1>4. /\ stack' \in Seq(CallFrame) /\ Len(stack') = L + 1
      /\ \A i \in 1..(L - 1) : stack'[i] = stack[i]
      /\ stack'[L] = c /\ stack'[L + 1] = f
  <2>1. \A i \in 1..L : i = L \/ i \in 1..(L - 1)
    BY <1>1
  <2>2. \A i \in 1..(L - 1) : i \in 1..L
    BY <1>1
  <2>3. L \in 1..L
    BY <1>1
  <2> QED BY <1>3, <1>30, <2>2, <2>3, AppendProperties DEF Called
<1>5. DOMAIN stack' = 1..(L + 1)
  BY <1>1, <1>4, LenProperties
<1>6. \A i \in 1..(L + 1) : i = L + 1 \/ i = L \/ i \in 1..(L - 1)
  BY <1>1
<1>7. CallFrameInv(f, L + 1)
  BY <1>30, <1>1 DEF CallFrameInv
<1>8. ASSUME NEW i \in 1..(L + 1) PROVE CallFrameInv(stack[i], i)'
  <2>1. CASE i = L + 1
    BY <2>1, <1>4, <1>7 DEF CallFrameInv
  <2>2. CASE i = L
    BY <2>2, <1>4, <1>2 DEF CallFrameInv
  <2>3. CASE i \in 1..(L - 1)
    <3>1. stack'[i] = stack[i] /\ i \in 1..L
      BY <2>3, <1>1, <1>4
    <3>2. CallFrameInv(stack[i], i)
      BY <3>1, <1>1 DEF StackInv
    <3> QED BY <3>1, <3>2 DEF CallFrameInv
  <2> QED BY <2>1, <2>2, <2>3, <1>6
<1>9. \A i \in 1..L : /\ stack'[i].op = stack[i].op
                      /\ stack[i].op # "update" => stack'[i].node = stack[i].node
  BY <1>1, <1>2, <1>4, <1>6
<1>10. ASSUME NEW i \in 1..L, stack[i].op # "update"
       PROVE  <<CallOf(stack[i]), CallOf(f)>> \in world.calls
  <2>1. CASE i = L
    BY <2>1, <1>1, <1>10
  <2>2. CASE i # L
    <3>1. i < L /\ L \in 1..L /\ stack[L].op # "update"
      BY <2>2, <1>1 DEF StackInv, CallFrameInv
    <3>2. <<CallOf(stack[i]), CallOf(TopCall)>> \in world.calls
      BY <3>1, <1>1, <1>10 DEF StackInv, Linked
    <3> QED BY <3>1, <3>2, <1>1, WorldCalls DEF CallsClosed
  <2> QED BY <2>1, <2>2
<1>11. Linked'
  <2> SUFFICES ASSUME NEW i \in 1..(L + 1), NEW j \in 1..(L + 1), i < j, stack'[i].op # "update"
               PROVE  <<CallOf(stack'[i]), CallOf(stack'[j])>> \in world.calls
    BY <1>5 DEF Linked, CallOf
  <2>1. i \in 1..L
    BY <1>1
  <2>2. stack[i].op # "update" /\ CallOf(stack'[i]) = CallOf(stack[i])
    BY <2>1, <1>9 DEF CallOf
  <2>3. CASE j = L + 1
    BY <2>1, <2>2, <2>3, <1>4, <1>10
  <2>4. CASE j # L + 1
    <3>1. j \in 1..L
      BY <2>4, <1>1
    <3>2. CallFrameInv(stack[j], j)
      BY <3>1, <1>1 DEF StackInv
    <3>20. j # 1 /\ stack[j].op # "update"
      BY <3>1, <3>2, <2>1, <1>1 DEF CallFrameInv
    <3>3. CallOf(stack'[j]) = CallOf(stack[j])
      BY <3>1, <3>20, <1>9 DEF CallOf
    <3> QED BY <2>1, <2>2, <3>1, <3>3, <1>1 DEF StackInv, Linked
  <2> QED BY <2>3, <2>4
<1>12. ASSUME NEW op \in {"emit", "direct"}, NEW n \in Emitters
       PROVE  OnStack(op, n)' <=> OnStack(op, n) \/ (f.op = op /\ f.node = n)
  <2>1. \A i \in 1..(L + 1) : i = L + 1 \/ i \in 1..L
    BY <1>1
  <2>2. L + 1 \in 1..(L + 1) /\ \A i \in 1..L : i \in 1..(L + 1)
    BY <1>1
  <2> QED BY <1>1, <1>4, <1>5, <1>9, <2>1, <2>2 DEF OnStack
<1>13. StackInv'
  BY <1>4, <1>5, <1>8, <1>11 DEF StackInv
<1> QED BY <1>4, <1>12, <1>13 DEF L

-----------------------------------------------------------------------------
(* The steps keep the invariant. *)

LEMMA EmittingFrame ==
  ASSUME world \in Worlds, DataInv, NEW e \in Emitters
  PROVE  /\ Emitting(e) \in EmitFrame /\ Emitting(e).op = "emit" /\ Emitting(e).node = e
         /\ CallOf(Emitting(e)) = Sending(e)
         /\ \A l \in Emitting(e).todo : <<e, l>> \in world.routes
<1>1. routes \subseteq world.routes /\ world.routes \subseteq Emitters \X Listeners
  BY WorldCalls, ScriptEventsAssumption DEF DataInv
<1>2. ASSUME NEW r \in routes, r[1] = e PROVE r[2] \in Listeners /\ <<e, r[2]>> \in world.routes
  BY <1>1, <1>2
<1> QED BY <1>2 DEF Emitting, EmitFrame, CallOf

LEMMA DirectingFrame ==
  ASSUME NEW s \in Scripts, NEW then \in {"event", "initialize", "shutdown"}
  PROVE  /\ Directing(s, then) \in DirectFrame /\ Directing(s, then).op = "direct"
         /\ Directing(s, then).node = s /\ Directing(s, then).then = then
         /\ CallOf(Directing(s, then)) = s
BY DEF Directing, DirectFrame, CallOf

(* What a Script's code may do. *)
LEMMA CodeStep ==
  ASSUME world \in Worlds, DataInv, world' = world, received' \in [Scripts -> BOOLEAN],
         NEW s \in Scripts, NEW out \in MayWrite(s), Code(s, out)
  PROVE  DataInv' /\ fault' \in {NoFault, "deadlock"}
<1>2. world.writes \subseteq Scripts \X Listeners
  BY WorldCalls, ScriptEventsAssumption
<1>3. \A l \in out : <<s, l>> \in world.writes /\ l \in Listeners
  <2>1. ASSUME NEW l \in out PROVE <<s, l>> \in world.writes /\ l \in Listeners
    <3>1. PICK q \in world.writes : q[1] = s /\ q[2] = l
      BY DEF MayWrite
    <3> QED BY <3>1, <1>2
  <2> QED BY <2>1
<1>4. directOutput' = [directOutput EXCEPT ![s] = @ \cup out]
  BY DEF Code
<1>5. directOutput' \in [Scripts -> SUBSET Listeners] /\ Written'
  BY <1>3, <1>4 DEF DataInv, Written
<1>6. modified' \in [Scripts -> BOOLEAN] /\ pending' \in [Scripts -> BOOLEAN]
  BY DEF Code, DataInv
<1>7. routes' \subseteq world.routes /\ fault' \in {NoFault, "deadlock"}
  BY DEF Code, RouteChange, DataInv
<1> QED BY <1>5, <1>6, <1>7 DEF DataInv

LEMMA NodesAreCalls == /\ Scripts \subseteq Emitters /\ Scripts \subseteq Listeners
                       /\ Fields \subseteq Emitters /\ Fields \subseteq Listeners
                       /\ Sensor \in Emitters
BY DEF Emitters, Listeners

(* The listener l is called, from a loop that goes on as c. *)
CallsBegin(l, c) ==
  /\ CallRuns
  /\ TopCall.op \in {"emit", "direct"}
  /\ Advanced(c)
  /\ <<CallOf(TopCall), l>> \in world.calls
  /\ \E e \in world.routes \cup world.writes : e[2] = l
  /\ Process(l, c)
  /\ UNCHANGED <<world, browserVars>>

LEMMA ProcessStep ==
  ASSUME CallsInv, NEW l, NEW c, CallsBegin(l, c)
  PROVE  CallsInv'
<1>1. /\ stack # <<>> /\ Len(stack) <= MaxDepth /\ Len(stack) \in Nat \ {0}
      /\ fault = NoFault /\ MaxDepth \in Nat
      /\ world \in Worlds /\ StackInv /\ DataInv
      /\ TopCall.op \in {"emit", "direct"} /\ UNCHANGED <<world, browserVars>>
      /\ Advanced(c) /\ <<CallOf(TopCall), l>> \in world.calls /\ Process(l, c)
  BY TopAndBelow, ScriptEventsAssumption DEF CallRuns, CallsInv, CallsBegin
<1>2. world' \in Worlds /\ BrowserInv'
  BY <1>1 DEF CallsInv, BrowserInv, browserVars
<1>3. CASE l \in Fields /\ ProcessField(l, c)
  <2>1. l \in Emitters
    BY <1>3, NodesAreCalls
  <2>2. <<CallOf(TopCall), CallOf(Emitting(l))>> \in world.calls
    BY <1>1, <1>3, <2>1, EmittingFrame, WorldCalls DEF CallsClosed
  <2>3. stack' = Called(c, Emitting(l)) /\ fault' = NoFault /\ UNCHANGED <<routes, nodeVars>>
    BY <1>3 DEF ProcessField
  <2>4. StackInv' /\ Len(stack') = Len(stack) + 1
    BY <1>1, <2>1, <2>2, <2>3, EmittingFrame, CallStep
  <2>5. DataInv'
    BY <1>1, <2>3 DEF nodeVars, DataInv, Written
  <2>6. Len(stack') <= MaxDepth + 1 /\ fault' \in Faults
    BY <1>1, <2>3, <2>4 DEF Faults
  <2> QED BY <1>2, <2>4, <2>5, <2>6 DEF CallsInv
<1>4. CASE l \in Scripts /\ ProcessScript(l, c)
  <2>1. CASE l \in engine
    <3>1. PICK out \in MayWrite(l) : Code(l, out)
      BY <1>4, <2>1 DEF ProcessScript
    <3>2. stack' = Called(c, Directing(l, "event")) /\ received' = received
      BY <1>4, <2>1 DEF ProcessScript
    <3>3. DataInv' /\ fault' \in {NoFault, "deadlock"}
      BY <1>1, <1>4, <3>1, <3>2, CodeStep DEF DataInv
    <3>4. <<CallOf(TopCall), CallOf(Directing(l, "event"))>> \in world.calls
      BY <1>1, <1>4, DirectingFrame
    <3>5. StackInv' /\ Len(stack') = Len(stack) + 1
      BY <1>1, <1>4, <3>2, <3>4, DirectingFrame, CallStep
    <3>6. fault' \in Faults
      BY <3>3 DEF Faults
    <3>7. Len(stack') <= MaxDepth + 1
      BY <1>1, <3>5
    <3> QED BY <1>2, <3>3, <3>5, <3>6, <3>7 DEF CallsInv
  <2>2. CASE l \notin engine
    <3>1. /\ received' = [received EXCEPT ![l] = TRUE]
          /\ stack' = Append(Below, c) /\ fault' = NoFault
          /\ UNCHANGED <<routes, modified, pending, directOutput>>
      BY <1>4, <2>2 DEF ProcessScript
    <3>2. StackInv' /\ Len(stack') = Len(stack)
      BY <1>1, <3>1, AdvanceStep
    <3>3. DataInv'
      BY <1>1, <3>1 DEF DataInv, Written
    <3>4. fault' \in Faults
      BY <3>1 DEF Faults
    <3>5. Len(stack') <= MaxDepth + 1
      BY <1>1, <3>2
    <3> QED BY <1>2, <3>2, <3>3, <3>4, <3>5 DEF CallsInv
  <2> QED BY <2>1, <2>2
<1>5. CASE \E s \in Scripts : l = Url(s) /\ ProcessUrl(s)
  <2>1. PICK s \in Scripts : ProcessUrl(s)
    BY <1>5
  <2>2. UNCHANGED <<routes, stack, nodeVars>>
    BY <2>1 DEF ProcessUrl
  <2>3. fault' \in Faults
    BY <2>1 DEF ProcessUrl, Faults
  <2>4. StackInv'
    BY <1>1, <2>2 DEF StackInv, CallFrameInv, Linked
  <2>5. DataInv'
    BY <1>1, <2>2 DEF DataInv, Written, nodeVars
  <2> QED BY <1>1, <1>2, <2>2, <2>3, <2>4, <2>5 DEF CallsInv
<1> QED BY <1>1, <1>3, <1>4, <1>5 DEF Process

(* The frames' steps: a loop calls its next listener, or ends. *)
LEMMA EmitNextCalls == CallsInv /\ EmitNext => \E l, c : CallsBegin(l, c)
<1> SUFFICES ASSUME CallsInv, EmitNext PROVE \E l, c : CallsBegin(l, c)
  OBVIOUS
<1>1. CallRuns /\ TopCall.op = "emit" /\ UNCHANGED <<world, browserVars>>
      /\ world \in Worlds /\ StackInv /\ stack # <<>>
  BY DEF EmitNext, CallsInv, CallRuns
<1>2. PICK l \in TopCall.todo : Process(l, [TopCall EXCEPT !.todo = @ \ {l}])
  BY DEF EmitNext
<1> DEFINE c == [TopCall EXCEPT !.todo = @ \ {l}]
<1>3. TopCall \in CallFrame /\ CallFrameInv(TopCall, Len(stack))
  BY <1>1, TopAndBelow
<1>4. TopCall \in EmitFrame
  BY <1>1, <1>3 DEF CallFrame, EmitFrame, DirectFrame, UpdateFrame
<1>5. c \in EmitFrame /\ c.op = "emit" /\ c.node = TopCall.node /\ c.todo \subseteq TopCall.todo
  BY <1>4 DEF EmitFrame
<1>6. Advanced(c)
  BY <1>1, <1>3, <1>5 DEF Advanced, CallFrameInv, CallFrame
<1>7. <<TopCall.node, l>> \in world.routes
  BY <1>1, <1>3 DEF CallFrameInv
<1>8. <<CallOf(TopCall), l>> \in world.calls
  BY <1>1, <1>7, WorldCalls DEF CallsClosed, CallOf
<1> HIDE DEF c
<1>9. Process(l, c)
  BY <1>2 DEF c
<1>10. CallsBegin(l, c)
  BY <1>1, <1>6, <1>7, <1>8, <1>9 DEF CallsBegin
<1> QED BY <1>10

LEMMA DirectNextCalls == CallsInv /\ DirectNext => \E l, c : CallsBegin(l, c)
<1> SUFFICES ASSUME CallsInv, DirectNext PROVE \E l, c : CallsBegin(l, c)
  OBVIOUS
<1>1. CallRuns /\ TopCall.op = "direct" /\ UNCHANGED <<world, browserVars>>
      /\ world \in Worlds /\ StackInv /\ stack # <<>> /\ DataInv
  BY DEF DirectNext, CallsInv, CallRuns
<1>2. PICK l \in directOutput[TopCall.node] \ TopCall.seen : Process(l, [TopCall EXCEPT !.seen = @ \cup {l}])
  BY DEF DirectNext
<1> DEFINE c == [TopCall EXCEPT !.seen = @ \cup {l}]
<1>3. TopCall \in CallFrame /\ CallFrameInv(TopCall, Len(stack))
  BY <1>1, TopAndBelow
<1>4. TopCall \in DirectFrame
  BY <1>1, <1>3 DEF CallFrame, EmitFrame, DirectFrame, UpdateFrame
<1>5. TopCall.node \in Scripts /\ l \in Listeners
  BY <1>1, <1>4 DEF DirectFrame, DataInv
<1>6. c \in DirectFrame /\ c.op = "direct" /\ c.node = TopCall.node /\ c.then = TopCall.then
  BY <1>4, <1>5 DEF DirectFrame
<1>7. Advanced(c)
  BY <1>1, <1>3, <1>6 DEF Advanced, CallFrameInv, CallFrame
<1>8. <<TopCall.node, l>> \in world.writes
  BY <1>1, <1>5 DEF DataInv, Written
<1>9. <<CallOf(TopCall), l>> \in world.calls
  BY <1>1, <1>8, WorldCalls DEF CallsClosed, CallOf
<1> HIDE DEF c
<1>10. Process(l, c)
  BY <1>2 DEF c
<1>11. CallsBegin(l, c)
  BY <1>1, <1>7, <1>8, <1>9, <1>10 DEF CallsBegin
<1> QED BY <1>11

LEMMA EmitEndKeeps == CallsInv /\ EmitEnd => CallsInv'
<1> SUFFICES ASSUME CallsInv, EmitEnd PROVE CallsInv'
  OBVIOUS
<1>1. /\ stack # <<>> /\ StackInv /\ stack' = Below /\ world' = world /\ DataInv
      /\ UNCHANGED <<routes, received, pending, directOutput, browserVars, fault>>
      /\ modified' = [s \in Scripts |-> modified[s] /\ s # TopCall.node]
  BY DEF EmitEnd, CallRuns, CallsInv
<1>2. StackInv' /\ Len(stack') = Len(stack) - 1
  BY <1>1, ReturnStep
<1>3. Len(stack') <= MaxDepth + 1
  BY <1>1, <1>2, TopAndBelow, ScriptEventsAssumption DEF CallsInv
<1>4. DataInv'
  BY <1>1 DEF DataInv, Written
<1> QED BY <1>1, <1>2, <1>3, <1>4 DEF CallsInv, BrowserInv, browserVars

(* A stack of one frame. *)
LEMMA SingleFrame ==
  ASSUME NEW f \in CallFrame, CallFrameInv(f, 1), stack' = <<f>>, world' = world
  PROVE  StackInv' /\ Len(stack') = 1
<1>1. stack' \in Seq(CallFrame) /\ Len(stack') = 1 /\ DOMAIN stack' = 1..1 /\ stack'[1] = f
  OBVIOUS
<1>2. Linked'
  BY <1>1 DEF Linked
<1>3. \A i \in DOMAIN stack' : CallFrameInv(stack[i], i)'
  BY <1>1 DEF CallFrameInv
<1> QED BY <1>1, <1>2, <1>3 DEF StackInv

LEMMA RemoveFirstInSeq ==
  ASSUME NEW S, NEW s \in Seq(S), NEW e
  PROVE  RemoveFirst(s, e) \in Seq(S)
<1> DEFINE I == {i \in 1..Len(s) : s[i] = e}
           m == CHOOSE x \in I : \A y \in I : x <= y
<1>1. CASE I = {}
  BY <1>1 DEF RemoveFirst
<1>2. CASE I # {}
  <2>1. Len(s) \in Nat
    BY LenProperties
  <2>2. m \in 1..Len(s)
    <3>1. I \subseteq Nat /\ I \subseteq 1..Len(s)
      BY <2>1
    <3> HIDE DEF I
    <3>2. m \in I
      BY <3>1, <1>2, LeastElement
    <3> QED BY <3>1, <3>2
  <2>3. RemoveFirst(s, e) = RemoveAt(s, m)
    <3>1. SelectInSeq(s, LAMBDA v : v = e) = m
      BY <1>2 DEF SelectInSeq, Min
    <3>2. \E i \in 1..Len(s) : s[i] = e
      BY <1>2
    <3> QED BY <3>1, <3>2 DEF RemoveFirst
  <2> HIDE DEF m
  <2> QED BY <2>2, <2>3, RemoveAtProperties
<1> QED BY <1>1, <1>2

LEMMA DirectEndKeeps == CallsInv /\ DirectEnd => CallsInv'
<1> SUFFICES ASSUME CallsInv, DirectEnd PROVE CallsInv'
  OBVIOUS
<1> DEFINE s == TopCall.node
<1>1. /\ stack # <<>> /\ TopCall.op = "direct" /\ StackInv /\ world \in Worlds /\ DataInv /\ BrowserInv
      /\ ForgetOutput(s) /\ fault' \in Faults
      /\ UNCHANGED <<world, routes, modified, stage, engine, updates>>
  BY DEF DirectEnd, CallRuns, CallsInv, Faults
<1>2. /\ TopCall \in CallFrame /\ CallFrameInv(TopCall, Len(stack)) /\ Len(stack) \in Nat \ {0}
      /\ Below \in Seq(CallFrame) /\ Len(Below) = Len(stack) - 1
  BY <1>1, TopAndBelow
<1>3. s \in Scripts
  BY <1>1, <1>2 DEF CallFrame, EmitFrame, DirectFrame, UpdateFrame
<1>4. directOutput' = [directOutput EXCEPT ![s] = {}]
  BY <1>1 DEF ForgetOutput
<1>5. directOutput' \in [Scripts -> SUBSET Listeners] /\ Written'
  BY <1>1, <1>3, <1>4 DEF DataInv, Written
<1>6. \/ /\ TopCall.then = "event" /\ received' = [received EXCEPT ![s] = TRUE]
         /\ stack' = Below /\ UNCHANGED <<pending, scripts>>
      \/ /\ TopCall.then = "initialize" /\ SendModified(s, Below) /\ UNCHANGED <<received, scripts>>
      \/ /\ TopCall.then = "shutdown" /\ scripts' = RemoveFirst(scripts, s)
         /\ stack' = Below /\ UNCHANGED <<received, pending>>
  BY DEF DirectEnd
<1> HIDE DEF s
<1>7. CASE stack' = Below /\ UNCHANGED pending /\ received' \in [Scripts -> BOOLEAN]
           /\ scripts' \in Seq(Scripts)
  <2>1. StackInv' /\ Len(stack') = Len(stack) - 1
    BY <1>1, <1>7, ReturnStep
  <2>2. Len(stack') <= MaxDepth + 1
    BY <1>2, <2>1, ScriptEventsAssumption DEF CallsInv
  <2>3. DataInv'
    BY <1>1, <1>5, <1>7 DEF DataInv
  <2>4. BrowserInv'
    BY <1>1, <1>7 DEF BrowserInv
  <2> QED BY <1>1, <2>1, <2>2, <2>3, <2>4 DEF CallsInv
<1>8. CASE TopCall.then = "initialize" /\ SendModified(s, Below) /\ UNCHANGED <<received, scripts>>
  <2>1. CASE modified[s]
    <3>1. stack' = Append(Below, Emitting(s)) /\ pending' = [pending EXCEPT ![s] = FALSE]
      BY <1>8, <2>1 DEF SendModified
    <3>2. Len(stack) = 1
      BY <1>1, <1>2, <1>8 DEF CallFrameInv
    <3>3. Below = <<>>
      BY <1>2, <3>2, EmptySeq
    <3>4. /\ Emitting(s) \in EmitFrame /\ Emitting(s).op = "emit" /\ Emitting(s).node = s
          /\ \A l \in Emitting(s).todo : <<s, l>> \in world.routes
      BY <1>1, <1>3, EmittingFrame, NodesAreCalls
    <3>5. Emitting(s) \in CallFrame /\ CallFrameInv(Emitting(s), 1)
      BY <3>4 DEF CallFrame, CallFrameInv
    <3>6. stack' = <<Emitting(s)>>
      BY <3>1, <3>3
    <3>7. StackInv' /\ Len(stack') = 1
      BY <1>1, <3>5, <3>6, SingleFrame
    <3>8. DataInv'
      BY <1>1, <1>3, <1>5, <1>8, <3>1 DEF DataInv
    <3>9. Len(stack') <= MaxDepth + 1 /\ BrowserInv'
      BY <3>7, <1>1, <1>8, ScriptEventsAssumption DEF BrowserInv
    <3> QED BY <1>1, <3>7, <3>8, <3>9 DEF CallsInv
  <2>2. CASE ~modified[s]
    <3>1. stack' = Below /\ UNCHANGED pending
      BY <1>8, <2>2 DEF SendModified
    <3> QED BY <1>1, <1>7, <1>8, <3>1 DEF DataInv, BrowserInv
  <2> QED BY <2>1, <2>2
<1>9. CASE TopCall.then = "event"
  BY <1>1, <1>3, <1>6, <1>7, <1>9 DEF DataInv, BrowserInv
<1>10. CASE TopCall.then = "shutdown"
  BY <1>1, <1>6, <1>7, <1>10, RemoveFirstInSeq DEF DataInv, BrowserInv
<1> QED BY <1>6, <1>8, <1>9, <1>10

(* A frame of browser::update is alone on the stack when it goes on. *)
LEMMA UpdateAlone ==
  ASSUME StackInv, stack # <<>>, TopCall.op = "update"
  PROVE  Len(stack) = 1 /\ stack = <<TopCall>> /\ TopCall \in UpdateFrame
<1>1. /\ Len(stack) \in Nat \ {0} /\ CallFrameInv(TopCall, Len(stack)) /\ TopCall \in CallFrame
      /\ TopCall = stack[Len(stack)]
  BY TopAndBelow
<1>2. Len(stack) = 1
  BY <1>1 DEF CallFrameInv
<1>3. TopCall \in UpdateFrame
  BY <1>1 DEF CallFrame, EmitFrame, DirectFrame, UpdateFrame
<1>4. stack \in Seq(CallFrame)
  BY DEF StackInv
<1> QED BY <1>1, <1>2, <1>3, <1>4

(* The Script that browser::update has come to. *)
LEMMA UpdatedScript ==
  ASSUME StackInv, BrowserInv, stack # <<>>, TopCall.op = "update", TopCall.next <= Len(scripts)
  PROVE  TopCall.next \in Nat \ {0} /\ scripts[TopCall.next] \in Scripts
<1>1. TopCall.next \in Nat \ {0}
  BY UpdateAlone DEF UpdateFrame
<1>2. scripts \in Seq(Scripts) /\ Len(scripts) \in Nat
  BY LenProperties DEF BrowserInv
<1>3. TopCall.next \in 1..Len(scripts)
  BY <1>1, <1>2
<1> QED BY <1>1, <1>2, <1>3, ElementOfSeq

LEMMA EventsProcessedKeeps == CallsInv /\ EventsProcessed => CallsInv'
<1> SUFFICES ASSUME CallsInv, EventsProcessed PROVE CallsInv'
  OBVIOUS
<1> DEFINE s == scripts[TopCall.next]
<1>1. /\ stack # <<>> /\ TopCall.op = "update" /\ TopCall.next <= Len(scripts)
      /\ StackInv /\ world \in Worlds /\ DataInv /\ BrowserInv
      /\ received' = [received EXCEPT ![s] = FALSE]
      /\ UNCHANGED <<world, stack, browserVars>>
  BY DEF EventsProcessed, CallRuns, CallsInv
<1>2. PICK out \in (IF s \in LateWriters THEN MayWrite(s) ELSE {{}}) : Code(s, out)
  BY DEF EventsProcessed
<1>3. s \in Scripts
  BY <1>1, UpdatedScript
<1>4. {} \in MayWrite(s)
  BY DEF MayWrite
<1>5. out \in MayWrite(s)
  BY <1>2, <1>4
<1>6. received' \in [Scripts -> BOOLEAN]
  BY <1>1 DEF DataInv
<1> HIDE DEF s
<1>7. DataInv' /\ fault' \in {NoFault, "deadlock"}
  BY <1>1, <1>2, <1>3, <1>5, <1>6, CodeStep
<1>8. StackInv'
  BY <1>1 DEF StackInv, CallFrameInv, Linked
<1>9. fault' \in Faults
  BY <1>7 DEF Faults
<1> QED BY <1>1, <1>7, <1>8, <1>9 DEF CallsInv, BrowserInv, browserVars

LEMMA UpdateScriptKeeps == CallsInv /\ UpdateScript => CallsInv'
<1> SUFFICES ASSUME CallsInv, UpdateScript PROVE CallsInv'
  OBVIOUS
<1> DEFINE s == scripts[TopCall.next]
           c == Updating(TopCall.next + 1)
<1>1. /\ stack # <<>> /\ TopCall.op = "update" /\ TopCall.next <= Len(scripts)
      /\ StackInv /\ world \in Worlds /\ DataInv /\ BrowserInv /\ Len(stack) <= MaxDepth
      /\ SendModified(s, Append(Below, c))
      /\ UNCHANGED <<world, routes, received, modified, directOutput, browserVars, fault>>
  BY DEF UpdateScript, CallRuns, CallsInv
<1>2. s \in Scripts /\ TopCall.next \in Nat \ {0}
  BY <1>1, UpdatedScript
<1>3. Len(stack) = 1
  BY <1>1, UpdateAlone
<1>4. Advanced(c)
  BY <1>1, <1>2, <1>3 DEF Advanced, Updating, CallFrame, UpdateFrame, CallFrameInv
<1> HIDE DEF s, c
<1>5. BrowserInv' /\ world' \in Worlds /\ fault' \in Faults
  BY <1>1 DEF BrowserInv, browserVars, CallsInv
<1>6. CASE modified[s]
  <2>1. stack' = Called(c, Emitting(s)) /\ pending' = [pending EXCEPT ![s] = FALSE]
    BY <1>1, <1>6 DEF SendModified, Called
  <2>2. /\ Emitting(s) \in EmitFrame /\ Emitting(s).op = "emit" /\ Emitting(s).node = s
        /\ \A l \in Emitting(s).todo : <<s, l>> \in world.routes
    BY <1>1, <1>2, EmittingFrame, NodesAreCalls
  <2>3. StackInv' /\ Len(stack') = Len(stack) + 1
    BY <1>1, <1>4, <2>1, <2>2, CallStep
  <2>4. Len(stack') <= MaxDepth + 1
    BY <1>1, <1>3, <2>3, ScriptEventsAssumption
  <2>5. DataInv'
    BY <1>1, <2>1 DEF DataInv, Written
  <2> QED BY <1>5, <2>3, <2>4, <2>5 DEF CallsInv
<1>7. CASE ~modified[s]
  <2>1. stack' = Append(Below, c) /\ UNCHANGED pending
    BY <1>1, <1>7 DEF SendModified
  <2>2. StackInv' /\ Len(stack') = Len(stack)
    BY <1>1, <1>4, <2>1, AdvanceStep
  <2>3. Len(stack') <= MaxDepth + 1
    BY <1>3, <2>2, ScriptEventsAssumption
  <2>4. DataInv'
    BY <1>1, <2>1 DEF DataInv, Written
  <2> QED BY <1>5, <2>2, <2>3, <2>4 DEF CallsInv
<1> QED BY <1>6, <1>7

LEMMA UpdateEndKeeps == CallsInv /\ UpdateEnd => CallsInv'
<1> SUFFICES ASSUME CallsInv, UpdateEnd PROVE CallsInv'
  OBVIOUS
<1>1. /\ stack # <<>> /\ StackInv /\ stack' = Below /\ Len(stack) <= MaxDepth
      /\ UNCHANGED <<world, routes, nodeVars, browserVars, fault>>
  BY DEF UpdateEnd, CallRuns, CallsInv
<1>2. StackInv' /\ Len(stack') = Len(stack) - 1
  BY <1>1, ReturnStep
<1>3. Len(stack') <= MaxDepth + 1
  BY <1>1, <1>2, TopAndBelow, ScriptEventsAssumption
<1> QED BY <1>1, <1>2, <1>3 DEF CallsInv, BrowserInv, DataInv, Written, browserVars, nodeVars

LEMMA UnchangedStack ==
  ASSUME StackInv, UNCHANGED <<world, stack>>
  PROVE  StackInv' /\ Len(stack') = Len(stack)
BY DEF StackInv, CallFrameInv, Linked

LEMMA OverflowKeeps == CallsInv /\ Overflow => CallsInv'
BY UnchangedStack DEF Overflow, CallsInv, BrowserInv, DataInv, Written, browserVars, nodeVars, Faults

(* What the browser calls when the thread is idle. *)
LEMMA InitializeKeeps == CallsInv /\ Initialize => CallsInv'
<1> SUFFICES ASSUME CallsInv, Initialize PROVE CallsInv'
  OBVIOUS
<1> DEFINE s == Order[Len(scripts) + 1]
<1>1. /\ Len(scripts) < Len(Order)
      /\ scripts' = Append(scripts, s)
      /\ engine' = engine \cup {s}
      /\ received' = [received EXCEPT ![s] = FALSE]
      /\ stack' = <<Directing(s, "initialize")>>
      /\ UNCHANGED <<world, stage, updates>>
      /\ world \in Worlds /\ DataInv /\ BrowserInv
  BY DEF Initialize, CallsInv
<1>2. PICK out \in MayWrite(s) : Code(s, out)
  BY DEF Initialize
<1>3. s \in Scripts
  <2>1. Order \in Seq(Scripts) /\ scripts \in Seq(Scripts)
    BY <1>1, ScriptEventsAssumption DEF BrowserInv
  <2>2. Len(scripts) + 1 \in 1..Len(Order)
    BY <1>1, <2>1, LenProperties
  <2> QED BY <2>1, <2>2, ElementOfSeq
<1> HIDE DEF s
<1>4. DataInv' /\ fault' \in {NoFault, "deadlock"}
  <2>1. received' \in [Scripts -> BOOLEAN]
    BY <1>1 DEF DataInv
  <2> QED BY <1>1, <1>2, <1>3, <2>1, CodeStep
<1>5. BrowserInv'
  BY <1>1, <1>3, AppendProperties DEF BrowserInv
<1>6. StackInv' /\ Len(stack') = 1
  <2>1. Directing(s, "initialize") \in CallFrame /\ CallFrameInv(Directing(s, "initialize"), 1)
    BY <1>3, DirectingFrame DEF CallFrame, CallFrameInv
  <2> QED BY <1>1, <2>1, SingleFrame
<1>7. Len(stack') <= MaxDepth + 1
  BY <1>6, ScriptEventsAssumption
<1>8. fault' \in Faults
  BY <1>4 DEF Faults
<1> QED BY <1>1, <1>4, <1>5, <1>6, <1>7, <1>8 DEF CallsInv

LEMMA ShutdownKeeps == CallsInv /\ Shutdown => CallsInv'
<1> SUFFICES ASSUME CallsInv, Shutdown PROVE CallsInv'
  OBVIOUS
<1> DEFINE s == scripts[1]
<1>1. /\ scripts # <<>> /\ stage' = "down"
      /\ stack' = <<Directing(s, "shutdown")>>
      /\ UNCHANGED <<world, scripts, engine, received, updates>>
      /\ world \in Worlds /\ DataInv /\ BrowserInv
  BY DEF Shutdown, CallsInv
<1>2. PICK out \in MayWrite(s) : Code(s, out)
  BY DEF Shutdown
<1>3. s \in Scripts
  <2>1. scripts \in Seq(Scripts) /\ Len(scripts) \in Nat \ {0}
    BY <1>1, LenProperties, EmptySeq DEF BrowserInv
  <2>2. 1 \in 1..Len(scripts)
    BY <2>1
  <2> QED BY <2>1, <2>2, ElementOfSeq
<1> HIDE DEF s
<1>4. DataInv' /\ fault' \in {NoFault, "deadlock"}
  <2>1. received' \in [Scripts -> BOOLEAN]
    BY <1>1 DEF DataInv
  <2> QED BY <1>1, <1>2, <1>3, <2>1, CodeStep
<1>5. BrowserInv'
  BY <1>1 DEF BrowserInv
<1>6. StackInv' /\ Len(stack') = 1
  <2>1. Directing(s, "shutdown") \in CallFrame /\ CallFrameInv(Directing(s, "shutdown"), 1)
    BY <1>3, DirectingFrame DEF CallFrame, CallFrameInv
  <2> QED BY <1>1, <2>1, SingleFrame
<1>7. Len(stack') <= MaxDepth + 1
  BY <1>6, ScriptEventsAssumption
<1>8. fault' \in Faults
  BY <1>4 DEF Faults
<1> QED BY <1>1, <1>4, <1>5, <1>6, <1>7, <1>8 DEF CallsInv

LEMMA LoadedKeeps == CallsInv /\ Loaded => CallsInv'
BY UnchangedStack DEF Loaded, CallsInv, BrowserInv, DataInv, Written, nodeVars

LEMMA SensitiveEventKeeps == CallsInv /\ SensitiveEvent => CallsInv'
<1> SUFFICES ASSUME CallsInv, SensitiveEvent PROVE CallsInv'
  OBVIOUS
<1>1. /\ stack' = <<Emitting(Sensor)>> /\ world \in Worlds /\ DataInv
      /\ UNCHANGED <<world, routes, nodeVars, browserVars, fault>>
  BY DEF SensitiveEvent, CallsInv
<1>2. Emitting(Sensor) \in CallFrame /\ CallFrameInv(Emitting(Sensor), 1)
  BY <1>1, EmittingFrame, NodesAreCalls DEF CallFrame, CallFrameInv
<1>3. StackInv' /\ Len(stack') = 1
  BY <1>1, <1>2, SingleFrame
<1>4. Len(stack') <= MaxDepth + 1
  BY <1>3, ScriptEventsAssumption
<1> QED BY <1>1, <1>3, <1>4 DEF CallsInv, BrowserInv, DataInv, Written, browserVars, nodeVars

LEMMA UpdateKeeps == CallsInv /\ Update => CallsInv'
<1> SUFFICES ASSUME CallsInv, Update PROVE CallsInv'
  OBVIOUS
<1> DEFINE e == Emitting(Sensor)
           u == Updating(1)
<1>1. /\ updates < MaxUpdates /\ updates' = updates + 1
      /\ stack' \in {<<u>>, <<u, e>>} /\ world \in Worlds /\ DataInv
      /\ UNCHANGED <<world, routes, stage, scripts, engine, nodeVars, fault>>
  BY DEF Update, CallsInv
<1>2. e \in CallFrame /\ CallFrameInv(e, 2) /\ e.op = "emit"
  BY <1>1, EmittingFrame, NodesAreCalls DEF CallFrame, CallFrameInv
<1>3. u \in CallFrame /\ CallFrameInv(u, 1) /\ u.op = "update"
  BY DEF Updating, CallFrame, UpdateFrame, CallFrameInv
<1> HIDE DEF e, u
<1>4. CASE stack' = <<u>>
  <2>1. StackInv' /\ Len(stack') = 1
    BY <1>1, <1>3, <1>4, SingleFrame
  <2> QED BY <2>1, <1>1, ScriptEventsAssumption DEF CallsInv, BrowserInv, DataInv, Written, nodeVars
<1>5. CASE stack' = <<u, e>>
  <2>1. /\ stack' \in Seq(CallFrame) /\ Len(stack') = 2 /\ DOMAIN stack' = 1..2
        /\ stack'[1] = u /\ stack'[2] = e
    BY <1>2, <1>3, <1>5
  <2>2. \A i \in 1..2 : i = 1 \/ i = 2
    OBVIOUS
  <2>3. Linked'
    BY <2>1, <2>2, <1>3 DEF Linked
  <2>4. ASSUME NEW i \in 1..2 PROVE CallFrameInv(stack[i], i)'
    BY <2>1, <2>2, <1>1, <1>2, <1>3 DEF CallFrameInv
  <2>5. StackInv'
    BY <2>1, <2>3, <2>4 DEF StackInv
  <2>6. Len(stack') <= MaxDepth + 1
    BY <2>1, ScriptEventsAssumption
  <2>7. BrowserInv'
    BY <1>1, ScriptEventsAssumption DEF CallsInv, BrowserInv
  <2> QED BY <2>5, <2>6, <2>7, <1>1 DEF CallsInv, DataInv, Written, nodeVars
<1> QED BY <1>1, <1>4, <1>5

LEMMA CallsKept == CallsInv /\ [ScriptsNext]_seVars => CallsInv'
<1>1. CallsInv /\ UNCHANGED seVars => CallsInv'
  BY UnchangedStack DEF CallsInv, BrowserInv, DataInv, Written, seVars
<1> QED
  BY <1>1, EmitNextCalls, EmitEndKeeps, DirectNextCalls, ProcessStep, DirectEndKeeps, EventsProcessedKeeps,
     UpdateScriptKeeps, UpdateEndKeeps, OverflowKeeps, InitializeKeeps, LoadedKeeps,
     SensitiveEventKeeps, UpdateKeeps, ShutdownKeeps
  DEF ScriptsNext, Step

LEMMA CallsInitially == ScriptsInit => CallsInv
<1> SUFFICES ASSUME ScriptsInit PROVE CallsInv
  OBVIOUS
<1>1. stack = <<>> /\ scripts = <<>> /\ world \in Worlds
  BY DEF ScriptsInit
<1>2. StackInv /\ Len(stack) <= MaxDepth + 1
  <2>1. <<>> \in Seq(CallFrame) /\ DOMAIN <<>> = {} /\ Len(<<>>) = 0
    BY EmptySeq
  <2> QED BY <1>1, <2>1, ScriptEventsAssumption DEF StackInv, Linked
<1>3. DataInv
  BY DEF ScriptsInit, DataInv, Written
<1>4. BrowserInv
  BY EmptySeq, ScriptEventsAssumption DEF ScriptsInit, BrowserInv
<1> QED BY <1>1, <1>2, <1>3, <1>4 DEF ScriptsInit, CallsInv, Faults

(* Every variable of the Scripts and of the calls has its type, for every  *)
(* world of routes and whatever the Scripts' code does (event.h, script.h).*)
THEOREM CallsCorrect == ScriptsSpec => []CallsInv
BY CallsInitially, CallsKept, PTL DEF ScriptsSpec

THEOREM ScriptsTypes == ScriptsSpec => []ScriptsTypeOK
BY CallsCorrect, CallsTyped, PTL

-----------------------------------------------------------------------------
(* What the calls on the stack say of one another. *)

(* A call made from the top is made inside every call on the stack. *)
LEMMA InsideCalls ==
  ASSUME CallsInv, stack # <<>>, TopCall.op # "update", NEW l, <<CallOf(TopCall), l>> \in world.calls,
         NEW i \in DOMAIN stack, stack[i].op # "update"
  PROVE  <<CallOf(stack[i]), l>> \in world.calls
<1>1. /\ Len(stack) \in Nat \ {0} /\ DOMAIN stack = 1..Len(stack) /\ TopCall = stack[Len(stack)]
      /\ world \in Worlds /\ Linked
  BY TopAndBelow DEF CallsInv, StackInv
<1>2. CASE i = Len(stack)
  BY <1>1, <1>2
<1>3. CASE i # Len(stack)
  <2>1. Len(stack) \in 1..Len(stack) /\ i < Len(stack)
    BY <1>1, <1>3
  <2>2. <<CallOf(stack[i]), CallOf(TopCall)>> \in world.calls
    BY <1>1, <2>1 DEF Linked
  <2> QED BY <1>1, <2>2, WorldCalls DEF CallsClosed
<1> QED BY <1>2, <1>3

LEMMA InsideEmits ==
  ASSUME CallsInv, NEW l, NEW c, CallsBegin(l, c), NEW e \in Emitters, OnStack("emit", e)
  PROVE  <<Sending(e), l>> \in world.calls
<1>1. stack # <<>> /\ TopCall.op # "update" /\ <<CallOf(TopCall), l>> \in world.calls
  BY DEF CallsBegin, CallRuns
<1>2. PICK i \in DOMAIN stack : stack[i].op = "emit" /\ stack[i].node = e
  BY DEF OnStack
<1>3. <<CallOf(stack[i]), l>> \in world.calls
  BY <1>1, <1>2, InsideCalls
<1> QED BY <1>2, <1>3 DEF CallOf

(* A call leaves those it is made from on the stack; only a field's        *)
(* listener begins to send.                                                *)
LEMMA CallingStack ==
  ASSUME CallsInv, NEW l, NEW c, CallsBegin(l, c)
  PROVE  /\ \A op \in {"emit", "direct"}, n \in Emitters : OnStack(op, n) => OnStack(op, n)'
         /\ \A s \in Scripts : OnStack("emit", s)' => OnStack("emit", s)
         /\ l \in Scripts /\ l \in engine /\ ProcessScript(l, c) => OnStack("direct", l)'
<1>1. /\ stack # <<>> /\ Len(stack) \in Nat \ {0}
      /\ world \in Worlds /\ StackInv /\ DataInv
      /\ TopCall.op \in {"emit", "direct"} /\ UNCHANGED <<world, browserVars>>
      /\ Advanced(c) /\ <<CallOf(TopCall), l>> \in world.calls /\ Process(l, c)
  BY TopAndBelow DEF CallRuns, CallsInv, CallsBegin
<1>2. Scripts \cap Fields = {}
  BY ScriptEventsAssumption
<1>3. ASSUME l \in Fields, ProcessField(l, c)
      PROVE  \A op \in {"emit", "direct"}, n \in Emitters :
               OnStack(op, n)' <=> OnStack(op, n) \/ (op = "emit" /\ n = l)
  <2>1. l \in Emitters
    BY <1>3, NodesAreCalls
  <2>2. <<CallOf(TopCall), CallOf(Emitting(l))>> \in world.calls
    BY <1>1, <1>3, <2>1, EmittingFrame, WorldCalls DEF CallsClosed
  <2>3. stack' = Called(c, Emitting(l))
    BY <1>3 DEF ProcessField
  <2>4. \A op \in {"emit", "direct"}, n \in Emitters :
          OnStack(op, n)' <=> OnStack(op, n) \/ (Emitting(l).op = op /\ Emitting(l).node = n)
    BY <1>1, <2>1, <2>2, <2>3, EmittingFrame, CallStep
  <2> QED BY <1>1, <2>1, <2>4, EmittingFrame
<1>4. ASSUME l \in Scripts, l \in engine, ProcessScript(l, c)
      PROVE  \A op \in {"emit", "direct"}, n \in Emitters :
               OnStack(op, n)' <=> OnStack(op, n) \/ (op = "direct" /\ n = l)
  <2>1. stack' = Called(c, Directing(l, "event"))
    BY <1>4 DEF ProcessScript
  <2>2. <<CallOf(TopCall), CallOf(Directing(l, "event"))>> \in world.calls
    BY <1>1, <1>4, DirectingFrame
  <2>3. \A op \in {"emit", "direct"}, n \in Emitters :
          OnStack(op, n)' <=> OnStack(op, n) \/ (Directing(l, "event").op = op /\ Directing(l, "event").node = n)
    BY <1>1, <1>4, <2>1, <2>2, DirectingFrame, CallStep
  <2> QED BY <1>4, <2>3, DirectingFrame
<1>5. ASSUME l \notin engine, ProcessScript(l, c)
      PROVE  \A op \in {"emit", "direct"}, n \in Emitters : OnStack(op, n)' <=> OnStack(op, n)
  <2>1. stack' = Append(Below, c)
    BY <1>5 DEF ProcessScript
  <2> QED BY <1>1, <2>1, AdvanceStep
<1>6. ASSUME NEW s \in Scripts, ProcessUrl(s)
      PROVE  \A op \in {"emit", "direct"}, n \in Emitters : OnStack(op, n)' <=> OnStack(op, n)
  BY <1>6 DEF ProcessUrl, OnStack
<1> QED BY <1>1, <1>2, <1>3, <1>4, <1>5, <1>6, NodesAreCalls DEF Process

LEMMA NothingBelow ==
  ASSUME CallsInv, stack # <<>>, TopCall.op = "update"
  PROVE  \A op \in {"emit", "direct"}, n \in Emitters : ~OnStack(op, n)
<1>1. stack = <<TopCall>> /\ DOMAIN stack = 1..1
  BY UpdateAlone, TopAndBelow DEF CallsInv
<1> QED BY <1>1 DEF OnStack

(* What the end of a Script's call leaves on the stack. *)
LEMMA DirectEndStack ==
  ASSUME CallsInv, DirectEnd
  PROVE  /\ TopCall.node \in Scripts /\ stack # <<>>
         /\ \A n \in Emitters : OnStack("direct", n) => OnStack("direct", n)' \/ n = TopCall.node
         /\ \A n \in Emitters : OnStack("emit", n)' =>
              OnStack("emit", n) \/ (n = TopCall.node /\ modified[n] /\ pending' = [pending EXCEPT ![n] = FALSE])
<1>1. /\ stack # <<>> /\ TopCall.op = "direct" /\ StackInv /\ UNCHANGED <<world, modified>>
      /\ \/ TopCall.then \in {"event", "shutdown"} /\ stack' = Below
         \/ TopCall.then = "initialize" /\ SendModified(TopCall.node, Below)
  BY DEF DirectEnd, CallRuns, CallsInv
<1>2. /\ TopCall \in CallFrame /\ CallFrameInv(TopCall, Len(stack)) /\ Len(stack) \in Nat \ {0}
      /\ Below \in Seq(CallFrame) /\ Len(Below) = Len(stack) - 1 /\ DOMAIN stack = 1..Len(stack)
      /\ TopCall = stack[Len(stack)]
  BY <1>1, TopAndBelow
<1>3. TopCall.node \in Scripts
  BY <1>1, <1>2 DEF CallFrame, EmitFrame, DirectFrame, UpdateFrame
<1>4. CASE stack' = Below
  BY <1>1, <1>3, <1>4, ReturnStep
<1>5. CASE stack' # Below
  <2>1. /\ TopCall.then = "initialize" /\ modified[TopCall.node]
        /\ stack' = Append(Below, Emitting(TopCall.node))
        /\ pending' = [pending EXCEPT ![TopCall.node] = FALSE]
    BY <1>1, <1>5 DEF SendModified
  <2>2. Len(stack) = 1
    BY <1>1, <1>2, <2>1 DEF CallFrameInv
  <2>3. Below = <<>>
    BY <1>2, <2>2, EmptySeq
  <2>4. stack' = <<Emitting(TopCall.node)>>
    BY <2>1, <2>3
  <2>5. ASSUME NEW n \in Emitters, OnStack("direct", n) PROVE n = TopCall.node
    BY <1>2, <2>2, <2>5 DEF OnStack
  <2>6. ASSUME NEW n \in Emitters, OnStack("emit", n)' PROVE n = TopCall.node
    BY <2>4, <2>6 DEF OnStack, Emitting
  <2> QED BY <1>1, <1>3, <2>1, <2>5, <2>6
<1> QED BY <1>4, <1>5

(* Direct output is queued only for a call of the Script that is on the    *)
(* stack then, and forgotten when that call ends.                          *)
LEMMA OutputKept == CallsInv /\ DirectOutputIsSent /\ [ScriptsNext]_seVars => DirectOutputIsSent'
<1> SUFFICES ASSUME CallsInv, DirectOutputIsSent, [ScriptsNext]_seVars,
                    NEW t \in Scripts \ LateWriters, fault' = NoFault, ~OnStack("direct", t)'
             PROVE  directOutput'[t] = {}
  BY DEF DirectOutputIsSent
<1>1. /\ ~OnStack("direct", t) /\ fault = NoFault => directOutput[t] = {}
      /\ directOutput \in [Scripts -> SUBSET Listeners]
      /\ t \in Emitters
      /\ StackInv /\ BrowserInv
  BY NodesAreCalls DEF DirectOutputIsSent, CallsInv, DataInv
<1>2. ASSUME NEW l, NEW c, CallsBegin(l, c) PROVE directOutput'[t] = {}
  <2>1. fault = NoFault /\ Process(l, c) /\ ~OnStack("direct", t)
    BY <1>1, <1>2, CallingStack DEF CallsBegin, CallRuns
  <2>2. CASE l \in Scripts /\ l \in engine /\ ProcessScript(l, c)
    <3>1. PICK out \in MayWrite(l) : Code(l, out)
      BY <2>2 DEF ProcessScript
    <3>2. l # t
      BY <1>2, <2>2, CallingStack
    <3> QED BY <1>1, <2>1, <3>1, <3>2 DEF Code
  <2>3. CASE ~(l \in Scripts /\ l \in engine /\ ProcessScript(l, c))
    <3>1. directOutput' = directOutput
      BY <2>1, <2>3 DEF Process, ProcessField, ProcessScript, ProcessUrl, nodeVars
    <3> QED BY <1>1, <2>1, <3>1
  <2> QED BY <2>2, <2>3
<1>3. CASE EmitEnd
  <2>1. OnStack("direct", t) => OnStack("direct", t)' \/ (TopCall.op = "direct" /\ TopCall.node = t)
    BY <1>1, <1>3, ReturnStep DEF EmitEnd, CallRuns
  <2> QED BY <1>1, <1>3, <2>1 DEF EmitEnd, CallRuns
<1>4. CASE DirectEnd
  <2>1. fault = NoFault /\ directOutput' = [directOutput EXCEPT ![TopCall.node] = {}]
    BY <1>4 DEF DirectEnd, CallRuns, ForgetOutput
  <2>2. OnStack("direct", t) => t = TopCall.node
    BY <1>1, <1>4, DirectEndStack
  <2> QED BY <1>1, <2>1, <2>2
<1>5. CASE EventsProcessed
  <2> DEFINE s == scripts[TopCall.next]
  <2>1. /\ stack # <<>> /\ TopCall.op = "update" /\ fault = NoFault /\ stack' = stack
        /\ TopCall.next <= Len(scripts)
    BY <1>5 DEF EventsProcessed, CallRuns
  <2>2. PICK out \in (IF s \in LateWriters THEN MayWrite(s) ELSE {{}}) : Code(s, out)
    BY <1>5 DEF EventsProcessed
  <2>3. s \in Scripts
    BY <1>1, <2>1, UpdatedScript
  <2> HIDE DEF s
  <2>4. directOutput' = [directOutput EXCEPT ![s] = @ \cup out]
    BY <2>2 DEF Code
  <2>5. s = t => out = {}
    BY <2>2
  <2>6. directOutput[t] = {}
    BY <1>1, <2>1, NothingBelow
  <2> QED BY <1>1, <2>3, <2>4, <2>5, <2>6
<1>6. CASE UpdateScript \/ UpdateEnd
  <2>1. stack # <<>> /\ TopCall.op = "update" /\ fault = NoFault /\ directOutput' = directOutput
    BY <1>6 DEF UpdateScript, UpdateEnd, CallRuns, nodeVars
  <2> QED BY <1>1, <2>1, NothingBelow
<1>7. CASE Overflow
  BY <1>7 DEF Overflow, NoFault
<1>8. CASE Initialize \/ Shutdown
  <2>1. PICK s : /\ fault = NoFault /\ stack = <<>>
                 /\ \E then \in {"initialize", "shutdown"} : stack' = <<Directing(s, then)>>
                 /\ \E out \in MayWrite(s) : Code(s, out)
    <3>1. CASE Initialize
      <4> DEFINE s == Order[Len(scripts) + 1]
      <4>1. /\ fault = NoFault /\ stack = <<>> /\ stack' = <<Directing(s, "initialize")>>
            /\ \E out \in MayWrite(s) : Code(s, out)
        BY <3>1 DEF Initialize, ThreadIdle
      <4> QED BY <4>1
    <3>2. CASE Shutdown
      <4> DEFINE s == scripts[1]
      <4>1. /\ fault = NoFault /\ stack = <<>> /\ stack' = <<Directing(s, "shutdown")>>
            /\ \E out \in MayWrite(s) : Code(s, out)
        BY <3>2 DEF Shutdown, ThreadIdle
      <4> QED BY <4>1
    <3> QED BY <1>8, <3>1, <3>2
  <2>2. PICK out \in MayWrite(s) : Code(s, out)
    BY <2>1
  <2>3. s # t
    <3>1. OnStack("direct", s)'
      BY <2>1 DEF OnStack, Directing
    <3> QED BY <3>1
  <2>4. ~OnStack("direct", t)
    BY <2>1 DEF OnStack
  <2> QED BY <1>1, <2>1, <2>2, <2>3, <2>4 DEF Code
<1>9. CASE Loaded \/ SensitiveEvent \/ Update
  <2>1. fault = NoFault /\ stack = <<>> /\ directOutput' = directOutput
    BY <1>9 DEF Loaded, SensitiveEvent, Update, ThreadIdle, nodeVars
  <2>2. ~OnStack("direct", t)
    BY <2>1 DEF OnStack
  <2> QED BY <1>1, <2>1, <2>2
<1>10. CASE UNCHANGED seVars
  BY <1>1, <1>10 DEF seVars, OnStack
<1> QED
  BY <1>2, <1>3, <1>4, <1>5, <1>6, <1>7, <1>8, <1>9, <1>10, EmitNextCalls, DirectNextCalls
  DEF ScriptsNext, Step

(* Direct output is sent at the end of the call that queued it, whatever   *)
(* the routes are and the Scripts' code does, but for the Scripts whose    *)
(* eventsProcessed writes it (script.cpp 127-155, 296-309).                *)
THEOREM DirectOutputSent == ScriptsSpec => []DirectOutputIsSent
<1>1. ScriptsInit => DirectOutputIsSent
  BY DEF ScriptsInit, DirectOutputIsSent
<1> QED BY <1>1, OutputKept, CallsCorrect, PTL DEF ScriptsSpec

\* An eventOut that does not come back to its Script is not set while it is being sent.
SentOnce ==
  \A s \in Scripts :
    <<Sending(s), s>> \notin world.calls =>
      /\ pending[s] => modified[s]
      /\ OnStack("emit", s) => ~pending[s]

LEMMA UpdateScriptStack ==
  ASSUME CallsInv, UpdateScript
  PROVE  \A n \in Emitters : OnStack("emit", n)' =>
           n \in Scripts /\ pending' = [pending EXCEPT ![n] = FALSE]
<1> DEFINE s == scripts[TopCall.next]
           c == Updating(TopCall.next + 1)
<1>1. /\ stack # <<>> /\ TopCall.op = "update" /\ TopCall.next <= Len(scripts) /\ StackInv /\ BrowserInv
      /\ SendModified(s, Append(Below, c))
  BY DEF UpdateScript, CallRuns, CallsInv
<1>2. s \in Scripts /\ Len(stack) = 1 /\ c.op = "update"
  BY <1>1, UpdatedScript, UpdateAlone DEF Updating
<1>3. Below = <<>>
  BY <1>1, <1>2, TopAndBelow, EmptySeq
<1> HIDE DEF s, c
<1>4. CASE modified[s]
  <2>1. stack' = <<c, Emitting(s)>> /\ pending' = [pending EXCEPT ![s] = FALSE]
    BY <1>1, <1>3, <1>4 DEF SendModified
  <2>2. DOMAIN stack' = 1..2 /\ stack'[1] = c /\ stack'[2] = Emitting(s)
    BY <2>1
  <2>3. \A i \in 1..2 : i = 1 \/ i = 2
    OBVIOUS
  <2>4. ASSUME NEW n \in Emitters, OnStack("emit", n)' PROVE n = s
    BY <2>2, <2>3, <2>4, <1>2 DEF OnStack, Emitting
  <2> QED BY <1>2, <2>1, <2>4
<1>5. CASE ~modified[s]
  <2>1. stack' = <<c>>
    BY <1>1, <1>3, <1>5 DEF SendModified
  <2> QED BY <2>1, <1>2 DEF OnStack
<1> QED BY <1>4, <1>5

LEMMA SentKept == CallsInv /\ SentOnce /\ [ScriptsNext]_seVars => SentOnce'
<1> SUFFICES ASSUME CallsInv, SentOnce, [ScriptsNext]_seVars,
                    NEW t \in Scripts, <<Sending(t), t>> \notin world'.calls
             PROVE  /\ pending'[t] => modified'[t]
                    /\ OnStack("emit", t)' => ~pending'[t]
  BY DEF SentOnce
<1> DEFINE Goal == /\ pending'[t] => modified'[t]
                   /\ OnStack("emit", t)' => ~pending'[t]
<1>1. world' = world
  BY DEF ScriptsNext, Step, EmitNext, EmitEnd, DirectNext, DirectEnd, EventsProcessed, UpdateScript,
         UpdateEnd, Overflow, Initialize, Loaded, SensitiveEvent, Update, Shutdown, seVars
<1>2. /\ <<Sending(t), t>> \notin world.calls
      /\ pending[t] => modified[t]
      /\ OnStack("emit", t) => ~pending[t]
      /\ modified \in [Scripts -> BOOLEAN] /\ pending \in [Scripts -> BOOLEAN]
      /\ t \in Emitters /\ t # Sensor
      /\ StackInv /\ BrowserInv
  BY <1>1, NodesAreCalls, ScriptEventsAssumption DEF SentOnce, CallsInv, DataInv
<1>3. ASSUME NEW s, \E out \in MayWrite(s) : Code(s, out), s = t => ~OnStack("emit", t)',
             OnStack("emit", t)' => OnStack("emit", t)
      PROVE  Goal
  <2>1. PICK set \in BOOLEAN : /\ modified' = [modified EXCEPT ![s] = @ \/ set]
                               /\ pending' = [pending EXCEPT ![s] = @ \/ set]
    BY <1>3 DEF Code
  <2>2. CASE s = t
    BY <2>1, <2>2, <1>2, <1>3
  <2>3. CASE s # t
    BY <2>1, <2>3, <1>2, <1>3
  <2> QED BY <2>2, <2>3
<1>4. ASSUME UNCHANGED <<modified, pending>>, OnStack("emit", t)' => OnStack("emit", t) PROVE Goal
  BY <1>2, <1>4
<1>5. ASSUME NEW l, NEW c, CallsBegin(l, c) PROVE Goal
  <2>1. Process(l, c) /\ (OnStack("emit", t)' => OnStack("emit", t))
    BY <1>5, CallingStack DEF CallsBegin
  <2>2. CASE l \in Scripts /\ l \in engine /\ ProcessScript(l, c)
    <3>1. l = t => ~OnStack("emit", t)
      BY <1>2, <1>5, InsideEmits
    <3>2. \E out \in MayWrite(l) : Code(l, out)
      BY <2>2 DEF ProcessScript
    <3> QED BY <2>1, <3>1, <3>2, <1>3
  <2>3. CASE ~(l \in Scripts /\ l \in engine /\ ProcessScript(l, c))
    <3>1. UNCHANGED <<modified, pending>>
      BY <2>1, <2>3 DEF Process, ProcessField, ProcessScript, ProcessUrl, nodeVars
    <3> QED BY <2>1, <3>1, <1>4
  <2> QED BY <2>2, <2>3
<1>6. CASE EmitEnd
  <2>1. /\ stack # <<>> /\ TopCall.op = "emit" /\ stack' = Below /\ pending' = pending
        /\ modified' = [s \in Scripts |-> modified[s] /\ s # TopCall.node]
    BY <1>6 DEF EmitEnd, CallRuns
  <2>2. OnStack("emit", t)' => OnStack("emit", t)
    BY <1>1, <1>2, <2>1, ReturnStep
  <2>3. TopCall.node = t => OnStack("emit", t)
    <3>1. TopCall = stack[Len(stack)] /\ Len(stack) \in Nat \ {0} /\ DOMAIN stack = 1..Len(stack)
      BY <1>2, <2>1, TopAndBelow
    <3>2. Len(stack) \in DOMAIN stack
      BY <3>1
    <3> QED BY <2>1, <3>1, <3>2 DEF OnStack
  <2>4. modified'[t] <=> modified[t] /\ t # TopCall.node
    BY <2>1
  <2> QED BY <1>2, <2>1, <2>2, <2>3, <2>4
<1>7. CASE DirectEnd
  <2>1. OnStack("emit", t)' =>
          OnStack("emit", t) \/ pending' = [pending EXCEPT ![t] = FALSE]
    BY <1>2, <1>7, DirectEndStack
  <2>2. modified' = modified /\ (pending' = pending \/ pending' = [pending EXCEPT ![TopCall.node] = FALSE])
    BY <1>7 DEF DirectEnd, SendModified
  <2>3. pending'[t] => pending[t]
    BY <1>2, <2>2
  <2>4. pending' = [pending EXCEPT ![t] = FALSE] => ~pending'[t]
    BY <1>2
  <2> QED BY <1>2, <2>1, <2>2, <2>3, <2>4
<1>8. CASE EventsProcessed
  <2> DEFINE s == scripts[TopCall.next]
  <2>1. stack # <<>> /\ TopCall.op = "update" /\ stack' = stack /\ TopCall.next <= Len(scripts)
    BY <1>8 DEF EventsProcessed, CallRuns
  <2>2. \E out \in (IF s \in LateWriters THEN MayWrite(s) ELSE {{}}) : Code(s, out)
    BY <1>8 DEF EventsProcessed
  <2>3. {} \in MayWrite(s)
    BY DEF MayWrite
  <2>4. \E out \in MayWrite(s) : Code(s, out)
    BY <2>2, <2>3
  <2>5. ~OnStack("emit", t)'
    BY <1>2, <2>1, NothingBelow DEF OnStack
  <2> HIDE DEF s
  <2> QED BY <2>4, <2>5, <1>3
<1>9. CASE UpdateScript
  <2>1. OnStack("emit", t)' => pending' = [pending EXCEPT ![t] = FALSE]
    BY <1>2, <1>9, UpdateScriptStack
  <2>2. modified' = modified /\ \E s : pending' = pending \/ pending' = [pending EXCEPT ![s] = FALSE]
    BY <1>9 DEF UpdateScript, SendModified
  <2>3. pending'[t] => pending[t]
    BY <1>2, <2>2
  <2>4. pending' = [pending EXCEPT ![t] = FALSE] => ~pending'[t]
    BY <1>2
  <2> QED BY <1>2, <2>1, <2>2, <2>3, <2>4
<1>10. CASE UpdateEnd
  <2>1. stack # <<>> /\ stack' = Below /\ UNCHANGED <<modified, pending>>
    BY <1>10 DEF UpdateEnd, CallRuns, nodeVars
  <2>2. OnStack("emit", t)' => OnStack("emit", t)
    BY <1>1, <1>2, <2>1, ReturnStep
  <2> QED BY <2>1, <2>2, <1>4
<1>11. CASE Initialize \/ Shutdown
  <2>1. PICK s : /\ \E then \in {"initialize", "shutdown"} : stack' = <<Directing(s, then)>>
                 /\ \E out \in MayWrite(s) : Code(s, out)
    <3>1. CASE Initialize
      <4> DEFINE s == Order[Len(scripts) + 1]
      <4>1. /\ stack' = <<Directing(s, "initialize")>>
            /\ \E out \in MayWrite(s) : Code(s, out)
        BY <3>1 DEF Initialize
      <4> QED BY <4>1
    <3>2. CASE Shutdown
      <4> DEFINE s == scripts[1]
      <4>1. /\ stack' = <<Directing(s, "shutdown")>>
            /\ \E out \in MayWrite(s) : Code(s, out)
        BY <3>2 DEF Shutdown
      <4> QED BY <4>1
    <3> QED BY <1>11, <3>1, <3>2
  <2>2. ~OnStack("emit", t)'
    BY <2>1 DEF OnStack, Directing
  <2> QED BY <2>1, <2>2, <1>3
<1>12. CASE SensitiveEvent \/ Update
  <2>1. /\ UNCHANGED <<modified, pending>>
        /\ stack' \in {<<Emitting(Sensor)>>, <<Updating(1)>>, <<Updating(1), Emitting(Sensor)>>}
    BY <1>12 DEF SensitiveEvent, Update, nodeVars
  <2>2. ~OnStack("emit", t)'
    <3>1. CASE stack' = <<Emitting(Sensor)>> \/ stack' = <<Updating(1)>>
      BY <1>2, <3>1 DEF OnStack, Emitting, Updating
    <3>2. CASE stack' = <<Updating(1), Emitting(Sensor)>>
      <4>1. DOMAIN stack' = 1..2 /\ stack'[1] = Updating(1) /\ stack'[2] = Emitting(Sensor)
        BY <3>2
      <4>2. \A i \in 1..2 : i = 1 \/ i = 2
        OBVIOUS
      <4> QED BY <4>1, <4>2, <1>2 DEF OnStack, Emitting, Updating
    <3> QED BY <2>1, <3>1, <3>2
  <2> QED BY <2>1, <2>2, <1>4
<1>13. CASE Loaded \/ Overflow \/ UNCHANGED seVars
  BY <1>4, <1>13 DEF Loaded, Overflow, seVars, nodeVars, OnStack
<1> QED
  BY <1>5, <1>6, <1>7, <1>8, <1>9, <1>10, <1>11, <1>12, <1>13, EmitNextCalls, DirectNextCalls
  DEF ScriptsNext, Step

(* A value a Script gives an eventOut is sent, in every world: unless its  *)
(* own events come back to the Script, modified_ stays set until the value *)
(* is sent (script.cpp 775-776, 840).                                      *)
THEOREM NoValueIsLost == ScriptsSpec => []NothingIsLost
<1>1. ScriptsInit => SentOnce
  BY EmptySeq DEF ScriptsInit, SentOnce, OnStack
<1>2. SentOnce => NothingIsLost
  BY DEF SentOnce, NothingIsLost
<1> QED BY <1>1, <1>2, SentKept, CallsCorrect, PTL DEF ScriptsSpec

-----------------------------------------------------------------------------
(* Calls that do not loop. *)

(* The stack holds a frame for every call there is, and the update's. *)
FramesOfCalls == Scripts \cup {Sending(e) : e \in Emitters}
DeepStack == Cardinality(FramesOfCalls) < MaxDepth

(* In a loop-free world the calls on the stack are all different. *)
LEMMA StackFits ==
  ASSUME CallsInv, LoopFree, DeepStack
  PROVE  Len(stack) <= MaxDepth
<1> DEFINE n == Len(stack)
           f == [i \in 2..n |-> CallOf(stack[i])]
<1>1. SUFFICES ASSUME ~(n <= MaxDepth) PROVE FALSE
  OBVIOUS
<1>2. /\ stack \in Seq(CallFrame) /\ n \in Nat /\ DOMAIN stack = 1..n /\ MaxDepth \in Nat \ {0}
      /\ Linked
  BY LenProperties, ScriptEventsAssumption DEF CallsInv, StackInv
<1>3. n \in Int /\ 2 \in Int /\ n >= 2 /\ \A i \in 2..n : i \in 1..n
  BY <1>1, <1>2
<1>4. IsFiniteSet(FramesOfCalls) /\ Cardinality(FramesOfCalls) \in Nat
  <2>1. FramesOfCalls \in SUBSET (Listeners \cup {Sending(e) : e \in Emitters})
    BY DEF FramesOfCalls, Listeners
  <2> QED BY <2>1, FiniteCalls, FS_Subset, FS_CardinalityType
<1>5. IsFiniteSet(2..n) /\ Cardinality(2..n) = n - 1
  BY <1>3, FS_Interval
<1>6. Cardinality(FramesOfCalls) < Cardinality(2..n)
  BY <1>1, <1>2, <1>4, <1>5 DEF DeepStack
<1>7. ASSUME NEW i \in 2..n
      PROVE  stack[i].op # "update" /\ CallOf(stack[i]) \in FramesOfCalls
  <2>1. i \in 1..n /\ i # 1
    BY <1>2, <1>3
  <2>2. stack[i] \in CallFrame /\ CallFrameInv(stack[i], i)
    BY <1>2, <2>1, ElementOfSeq DEF CallsInv, StackInv
  <2>3. stack[i].op # "update"
    BY <2>1, <2>2 DEF CallFrameInv
  <2>4. stack[i] \in EmitFrame \cup DirectFrame
    BY <2>2, <2>3 DEF CallFrame, UpdateFrame
  <2>5. CallOf(stack[i]) \in FramesOfCalls
    BY <2>4 DEF EmitFrame, DirectFrame, CallOf, FramesOfCalls
  <2> QED BY <2>3, <2>5
<1>8. f \in [2..n -> FramesOfCalls]
  BY <1>7
<1>9. \A i \in 2..n : f[i] = CallOf(stack[i])
  OBVIOUS
<1> HIDE DEF f
<1>10. PICK x, y \in 2..n : x # y /\ f[x] = f[y]
  BY <1>4, <1>5, <1>6, <1>8, FS_PigeonHole
<1>11. ASSUME NEW i \in 2..n, NEW j \in 2..n, i < j, f[i] = f[j] PROVE FALSE
  <2>1. <<CallOf(stack[i]), CallOf(stack[j])>> \in world.calls
    BY <1>2, <1>3, <1>7, <1>11 DEF Linked
  <2>2. CallOf(stack[i]) = CallOf(stack[j])
    BY <1>9, <1>11
  <2> QED BY <2>1, <2>2 DEF LoopFree
<1>12. x < y \/ y < x
  BY <1>2, <1>10
<1> QED BY <1>10, <1>11, <1>12

(* While nothing is sent to a set_url, a step stops the thread only as     *)
(* LoopFreeIsSafe says.                                                    *)
Blocked ==
  \E r \in Changes \cap world.routes :
    OnStack("emit", r[1]) /\ \E s \in Scripts : <<Sending(r[1]), s>> \in world.calls

LEMMA CallingIsSafe ==
  ASSUME CallsInv, NoUrls, NEW l, NEW c, CallsBegin(l, c)
  PROVE  fault' = NoFault \/ (fault' = "deadlock" /\ Blocked')
<1>1. Process(l, c) /\ world' = world /\ \E e \in world.routes \cup world.writes : e[2] = l
  BY DEF CallsBegin
<1>2. l \notin Urls
  BY <1>1 DEF NoUrls
<1>3. ~ \E s \in Scripts : l = Url(s) /\ ProcessUrl(s)
  BY <1>2 DEF Urls
<1>4. CASE l \in Scripts /\ l \in engine /\ ProcessScript(l, c)
  <2>1. RouteChange
    BY <1>4 DEF ProcessScript, Code
  <2>2. CASE fault' # NoFault
    <3>1. PICK r \in Changes \cap world.routes : OnStack("emit", r[1]) /\ fault' = "deadlock"
      BY <2>1, <2>2 DEF RouteChange
    <3>2. r[1] \in Emitters
      BY ScriptEventsAssumption
    <3>3. OnStack("emit", r[1])'
      BY <3>1, <3>2, CallingStack
    <3>4. <<Sending(r[1]), l>> \in world.calls
      BY <3>1, <3>2, InsideEmits
    <3> QED BY <1>1, <1>4, <3>1, <3>3, <3>4 DEF Blocked
  <2> QED BY <2>2
<1>5. CASE ~(l \in Scripts /\ l \in engine /\ ProcessScript(l, c))
  BY <1>1, <1>3, <1>5 DEF Process, ProcessField, ProcessScript
<1> QED BY <1>4, <1>5

LEMMA NothingSentIsSafe ==
  ASSUME NEW s, \E out \in MayWrite(s) : Code(s, out), \A e \in Emitters : ~OnStack("emit", e)
  PROVE  fault' = NoFault
<1>1. RouteChange
  BY DEF Code
<1>2. \A r \in Changes : r[1] \in Emitters
  BY ScriptEventsAssumption
<1> QED BY <1>1, <1>2 DEF RouteChange

LEMMA StepIsSafe ==
  ASSUME CallsInv, DeepStack, NoUrls, ScriptsNext
  PROVE  /\ LoopFree => fault' \in {NoFault, "deadlock"}
         /\ fault' = "deadlock" => Blocked'
<1>1. ASSUME NEW l, NEW c, CallsBegin(l, c)
      PROVE  fault' = NoFault \/ (fault' = "deadlock" /\ Blocked')
  BY <1>1, CallingIsSafe
<1>2. CASE EmitEnd \/ UpdateScript \/ UpdateEnd \/ Loaded \/ SensitiveEvent \/ Update
  BY <1>2 DEF EmitEnd, UpdateScript, UpdateEnd, Loaded, SensitiveEvent, Update, CallRuns, ThreadIdle, NoFault
<1>3. CASE DirectEnd
  <2>1. /\ stack # <<>> /\ TopCall.op = "direct"
        /\ fault' = IF \E i \in 1 .. Len(stack) - 1 : stack[i].op = "direct" /\ stack[i].node = TopCall.node
                      THEN "invalid iterator" ELSE NoFault
    BY <1>3 DEF DirectEnd, CallRuns
  <2>2. /\ Len(stack) \in Nat \ {0} /\ DOMAIN stack = 1..Len(stack) /\ TopCall = stack[Len(stack)]
        /\ Linked
    BY <2>1, TopAndBelow DEF CallsInv, StackInv
  <2>3. ASSUME NEW i \in 1 .. Len(stack) - 1, stack[i].op = "direct", stack[i].node = TopCall.node, LoopFree
        PROVE  FALSE
    <3>1. i \in 1..Len(stack) /\ i < Len(stack) /\ Len(stack) \in 1..Len(stack)
      BY <2>2
    <3>2. <<CallOf(stack[i]), CallOf(TopCall)>> \in world.calls
      BY <2>2, <2>3, <3>1 DEF Linked
    <3> QED BY <2>1, <2>3, <3>2 DEF LoopFree, CallOf
  <2> QED BY <2>1, <2>3 DEF NoFault
<1>4. CASE EventsProcessed
  <2> DEFINE s == scripts[TopCall.next]
  <2>1. stack # <<>> /\ TopCall.op = "update"
    BY <1>4 DEF EventsProcessed, CallRuns
  <2>2. \E out \in (IF s \in LateWriters THEN MayWrite(s) ELSE {{}}) : Code(s, out)
    BY <1>4 DEF EventsProcessed
  <2>3. {} \in MayWrite(s)
    BY DEF MayWrite
  <2>4. \E out \in MayWrite(s) : Code(s, out)
    BY <2>2, <2>3
  <2>5. \A e \in Emitters : ~OnStack("emit", e)
    BY <2>1, NothingBelow
  <2> HIDE DEF s
  <2>6. fault' = NoFault
    BY <2>4, <2>5, NothingSentIsSafe
  <2> QED BY <2>6 DEF NoFault
<1>5. CASE Initialize \/ Shutdown
  <2>1. stack = <<>> /\ \E s : \E out \in MayWrite(s) : Code(s, out)
    BY <1>5 DEF Initialize, Shutdown, ThreadIdle
  <2>2. \A e \in Emitters : ~OnStack("emit", e)
    BY <2>1 DEF OnStack
  <2>3. fault' = NoFault
    BY <2>1, <2>2, NothingSentIsSafe
  <2> QED BY <2>3 DEF NoFault
<1>6. CASE Overflow
  <2>1. Len(stack) > MaxDepth /\ fault' = "overflow"
    BY <1>6 DEF Overflow
  <2>2. Len(stack) \in Nat /\ MaxDepth \in Nat
    BY LenProperties, ScriptEventsAssumption DEF CallsInv, StackInv
  <2> QED BY <2>1, <2>2, StackFits
<1> QED
  BY <1>1, <1>2, <1>3, <1>4, <1>5, <1>6, EmitNextCalls, DirectNextCalls
  DEF ScriptsNext, Step, NoFault

(* In a world whose calls do not loop and that sends nothing to a set_url, *)
(* whatever the Scripts' code does the thread neither overflows its stack  *)
(* nor uses an invalid iterator; only a change of the routes of an emitter *)
(* that is sending, from inside its call of a Script, blocks it.  The      *)
(* stack is assumed to hold one frame for each call (event.h 209, 252).    *)
THEOREM LoopFreeWorldsAreSafe ==
  ASSUME DeepStack
  PROVE  ScriptsSpec => []LoopFreeIsSafe
<1>1. ScriptsInit => LoopFreeIsSafe
  BY DEF ScriptsInit, LoopFreeIsSafe, NoFault
<1>2. CallsInv /\ LoopFreeIsSafe /\ [ScriptsNext]_seVars => LoopFreeIsSafe'
  <2> SUFFICES ASSUME CallsInv, LoopFreeIsSafe, [ScriptsNext]_seVars PROVE LoopFreeIsSafe'
    OBVIOUS
  <2>1. CASE ScriptsNext
    <3>1. world' = world
      BY <2>1 DEF ScriptsNext, Step, EmitNext, EmitEnd, DirectNext, DirectEnd, EventsProcessed,
         UpdateScript, UpdateEnd, Overflow, Initialize, Loaded, SensitiveEvent, Update, Shutdown
    <3>2. (NoUrls' <=> NoUrls) /\ (LoopFree' <=> LoopFree)
      BY <3>1 DEF NoUrls, LoopFree
    <3> QED BY <2>1, <3>2, StepIsSafe DEF LoopFreeIsSafe, Blocked
  <2>2. CASE UNCHANGED seVars
    BY <2>2 DEF LoopFreeIsSafe, NoUrls, LoopFree, OnStack, seVars
  <2> QED BY <2>1, <2>2
<1> QED BY <1>1, <1>2, CallsCorrect, PTL DEF ScriptsSpec
===============================================================================
