-------------------------- MODULE SceneGraph_proof --------------------------
(***************************************************************************)
(* What SceneGraph's closures compute, and the invariants of the graph of  *)
(* a scene's nodes.                                                        *)
(***************************************************************************)
EXTENDS SceneGraph, SequenceLemmas, FiniteSetTheorems

-----------------------------------------------------------------------------
(* A function applied once for each element of a finite set.               *)

\* The first values of the iteration of F from b.
IsIteration(F, b, k, h) == h[0] = b /\ \A i \in 0 .. k - 1 : h[i + 1] = F[h[i]]

LEMMA IterationExists ==
  ASSUME NEW D, NEW F \in [D -> D], NEW b \in D, NEW k \in Nat
  PROVE  \E h \in [0 .. k -> D] : IsIteration(F, b, k, h)
<1> DEFINE T == {l \in Nat : ~\E h \in [0 .. l -> D] : IsIteration(F, b, l, h)}
<1>1. SUFFICES ASSUME T # {} PROVE FALSE
  OBVIOUS
<1>2. PICK l \in T : \A m \in T : l <= m
  BY <1>1, LeastElement
<1>3. CASE l = 0
  <2>1. [i \in 0 .. 0 |-> b] \in [0 .. l -> D]
    BY <1>3
  <2>2. IsIteration(F, b, l, [i \in 0 .. 0 |-> b])
    BY <1>3 DEF IsIteration
  <2> QED BY <2>1, <2>2, <1>2
<1>4. CASE l # 0
  <2>1. l - 1 \in Nat /\ l - 1 \notin T
    BY <1>2, <1>4
  <2>2. PICK h \in [0 .. l - 1 -> D] : IsIteration(F, b, l - 1, h)
    BY <2>1
  <2> DEFINE g == [i \in 0 .. l |-> IF i = l THEN F[h[l - 1]] ELSE h[i]]
  <2>3. g \in [0 .. l -> D]
    <3>1. ASSUME NEW i \in 0 .. l PROVE g[i] \in D
      <4>1. CASE i = l
        <5>1. l - 1 \in 0 .. l - 1
          BY <2>1
        <5> QED BY <4>1, <5>1
      <4>2. CASE i # l
        <5>1. i \in 0 .. l - 1
          BY <4>2, <2>1
        <5> QED BY <4>2, <5>1
      <4> QED BY <4>1, <4>2
    <3> QED BY <3>1
  <2>4. IsIteration(F, b, l, g)
    <3>1. g[0] = b
      BY <2>1, <2>2, <1>4 DEF IsIteration
    <3>2. ASSUME NEW i \in 0 .. l - 1 PROVE g[i + 1] = F[g[i]]
      <4>1. CASE i = l - 1
        BY <4>1, <2>1
      <4>2. CASE i # l - 1
        <5>1. i \in 0 .. (l - 1) - 1 /\ i + 1 \in 0 .. l /\ i + 1 # l /\ i # l /\ i \in 0 .. l
          BY <4>2, <2>1
        <5>2. h[i + 1] = F[h[i]]
          BY <5>1, <2>2 DEF IsIteration
        <5> QED BY <5>1, <5>2
      <4> QED BY <4>1, <4>2
    <3> QED BY <3>1, <3>2 DEF IsIteration
  <2> QED BY <2>3, <2>4, <1>2
<1> QED BY <1>3, <1>4

LEMMA IterationUnique ==
  ASSUME NEW F, NEW b, NEW k \in Nat, NEW l \in Nat, NEW g, NEW h,
         IsIteration(F, b, k, g), IsIteration(F, b, l, h),
         NEW i \in Nat, i <= k, i <= l
  PROVE  g[i] = h[i]
<1> DEFINE T == {j \in 0 .. i : g[j] # h[j]}
<1>1. SUFFICES ASSUME T # {} PROVE FALSE
  OBVIOUS
<1>2. PICK j \in T : \A m \in T : j <= m
  <2>1. T \subseteq Nat
    OBVIOUS
  <2> HIDE DEF T
  <2> QED BY <1>1, <2>1, LeastElement
<1>3. j # 0
  BY <1>2 DEF IsIteration
<1>4. j - 1 \in 0 .. k - 1 /\ j - 1 \in 0 .. l - 1 /\ j - 1 \in 0 .. i /\ (j - 1) + 1 = j /\ ~(j <= j - 1)
  BY <1>2, <1>3
<1>5. g[j - 1] = h[j - 1]
  BY <1>2, <1>4
<1>6. g[(j - 1) + 1] = F[g[j - 1]] /\ h[(j - 1) + 1] = F[h[j - 1]]
  BY <1>4 DEF IsIteration
<1> QED BY <1>2, <1>4, <1>5, <1>6

\* All values of the iteration of F from b.
IsOrbit(D, F, b, h) ==
  h \in [Nat -> D] /\ h[0] = b /\ \A k \in Nat : h[k + 1] = F[h[k]]

LEMMA OrbitExists ==
  ASSUME NEW D, NEW F \in [D -> D], NEW b \in D
  PROVE  \E h : IsOrbit(D, F, b, h)
<1> DEFINE hs(k) == CHOOSE h \in [0 .. k -> D] : IsIteration(F, b, k, h)
           h == [k \in Nat |-> hs(k)[k]]
<1>1. \A k \in Nat : hs(k) \in [0 .. k -> D] /\ IsIteration(F, b, k, hs(k))
  BY IterationExists
<1> HIDE DEF hs
<1>2. h \in [Nat -> D]
  <2>1. ASSUME NEW k \in Nat PROVE hs(k)[k] \in D
    <3>1. k \in 0 .. k
      OBVIOUS
    <3> QED BY <3>1, <1>1
  <2> QED BY <2>1
<1>3. h[0] = b
  BY <1>1 DEF IsIteration
<1>4. ASSUME NEW k \in Nat PROVE h[k + 1] = F[h[k]]
  <2>1. k + 1 \in Nat /\ k \in 0 .. (k + 1) - 1 /\ k <= k + 1 /\ k <= k
    OBVIOUS
  <2>2. hs(k + 1)[k + 1] = F[hs(k + 1)[k]]
    BY <1>1, <2>1 DEF IsIteration
  <2>3. hs(k + 1)[k] = hs(k)[k]
    BY <1>1, <2>1, IterationUnique
  <2> QED BY <2>1, <2>2, <2>3
<1> QED BY <1>2, <1>3, <1>4 DEF IsOrbit

(* The fold that Closure is: F, applied from b as often as N has elements. *)
LEMMA FoldIterates ==
  ASSUME NEW N, IsFiniteSet(N), NEW D, NEW F \in [D -> D], NEW b \in D,
         NEW h, IsOrbit(D, F, b, h)
  PROVE  FoldSet(LAMBDA n, T : F[T], b, N) = h[Cardinality(N)]
<1> DEFINE some(s) == CHOOSE x \in s : TRUE
           Is(it) == it = [s \in SUBSET N |-> IF s = {} THEN b ELSE F[it[s \ {some(s)}]]]
           it == [s \in SUBSET N |-> h[Cardinality(s)]]
           iter == CHOOSE f : Is(f)
<1>0. h \in [Nat -> D] /\ h[0] = b /\ \A k \in Nat : h[k + 1] = F[h[k]]
  BY DEF IsOrbit
<1>1. \A s \in SUBSET N : IsFiniteSet(s) /\ Cardinality(s) \in Nat
  BY FS_Subset, FS_CardinalityType
<1>2. ASSUME NEW s \in SUBSET N, s # {}
      PROVE  /\ s \ {some(s)} \in SUBSET N
             /\ Cardinality(s \ {some(s)}) \in Nat
             /\ Cardinality(s) = Cardinality(s \ {some(s)}) + 1
  <2>1. some(s) \in s
    BY <1>2
  <2>2. Cardinality(s \ {some(s)}) = Cardinality(s) - 1
    BY <1>1, <2>1, FS_RemoveElement
  <2>3. s \ {some(s)} \in SUBSET N
    OBVIOUS
  <2> QED BY <2>2, <2>3, <1>1
<1> HIDE DEF some
<1>3. Is(it)
  <2>1. ASSUME NEW s \in SUBSET N
        PROVE  h[Cardinality(s)] = IF s = {} THEN b ELSE F[it[s \ {some(s)}]]
    <3>1. CASE s = {}
      BY <3>1, <1>0, FS_EmptySet
    <3>2. CASE s # {}
      <4>1. it[s \ {some(s)}] = h[Cardinality(s \ {some(s)})]
        BY <3>2, <1>2
      <4>2. h[Cardinality(s \ {some(s)}) + 1] = F[h[Cardinality(s \ {some(s)})]]
        BY <3>2, <1>0, <1>2
      <4> QED BY <3>2, <1>2, <4>1, <4>2
    <3> QED BY <3>1, <3>2
  <2> QED BY <2>1
<1> HIDE DEF it
<1>4. Is(iter)
  BY <1>3
<1> HIDE DEF iter
<1>5. ASSUME NEW s \in SUBSET N PROVE iter[s] = h[Cardinality(s)]
  <2> DEFINE Bad == {t \in SUBSET N : iter[t] # h[Cardinality(t)]}
             Sizes == {Cardinality(t) : t \in Bad}
  <2>1. SUFFICES ASSUME Bad # {} PROVE FALSE
    OBVIOUS
  <2>2. Sizes \subseteq Nat /\ Sizes # {}
    BY <2>1, <1>1
  <2>3. PICK m \in Sizes : \A l \in Sizes : m <= l
    BY <2>2, LeastElement
  <2>4. PICK t \in Bad : Cardinality(t) = m
    OBVIOUS
  <2>5. CASE t = {}
    BY <2>5, <1>0, <1>4, <2>4, FS_EmptySet
  <2>6. CASE t # {}
    <3> DEFINE u == t \ {some(t)}
    <3>1. u \in SUBSET N /\ Cardinality(u) \in Nat /\ Cardinality(t) = Cardinality(u) + 1
      BY <2>6, <2>4, <1>2
    <3>2. u \notin Bad
      <4>1. SUFFICES ASSUME u \in Bad PROVE FALSE
        OBVIOUS
      <4>2. m <= Cardinality(u)
        BY <4>1, <2>3
      <4> QED BY <4>2, <3>1, <2>4
    <3>3. iter[t] = F[iter[u]]
      BY <1>4, <2>6, <2>4
    <3>4. iter[u] = h[Cardinality(u)]
      BY <3>1, <3>2
    <3> QED BY <3>1, <3>3, <3>4, <2>4, <1>0
  <2> QED BY <2>5, <2>6
<1>6. FoldSet(LAMBDA n, T : F[T], b, N) = iter[N]
  BY DEF FoldSet, MapThenFoldSet, iter, some
<1> QED BY <1>5, <1>6

(* A set of natural numbers with 0 and the successor of each member. *)
LEMMA InductiveSet ==
  ASSUME NEW Q \in SUBSET Nat, 0 \in Q, \A k \in Q : k + 1 \in Q
  PROVE  Q = Nat
<1> DEFINE T == Nat \ Q
<1>1. SUFFICES ASSUME T # {} PROVE FALSE
  OBVIOUS
<1>2. PICK k \in T : \A m \in T : k <= m
  <2>1. T \subseteq Nat
    OBVIOUS
  <2> HIDE DEF T
  <2> QED BY <1>1, <2>1, LeastElement
<1>3. k # 0 /\ k \in Nat
  BY <1>2
<1>4. k - 1 \in Nat /\ ~(k <= k - 1) /\ (k - 1) + 1 = k
  BY <1>3
<1>5. k - 1 \in Q
  BY <1>2, <1>4
<1> QED BY <1>2, <1>4, <1>5

NodeCount == Cardinality(Nodes)

LEMMA NodesAreFinite ==
  /\ IsFiniteSet(Nodes) /\ NodeCount \in Nat
  /\ \A T \in SUBSET Nodes : IsFiniteSet(T) /\ Cardinality(T) \in Nat /\ Cardinality(T) <= NodeCount
  /\ \A U \in SUBSET Nodes : \A T \in SUBSET U :
       /\ Cardinality(T) <= Cardinality(U)
       /\ T # U => Cardinality(T) < Cardinality(U)
<1>1. IsFiniteSet(Nodes)
  BY SceneGraphAssumption
<1>2. NodeCount \in Nat
  BY <1>1, FS_CardinalityType DEF NodeCount
<1>3. ASSUME NEW T \in SUBSET Nodes
      PROVE  IsFiniteSet(T) /\ Cardinality(T) \in Nat /\ Cardinality(T) <= NodeCount
  BY <1>1, FS_Subset, FS_CardinalityType DEF NodeCount
<1>4. ASSUME NEW U \in SUBSET Nodes, NEW T \in SUBSET U
      PROVE  /\ Cardinality(T) <= Cardinality(U)
             /\ T # U => Cardinality(T) < Cardinality(U)
  <2>1. Cardinality(T) <= Cardinality(U) /\ (Cardinality(U) = Cardinality(T) => U = T)
    BY <1>3, FS_Subset
  <2>2. Cardinality(T) \in Nat /\ Cardinality(U) \in Nat
    BY <1>3
  <2> QED BY <2>1, <2>2
<1> QED BY <1>1, <1>2, <1>3, <1>4

(* The values that Closure goes through. *)
LEMMA ClosureIterates ==
  ASSUME NEW D, NEW F \in [D -> D], NEW S \in D
  PROVE  \E h : IsOrbit(D, F, S, h) /\ Closure(F, S) = h[NodeCount]
<1>1. PICK h : IsOrbit(D, F, S, h)
  BY OrbitExists
<1>2. FoldSet(LAMBDA n, T : F[T], S, Nodes) = h[Cardinality(Nodes)]
  BY <1>1, NodesAreFinite, FoldIterates
<1> QED BY <1>1, <1>2 DEF Closure, NodeCount

(* Of a function that only adds nodes, Closure is a fixed point, the least *)
(* set that has S and that the function does not lead out of.              *)
LEMMA GrowingClosure ==
  ASSUME NEW F \in [SUBSET Nodes -> SUBSET Nodes], NEW S \in SUBSET Nodes,
         \A T \in SUBSET Nodes : T \subseteq F[T]
  PROVE  /\ Closure(F, S) \in SUBSET Nodes
         /\ S \subseteq Closure(F, S)
         /\ F[Closure(F, S)] = Closure(F, S)
         /\ \A U \in SUBSET Nodes :
              (S \subseteq U /\ \A T \in SUBSET U : F[T] \subseteq U) => Closure(F, S) \subseteq U
<1>0. PICK h : IsOrbit(SUBSET Nodes, F, S, h) /\ Closure(F, S) = h[NodeCount]
  BY ClosureIterates
<1>1. h \in [Nat -> SUBSET Nodes] /\ h[0] = S /\ \A k \in Nat : h[k + 1] = F[h[k]]
  BY <1>0 DEF IsOrbit
<1>2. NodeCount \in Nat
  BY NodesAreFinite
<1>3. \A k \in Nat : h[k] \in SUBSET Nodes
  BY <1>1
<1>4. S \subseteq h[NodeCount]
  <2> DEFINE Q == {k \in Nat : S \subseteq h[k]}
  <2>1. 0 \in Q
    BY <1>1
  <2>2. \A k \in Q : k + 1 \in Q
    BY <1>1, <1>3
  <2>3. Q = Nat
    <3>1. Q \in SUBSET Nat
      OBVIOUS
    <3> HIDE DEF Q
    <3> QED BY <3>1, <2>1, <2>2, InductiveSet
  <2> QED BY <1>2, <2>3
<1>5. F[h[NodeCount]] = h[NodeCount]
  <2> DEFINE Q == {k \in Nat : F[h[k]] = h[k] \/ k <= Cardinality(h[k])}
  <2>1. 0 \in Q
    BY <1>3, NodesAreFinite
  <2>2. ASSUME NEW k \in Q PROVE k + 1 \in Q
    <3>0. k \in Nat /\ h[k] \in SUBSET Nodes /\ h[k + 1] = F[h[k]] /\ h[k + 1] \in SUBSET Nodes
      BY <1>1, <1>3
    <3>1. CASE F[h[k]] = h[k]
      BY <3>0, <3>1
    <3>2. CASE F[h[k]] # h[k]
      <4>1. h[k] \in SUBSET h[k + 1] /\ h[k] # h[k + 1]
        BY <3>0, <3>2
      <4>2. Cardinality(h[k]) < Cardinality(h[k + 1])
        BY <3>0, <4>1, NodesAreFinite
      <4>3. Cardinality(h[k]) \in Nat /\ Cardinality(h[k + 1]) \in Nat /\ k <= Cardinality(h[k])
        BY <3>0, <3>2, NodesAreFinite
      <4> QED BY <3>0, <4>2, <4>3
    <3> QED BY <3>1, <3>2
  <2>3. Q = Nat
    <3>1. Q \in SUBSET Nat
      OBVIOUS
    <3> HIDE DEF Q
    <3> QED BY <3>1, <2>1, <2>2, InductiveSet
  <2>4. CASE F[h[NodeCount]] # h[NodeCount]
    <3>1. NodeCount <= Cardinality(h[NodeCount])
      BY <1>2, <2>3, <2>4
    <3>2. h[NodeCount] = Nodes
      <4>1. h[NodeCount] \in SUBSET Nodes /\ Nodes \in SUBSET Nodes
        BY <1>2, <1>3
      <4>2. Cardinality(h[NodeCount]) \in Nat
        BY <4>1, NodesAreFinite
      <4>3. ~(Cardinality(h[NodeCount]) < Cardinality(Nodes))
        BY <4>2, <3>1, <1>2 DEF NodeCount
      <4> QED BY <4>1, <4>3, NodesAreFinite
    <3>3. Nodes \subseteq F[Nodes] /\ F[Nodes] \in SUBSET Nodes
      OBVIOUS
    <3> QED BY <3>2, <3>3
  <2> QED BY <2>4
<1>6. ASSUME NEW U \in SUBSET Nodes, S \subseteq U, \A T \in SUBSET U : F[T] \subseteq U
      PROVE  h[NodeCount] \subseteq U
  <2> DEFINE Q == {k \in Nat : h[k] \subseteq U}
  <2>1. 0 \in Q
    BY <1>1, <1>6
  <2>2. \A k \in Q : k + 1 \in Q
    BY <1>1, <1>6
  <2>3. Q = Nat
    <3>1. Q \in SUBSET Nat
      OBVIOUS
    <3> HIDE DEF Q
    <3> QED BY <3>1, <2>1, <2>2, InductiveSet
  <2> QED BY <1>2, <2>3
<1> QED BY <1>0, <1>2, <1>3, <1>4, <1>5, <1>6

(* Of a function that only removes nodes, Closure is a fixed point, with   *)
(* every part of S that the function leaves alone.                         *)
LEMMA ShrinkingClosure ==
  ASSUME NEW F \in [SUBSET Nodes -> SUBSET Nodes], NEW S \in SUBSET Nodes,
         \A T \in SUBSET Nodes : F[T] \subseteq T
  PROVE  /\ Closure(F, S) \subseteq S
         /\ F[Closure(F, S)] = Closure(F, S)
         /\ \A U \in SUBSET S :
              (\A T \in SUBSET Nodes : U \subseteq T => U \subseteq F[T]) => U \subseteq Closure(F, S)
<1>0. PICK h : IsOrbit(SUBSET Nodes, F, S, h) /\ Closure(F, S) = h[NodeCount]
  BY ClosureIterates
<1>1. h \in [Nat -> SUBSET Nodes] /\ h[0] = S /\ \A k \in Nat : h[k + 1] = F[h[k]]
  BY <1>0 DEF IsOrbit
<1>2. NodeCount \in Nat
  BY NodesAreFinite
<1>3. \A k \in Nat : h[k] \in SUBSET Nodes
  BY <1>1
<1>4. h[NodeCount] \subseteq S
  <2> DEFINE Q == {k \in Nat : h[k] \subseteq S}
  <2>1. 0 \in Q
    BY <1>1
  <2>2. \A k \in Q : k + 1 \in Q
    BY <1>1, <1>3
  <2>3. Q = Nat
    <3>1. Q \in SUBSET Nat
      OBVIOUS
    <3> HIDE DEF Q
    <3> QED BY <3>1, <2>1, <2>2, InductiveSet
  <2> QED BY <1>2, <2>3
<1>5. F[h[NodeCount]] = h[NodeCount]
  <2> DEFINE Q == {k \in Nat : F[h[k]] = h[k] \/ k + Cardinality(h[k]) <= NodeCount}
  <2>1. 0 \in Q
    BY <1>3, NodesAreFinite
  <2>2. ASSUME NEW k \in Q PROVE k + 1 \in Q
    <3>0. k \in Nat /\ h[k] \in SUBSET Nodes /\ h[k + 1] = F[h[k]] /\ h[k + 1] \in SUBSET Nodes
      BY <1>1, <1>3
    <3>1. CASE F[h[k]] = h[k]
      BY <3>0, <3>1
    <3>2. CASE F[h[k]] # h[k]
      <4>1. h[k + 1] \in SUBSET h[k] /\ h[k] # h[k + 1]
        BY <3>0, <3>2
      <4>2. Cardinality(h[k + 1]) < Cardinality(h[k])
        BY <3>0, <4>1, NodesAreFinite
      <4>3. /\ Cardinality(h[k]) \in Nat /\ Cardinality(h[k + 1]) \in Nat
            /\ k + Cardinality(h[k]) <= NodeCount
        BY <3>0, <3>2, NodesAreFinite
      <4> QED BY <3>0, <4>2, <4>3, <1>2
    <3> QED BY <3>1, <3>2
  <2>3. Q = Nat
    <3>1. Q \in SUBSET Nat
      OBVIOUS
    <3> HIDE DEF Q
    <3> QED BY <3>1, <2>1, <2>2, InductiveSet
  <2>4. CASE F[h[NodeCount]] # h[NodeCount]
    <3>1. NodeCount + Cardinality(h[NodeCount]) <= NodeCount
      BY <1>2, <2>3, <2>4
    <3>2. Cardinality(h[NodeCount]) \in Nat /\ IsFiniteSet(h[NodeCount])
      BY <1>2, <1>3, NodesAreFinite
    <3>3. h[NodeCount] = {}
      BY <3>1, <3>2, <1>2, FS_EmptySet
    <3>4. F[{}] = {}
      OBVIOUS
    <3> QED BY <3>3, <3>4
  <2> QED BY <2>4
<1>6. ASSUME NEW U \in SUBSET S, \A T \in SUBSET Nodes : U \subseteq T => U \subseteq F[T]
      PROVE  U \subseteq h[NodeCount]
  <2> DEFINE Q == {k \in Nat : U \subseteq h[k]}
  <2>1. 0 \in Q
    BY <1>1
  <2>2. \A k \in Q : k + 1 \in Q
    BY <1>1, <1>3, <1>6
  <2>3. Q = Nat
    <3>1. Q \in SUBSET Nat
      OBVIOUS
    <3> HIDE DEF Q
    <3> QED BY <3>1, <2>1, <2>2, InductiveSet
  <2> QED BY <1>2, <2>3
<1>7. Closure(F, S) = h[NodeCount]
  BY <1>0
<1>8. Closure(F, S) \subseteq S
  BY <1>4, <1>7
<1>9. F[Closure(F, S)] = Closure(F, S)
  BY <1>5, <1>7
<1>10. ASSUME NEW U \in SUBSET S, \A T \in SUBSET Nodes : U \subseteq T => U \subseteq F[T]
       PROVE  U \subseteq Closure(F, S)
  BY <1>6, <1>7, <1>10
<1> HIDE DEF NodeCount
<1> QED BY <1>8, <1>9, <1>10

-----------------------------------------------------------------------------
(* The graph. *)

FieldsOK(fs) == fs \in [Nodes -> Seq(Nodes \cup {NULL})]

LEMMA RangeElements ==
  ASSUME NEW S, NEW s \in Seq(S)
  PROVE  /\ Range(s) \subseteq S
         /\ \A x : x \in Range(s) <=> \E i \in 1 .. Len(s) : s[i] = x
<1>1. DOMAIN s = 1 .. Len(s) /\ \A i \in 1 .. Len(s) : s[i] \in S
  BY LenProperties, ElementOfSeq
<1>2. Range(s) = {s[i] : i \in 1 .. Len(s)}
  BY <1>1 DEF Range
<1>3. Range(s) \subseteq S
  BY <1>1, <1>2
<1>4. \A x : x \in Range(s) <=> \E i \in 1 .. Len(s) : s[i] = x
  BY <1>2, Zenon
<1> QED BY <1>3, <1>4

LEMMA ReferredNodes ==
  ASSUME NEW fs, FieldsOK(fs), NEW T \in SUBSET Nodes
  PROVE  /\ Referred(fs, T) \in SUBSET Nodes
         /\ \A m : m \in Referred(fs, T) <=>
                     m # NULL /\ \E n \in T : \E i \in 1 .. Len(fs[n]) : fs[n][i] = m
<1>1. ASSUME NEW n \in T
      PROVE  /\ Range(fs[n]) \subseteq Nodes \cup {NULL}
             /\ \A x : x \in Range(fs[n]) <=> \E i \in 1 .. Len(fs[n]) : fs[n][i] = x
  <2>1. fs[n] \in Seq(Nodes \cup {NULL})
    BY DEF FieldsOK
  <2> DEFINE s == fs[n]
             D == Nodes \cup {NULL}
  <2>2. s \in Seq(D)
    BY <2>1
  <2> HIDE DEF s, D
  <2>3. /\ Range(s) \subseteq D
        /\ \A x : x \in Range(s) <=> \E i \in 1 .. Len(s) : s[i] = x
    BY <2>2, RangeElements
  <2> QED BY <2>3 DEF s, D
<1>2. Referred(fs, T) \in SUBSET Nodes
  BY <1>1 DEF Referred
<1>3. ASSUME NEW m
      PROVE  m \in Referred(fs, T) <=> m # NULL /\ \E n \in T : m \in Range(fs[n])
  BY DEF Referred
<1>4. ASSUME NEW m
      PROVE  (\E n \in T : m \in Range(fs[n])) <=> \E n \in T : \E i \in 1 .. Len(fs[n]) : fs[n][i] = m
  BY <1>1, Zenon
<1> QED BY <1>2, <1>3, <1>4, Zenon

LEMMA ReferredGrows ==
  ASSUME NEW fs, NEW T, NEW U, T \subseteq U
  PROVE  Referred(fs, T) \subseteq Referred(fs, U)
BY DEF Referred

(* Reach is the least set of nodes that has S and what its nodes refer to. *)
LEMMA ReachProperties ==
  ASSUME NEW fs, FieldsOK(fs), NEW S \in SUBSET Nodes
  PROVE  /\ Reach(fs, S) \in SUBSET Nodes
         /\ S \subseteq Reach(fs, S)
         /\ Referred(fs, Reach(fs, S)) \subseteq Reach(fs, S)
         /\ \A U \in SUBSET Nodes :
              (S \subseteq U /\ Referred(fs, U) \subseteq U) => Reach(fs, S) \subseteq U
<1> DEFINE F == [T \in SUBSET Nodes |-> T \cup Referred(fs, T)]
<1>1. F \in [SUBSET Nodes -> SUBSET Nodes]
  BY ReferredNodes
<1>2. \A T \in SUBSET Nodes : F[T] = T \cup Referred(fs, T)
  OBVIOUS
<1>3. Reach(fs, S) = Closure(F, S)
  BY DEF Reach
<1> HIDE DEF F
<1>4. \A T \in SUBSET Nodes : T \subseteq F[T]
  BY <1>2
<1>5. /\ Closure(F, S) \in SUBSET Nodes
      /\ S \subseteq Closure(F, S)
      /\ F[Closure(F, S)] = Closure(F, S)
      /\ \A U \in SUBSET Nodes :
           (S \subseteq U /\ \A T \in SUBSET U : F[T] \subseteq U) => Closure(F, S) \subseteq U
  BY <1>1, <1>4, GrowingClosure
<1>6. ASSUME NEW U \in SUBSET Nodes, S \subseteq U, Referred(fs, U) \subseteq U
      PROVE  Reach(fs, S) \subseteq U
  <2>1. ASSUME NEW T \in SUBSET U PROVE F[T] \subseteq U
    BY <1>2, <1>6, ReferredGrows
  <2> QED BY <2>1, <1>3, <1>5, <1>6
<1>7. Referred(fs, Reach(fs, S)) \subseteq Reach(fs, S)
  BY <1>2, <1>3, <1>5
<1> QED BY <1>3, <1>5, <1>6, <1>7

LEMMA ReachGrows ==
  ASSUME NEW fs, FieldsOK(fs), NEW gs, FieldsOK(gs),
         NEW T \in SUBSET Nodes, NEW S \in SUBSET T,
         \A U \in SUBSET Nodes : Referred(fs, U) \subseteq Referred(gs, U)
  PROVE  Reach(fs, S) \subseteq Reach(gs, T)
<1>1. /\ Reach(gs, T) \in SUBSET Nodes /\ T \subseteq Reach(gs, T)
      /\ Referred(gs, Reach(gs, T)) \subseteq Reach(gs, T)
  BY ReachProperties
<1>2. S \subseteq Reach(gs, T) /\ Referred(fs, Reach(gs, T)) \subseteq Reach(gs, T)
  BY <1>1
<1> QED BY <1>1, <1>2, ReachProperties

(* What is reached from a node that is reached is reached. *)
LEMMA ReachTransitive ==
  ASSUME NEW fs, FieldsOK(fs), NEW S \in SUBSET Nodes, NEW T \in SUBSET Nodes,
         T \subseteq Reach(fs, S)
  PROVE  Reach(fs, T) \subseteq Reach(fs, S)
BY ReachProperties

(* A node that is reached from n, but is not n, is reached from what n     *)
(* refers to.                                                              *)
LEMMA ReachFromReferred ==
  ASSUME NEW fs, FieldsOK(fs), NEW n \in Nodes
  PROVE  Reach(fs, {n}) \subseteq {n} \cup Reach(fs, Referred(fs, {n}))
<1> DEFINE R == Reach(fs, Referred(fs, {n}))
           U == {n} \cup R
<1>1. Referred(fs, {n}) \in SUBSET Nodes
  BY ReferredNodes
<1> DEFINE N == Referred(fs, {n})
<1>a. N \in SUBSET Nodes
  BY <1>1
<1> HIDE DEF N
<1>b. /\ Reach(fs, N) \in SUBSET Nodes /\ N \subseteq Reach(fs, N)
      /\ Referred(fs, Reach(fs, N)) \subseteq Reach(fs, N)
  BY <1>a, ReachProperties
<1>2. R \in SUBSET Nodes /\ Referred(fs, {n}) \subseteq R /\ Referred(fs, R) \subseteq R
  BY <1>b DEF N
<1> HIDE DEF R
<1>3. U \in SUBSET Nodes /\ {n} \subseteq U /\ Referred(fs, U) \subseteq U
  <2>1. Referred(fs, U) = Referred(fs, {n}) \cup Referred(fs, R)
    BY DEF Referred
  <2> QED BY <1>2, <2>1
<1> HIDE DEF U
<1>4. {n} \in SUBSET Nodes
  OBVIOUS
<1>5. Reach(fs, {n}) \subseteq U
  BY <1>3, <1>4, ReachProperties
<1> QED BY <1>5 DEF U, R

LEMMA ReferredOfUnion ==
  ASSUME NEW fs, NEW S, NEW T
  PROVE  Referred(fs, S \cup T) = Referred(fs, S) \cup Referred(fs, T)
BY DEF Referred

LEMMA ReachOfUnion ==
  ASSUME NEW fs, FieldsOK(fs), NEW S \in SUBSET Nodes, NEW T \in SUBSET Nodes
  PROVE  Reach(fs, S \cup T) \subseteq Reach(fs, S) \cup Reach(fs, T)
<1> DEFINE R == Reach(fs, S)
           Q == Reach(fs, T)
           U == R \cup Q
<1>1. R \in SUBSET Nodes /\ S \subseteq R /\ Referred(fs, R) \subseteq R
  BY ReachProperties
<1>2. Q \in SUBSET Nodes /\ T \subseteq Q /\ Referred(fs, Q) \subseteq Q
  BY ReachProperties
<1> HIDE DEF R, Q
<1>3. U \in SUBSET Nodes /\ S \cup T \subseteq U /\ Referred(fs, U) \subseteq U
  BY <1>1, <1>2, ReferredOfUnion
<1> HIDE DEF U
<1>4. S \cup T \in SUBSET Nodes
  OBVIOUS
<1>5. Reach(fs, S \cup T) \subseteq U
  BY <1>3, <1>4, ReachProperties
<1> QED BY <1>5 DEF U, R, Q

\* The fields of the node g become c.
IsChange(fs, g, c, gs) ==
  /\ FieldsOK(fs)
  /\ g \in Nodes /\ c \in Seq(Nodes \cup {NULL})
  /\ gs = [fs EXCEPT ![g] = c]

LEMMA ChangedFields ==
  ASSUME NEW fs, NEW g, NEW c, NEW gs, IsChange(fs, g, c, gs)
  PROVE  /\ FieldsOK(fs) /\ FieldsOK(gs) /\ g \in Nodes
         /\ gs[g] = c /\ \A n \in Nodes \ {g} : gs[n] = fs[n]
         /\ Range(c) \ {NULL} \in SUBSET Nodes
         /\ \A T \in SUBSET Nodes :
              Referred(gs, T) \subseteq Referred(fs, T) \cup (Range(c) \ {NULL})
         /\ \A T \in SUBSET Nodes : g \notin T => Referred(gs, T) = Referred(fs, T)
<1>1. FieldsOK(gs) /\ gs[g] = c /\ \A n \in Nodes \ {g} : gs[n] = fs[n]
  BY DEF FieldsOK, IsChange
<1>2. Range(c) \subseteq Nodes \cup {NULL}
  BY RangeElements DEF IsChange
<1>a. FieldsOK(fs) /\ g \in Nodes
  BY DEF IsChange
<1>3. ASSUME NEW T \in SUBSET Nodes
      PROVE  Referred(gs, T) \subseteq Referred(fs, T) \cup (Range(c) \ {NULL})
  BY <1>1 DEF Referred
<1>4. ASSUME NEW T \in SUBSET Nodes, g \notin T
      PROVE  Referred(gs, T) = Referred(fs, T)
  BY <1>1, <1>4 DEF Referred
<1> QED BY <1>1, <1>2, <1>3, <1>4, <1>a

LEMMA ChangedReach ==
  ASSUME NEW fs, NEW g, NEW c, NEW gs, IsChange(fs, g, c, gs), NEW S \in SUBSET Nodes
  PROVE  /\ Reach(gs, S) \subseteq Reach(fs, S \cup (Range(c) \ {NULL}))
         /\ g \in Reach(fs, S) => g \in Reach(gs, S)
<1> DEFINE C == Range(c) \ {NULL}
<1>1. /\ FieldsOK(fs) /\ FieldsOK(gs) /\ g \in Nodes /\ C \in SUBSET Nodes
      /\ \A T \in SUBSET Nodes : Referred(gs, T) \subseteq Referred(fs, T) \cup C
      /\ \A T \in SUBSET Nodes : g \notin T => Referred(gs, T) = Referred(fs, T)
  BY ChangedFields
<1> HIDE DEF C
<1>2. Reach(gs, S) \subseteq Reach(fs, S \cup C)
  <2> DEFINE R == Reach(fs, S \cup C)
  <2>1. S \cup C \in SUBSET Nodes
    BY <1>1
  <2>2. R \in SUBSET Nodes /\ S \cup C \subseteq R /\ Referred(fs, R) \subseteq R
    BY <1>1, <2>1, ReachProperties
  <2> HIDE DEF R
  <2>3. Referred(gs, R) \subseteq R
    BY <1>1, <2>2
  <2>4. Reach(gs, S) \subseteq R
    BY <1>1, <2>2, <2>3, ReachProperties
  <2> QED BY <2>4 DEF R
<1>3. /\ Reach(gs, S) \in SUBSET Nodes /\ S \subseteq Reach(gs, S)
      /\ Referred(gs, Reach(gs, S)) \subseteq Reach(gs, S)
  BY <1>1, ReachProperties
<1>4. /\ Reach(fs, S) \in SUBSET Nodes /\ S \subseteq Reach(fs, S)
      /\ Referred(fs, Reach(fs, S)) \subseteq Reach(fs, S)
  BY <1>1, ReachProperties
<1>5. g \notin Reach(gs, S) => Reach(fs, S) \subseteq Reach(gs, S)
  <2>1. SUFFICES ASSUME g \notin Reach(gs, S) PROVE Reach(fs, S) \subseteq Reach(gs, S)
    OBVIOUS
  <2>2. Referred(fs, Reach(gs, S)) \subseteq Reach(gs, S)
    BY <1>1, <1>3, <2>1
  <2> QED BY <1>1, <1>3, <2>2, ReachProperties
<1> QED BY <1>2, <1>5 DEF C

(* A change of the fields of a node that is not reached changes nothing.   *)
LEMMA UnreachedChange ==
  ASSUME NEW fs, NEW g, NEW c, NEW gs, IsChange(fs, g, c, gs), NEW S \in SUBSET Nodes,
         g \notin Reach(fs, S)
  PROVE  Reach(gs, S) = Reach(fs, S)
<1>1. /\ FieldsOK(fs) /\ FieldsOK(gs)
      /\ \A T \in SUBSET Nodes : g \notin T => Referred(gs, T) = Referred(fs, T)
  BY ChangedFields
<1>2. /\ Reach(gs, S) \in SUBSET Nodes /\ S \subseteq Reach(gs, S)
      /\ Referred(gs, Reach(gs, S)) \subseteq Reach(gs, S)
  BY <1>1, ReachProperties
<1>3. /\ Reach(fs, S) \in SUBSET Nodes /\ S \subseteq Reach(fs, S)
      /\ Referred(fs, Reach(fs, S)) \subseteq Reach(fs, S)
  BY <1>1, ReachProperties
<1>4. Referred(gs, Reach(fs, S)) \subseteq Reach(fs, S)
  BY <1>1, <1>3
<1>5. Reach(gs, S) \subseteq Reach(fs, S)
  BY <1>1, <1>3, <1>4, ReachProperties
<1>6. Referred(fs, Reach(gs, S)) \subseteq Reach(gs, S)
  BY <1>1, <1>2, <1>5
<1>7. Reach(fs, S) \subseteq Reach(gs, S)
  BY <1>1, <1>2, <1>6, ReachProperties
<1> QED BY <1>5, <1>7

LEMMA RootsAreNodes ==
  ASSUME file \in Files
  PROVE  /\ Roots \in SUBSET Nodes
         /\ file.roots \in Seq(Nodes) /\ Len(file.roots) \in Nat
         /\ \A n : n \in Roots <=> \E k \in 1 .. Len(file.roots) : file.roots[k] = n
         /\ FieldsOK(file.fields) /\ file.fields \in [Nodes -> Seq(Nodes)]
<1>1. file.roots \in Seq(Nodes) /\ file.fields \in [Nodes -> Seq(Nodes)]
  BY SceneGraphAssumption
<1>2. /\ Roots \in SUBSET Nodes
      /\ \A n : n \in Roots <=> \E k \in 1 .. Len(file.roots) : file.roots[k] = n
  <2> DEFINE s == file.roots
  <2>1. s \in Seq(Nodes)
    BY <1>1
  <2> HIDE DEF s
  <2>2. /\ Range(s) \subseteq Nodes
        /\ \A n : n \in Range(s) <=> \E k \in 1 .. Len(s) : s[k] = n
    BY <2>1, RangeElements
  <2> QED BY <2>2 DEF s, Roots
<1>3. FieldsOK(file.fields)
  <2>1. ASSUME NEW n \in Nodes PROVE file.fields[n] \in Seq(Nodes \cup {NULL})
    <3>1. file.fields[n] \in Seq(Nodes)
      BY <1>1
    <3> DEFINE s == file.fields[n]
               D == Nodes \cup {NULL}
    <3>2. s \in Seq(Nodes) /\ Nodes \subseteq D
      BY <3>1
    <3> HIDE DEF s, D
    <3>3. s \in Seq(D)
      BY <3>2, SeqMonotonic
    <3> QED BY <3>3 DEF s, D
  <2> QED BY <1>1, <2>1 DEF FieldsOK
<1>4. Len(file.roots) \in Nat
  BY <1>1, LenProperties
<1> QED BY <1>1, <1>2, <1>3, <1>4

(* Every set that has the roots of the scene, and with a node what it      *)
(* refers to in the scene, has the attached nodes.                         *)
LEMMA AttachedIsLeast ==
  ASSUME NEW fs, FieldsOK(fs), file \in Files, inScene \in SUBSET Nodes
  PROVE  /\ Attached(fs) \in SUBSET Nodes
         /\ \A U \in SUBSET Nodes :
              (Roots \cap inScene \subseteq U /\ Referred(fs, U) \cap inScene \subseteq U)
                => Attached(fs) \subseteq U
<1> DEFINE F == [T \in SUBSET Nodes |-> T \cup (Referred(fs, T) \cap inScene)]
           S == Roots \cap inScene
<1>1. F \in [SUBSET Nodes -> SUBSET Nodes]
  BY ReferredNodes
<1>2. \A T \in SUBSET Nodes : F[T] = T \cup (Referred(fs, T) \cap inScene)
  OBVIOUS
<1>3. Attached(fs) = Closure(F, S) /\ S \in SUBSET Nodes
  BY RootsAreNodes DEF Attached
<1> HIDE DEF F
<1>4. \A T \in SUBSET Nodes : T \subseteq F[T]
  BY <1>2
<1> HIDE DEF S
<1>5. /\ Closure(F, S) \in SUBSET Nodes
      /\ \A U \in SUBSET Nodes :
           (S \subseteq U /\ \A T \in SUBSET U : F[T] \subseteq U) => Closure(F, S) \subseteq U
  BY <1>1, <1>3, <1>4, GrowingClosure
<1>6. ASSUME NEW U \in SUBSET Nodes, S \subseteq U, Referred(fs, U) \cap inScene \subseteq U
      PROVE  Attached(fs) \subseteq U
  <2>1. ASSUME NEW T \in SUBSET U PROVE F[T] \subseteq U
    BY <1>2, <1>6, ReferredGrows
  <2> QED BY <2>1, <1>3, <1>5, <1>6
<1> QED BY <1>3, <1>5, <1>6 DEF S

LEMMA AttachedInGraph ==
  ASSUME NEW fs, FieldsOK(fs), file \in Files, inScene \in SUBSET Nodes
  PROVE  Attached(fs) \subseteq InGraph(fs)
<1>1. /\ InGraph(fs) \in SUBSET Nodes /\ Roots \subseteq InGraph(fs)
      /\ Referred(fs, InGraph(fs)) \subseteq InGraph(fs)
  BY RootsAreNodes, ReachProperties DEF InGraph
<1> QED BY <1>1, AttachedIsLeast

(* What is freed is no root, is not held, and nothing that is left refers  *)
(* to it.                                                                  *)
LEMMA SurvivorsAreWhole ==
  ASSUME NEW fs, FieldsOK(fs), NEW hs, file \in Files, alive \in SUBSET Nodes,
         Referred(fs, alive) \subseteq alive
  PROVE  /\ Survivors(fs, hs) \subseteq alive
         /\ (Roots \cup hs) \cap alive \subseteq Survivors(fs, hs)
         /\ Referred(fs, Survivors(fs, hs)) \subseteq Survivors(fs, hs)
<1> DEFINE F == [S \in SUBSET Nodes |->
                   {n \in S : n \in Roots \cup hs \/ n \in Referred(fs, S \ {n})}]
           V == Survivors(fs, hs)
<1>1. F \in [SUBSET Nodes -> SUBSET Nodes]
  OBVIOUS
<1>2. \A S \in SUBSET Nodes : \A n :
        n \in F[S] <=> n \in S /\ (n \in Roots \cup hs \/ n \in Referred(fs, S \ {n}))
  OBVIOUS
<1>3. V = Closure(F, alive)
  BY DEF Survivors
<1> HIDE DEF F, V
<1>4. \A T \in SUBSET Nodes : F[T] \subseteq T
  BY <1>2
<1>5. /\ V \subseteq alive /\ F[V] = V
      /\ \A U \in SUBSET alive :
           (\A T \in SUBSET Nodes : U \subseteq T => U \subseteq F[T]) => U \subseteq V
  BY <1>1, <1>3, <1>4, ShrinkingClosure
<1>6. (Roots \cup hs) \cap alive \subseteq V
  <2> DEFINE U == (Roots \cup hs) \cap alive
  <2>1. U \in SUBSET alive /\ \A T \in SUBSET Nodes : U \subseteq T => U \subseteq F[T]
    BY <1>2
  <2> QED BY <2>1, <1>5
<1>7. ASSUME NEW m \in Referred(fs, V) PROVE m \in V
  <2>0. V \in SUBSET Nodes
    BY <1>5
  <2>1. PICK n \in V : m \in Referred(fs, {n})
    BY DEF Referred
  <2>2. m \in alive
    BY <1>5, ReferredGrows
  <2>3. CASE m = n
    BY <2>3
  <2>4. CASE m # n
    <3> DEFINE U == V \cup {m}
    <3>1. U \in SUBSET alive
      BY <1>5, <2>2
    <3>2. ASSUME NEW T \in SUBSET Nodes, U \subseteq T, NEW x \in U
          PROVE  x \in F[T]
      <4>1. CASE x = m
        <5>1. m \in Referred(fs, T \ {m})
          BY <2>1, <2>4, <3>2, ReferredGrows
        <5> QED BY <1>2, <3>2, <4>1, <5>1
      <4>2. CASE x \in V
        <5>1. x \in Roots \cup hs \/ x \in Referred(fs, V \ {x})
          BY <1>2, <1>5, <2>0, <4>2
        <5>2. V \ {x} \subseteq T \ {x}
          BY <3>2
        <5>3. Referred(fs, V \ {x}) \subseteq Referred(fs, T \ {x})
          BY <5>2, ReferredGrows
        <5> QED BY <1>2, <3>2, <5>1, <5>3
      <4> QED BY <4>1, <4>2
    <3>3. \A T \in SUBSET Nodes : U \subseteq T => U \subseteq F[T]
      BY <3>2
    <3>4. U \subseteq V
      BY <3>1, <3>3, <1>5
    <3> QED BY <3>4
  <2> QED BY <2>3, <2>4
<1> QED BY <1>5, <1>6, <1>7 DEF V

-----------------------------------------------------------------------------
(* The steps. *)

Frames == [node : Nodes, at : Nat]

(* The types; only initialize and shutdown have calls in progress; until   *)
(* the world is reset, its roots are alive, and what is alive refers to    *)
(* nodes that are.                                                         *)
GraphBase ==
  /\ GraphTypeOK
  /\ file \in Files
  /\ rootAt # 0
  /\ phase \notin {"initialize", "shutdown"} => Idle
  /\ phase = "loaded" => inScene = {}
  /\ phase # "reset" => Roots \subseteq alive /\ Referred(fields, alive) \subseteq alive

LEMMA TopFrame ==
  ASSUME GraphTypeOK, ~Idle
  PROVE  /\ Len(calls) \in Nat \ {0} /\ Len(calls) \in DOMAIN calls
         /\ DOMAIN calls = 1 .. Len(calls)
         /\ \A i \in 1 .. Len(calls) : calls[i] \in Frames /\ calls[i].node \in Nodes /\ calls[i].at \in Nat
         /\ Top = calls[Len(calls)] /\ Top \in Frames /\ Top.node \in Nodes /\ Top.at \in Nat
         /\ fields[Top.node] \in Seq(Nodes \cup {NULL})
         /\ DOMAIN fields[Top.node] = 1 .. Len(fields[Top.node])
         /\ Len(fields[Top.node]) \in Nat
<1>1. calls \in Seq(Frames) /\ calls # << >>
  BY DEF GraphTypeOK, Frames, Idle
<1>2. Len(calls) \in Nat \ {0} /\ DOMAIN calls = 1 .. Len(calls)
  BY <1>1, EmptySeq, LenProperties
<1>3. \A i \in 1 .. Len(calls) : calls[i] \in Frames
  BY <1>1, ElementOfSeq
<1>4. \A f \in Frames : f.node \in Nodes /\ f.at \in Nat
  BY DEF Frames
<1>5. Len(calls) \in 1 .. Len(calls)
  BY <1>2
<1>6. Top = calls[Len(calls)] /\ Top \in Frames
  BY <1>3, <1>5 DEF Top
<1>7. fields[Top.node] \in Seq(Nodes \cup {NULL})
  BY <1>4, <1>6 DEF GraphTypeOK
<1>8. DOMAIN fields[Top.node] = 1 .. Len(fields[Top.node]) /\ Len(fields[Top.node]) \in Nat
  BY <1>7, LenProperties
<1> QED BY <1>2, <1>3, <1>4, <1>5, <1>6, <1>7, <1>8

\* The innermost call is at the place k.
AtPlace(k) == [calls EXCEPT ![Len(calls)].at = k]

LEMMA AtPlaceFrames ==
  ASSUME GraphTypeOK, ~Idle, NEW k \in Nat
  PROVE  /\ AtPlace(k) \in Seq(Frames) /\ Len(AtPlace(k)) = Len(calls)
         /\ \A i \in 1 .. Len(calls) :
              AtPlace(k)[i] = IF i = Len(calls) THEN [node |-> Top.node, at |-> k] ELSE calls[i]
<1>1. calls \in Seq(Frames)
  BY DEF GraphTypeOK, Frames
<1>2. /\ Len(calls) \in 1 .. Len(calls) /\ calls[Len(calls)] = Top
      /\ Top \in Frames /\ Top.node \in Nodes
  BY TopFrame
<1> DEFINE t == [Top EXCEPT !.at = k]
<1>3. t = [node |-> Top.node, at |-> k] /\ t \in Frames
  BY <1>2 DEF Frames
<1>4. AtPlace(k) = [calls EXCEPT ![Len(calls)] = t]
  BY <1>2 DEF AtPlace
<1> HIDE DEF t
<1>5. /\ [calls EXCEPT ![Len(calls)] = t] \in Seq(Frames)
      /\ Len([calls EXCEPT ![Len(calls)] = t]) = Len(calls)
      /\ \A i \in 1 .. Len(calls) :
           [calls EXCEPT ![Len(calls)] = t][i] = IF i = Len(calls) THEN t ELSE calls[i]
  BY <1>1, <1>2, <1>3, ExceptSeq
<1> QED BY <1>3, <1>4, <1>5

(* What initialize or shutdown of n does: stops the program, nothing, or   *)
(* starts a call.                                                          *)
LEMMA EnterTypes ==
  ASSUME GraphTypeOK, NEW n \in Nodes, NEW cs \in Seq(Frames), Enter(n, cs)
  PROVE  /\ calls' \in Seq(Frames)
         /\ inScene' \subseteq Nodes
         /\ listed' = inScene' \cap Registrars
         /\ broken' \in {broken, "deadlock"}
<1>1. inScene \subseteq Nodes /\ listed = inScene \cap Registrars /\ calls \in Seq(Frames)
  BY DEF GraphTypeOK, Frames
<1>2. [node |-> n, at |-> 0] \in Frames
  BY DEF Frames
<1>3. Append(cs, [node |-> n, at |-> 0]) \in Seq(Frames)
  BY <1>2, AppendProperties
<1> QED BY <1>1, <1>3 DEF Enter

Faults == {"none", "assert", "deadlock", "freed", "left", "null", "overflow"}

\* What a step leaves to be shown of the types, when it leaves the graph alone.
LEMMA BaseWithoutEvent ==
  ASSUME GraphBase, file' = file, fields' = fields, held' \subseteq held, alive' \subseteq alive,
         calls' \in Seq(Frames), inScene' \subseteq Nodes, listed' = inScene' \cap Registrars,
         rootAt' \in Nat \ {0}, phase' \in {"loaded", "initialize", "up", "shutdown", "down", "reset"},
         flagged' \subseteq Groups, events' \in 0 .. MaxEvents, strayed' \subseteq Nodes,
         appending' \in BOOLEAN, odd' = odd, broken' \in Faults,
         phase' \notin {"initialize", "shutdown"} => calls' = << >>,
         phase' = "loaded" => inScene' = {},
         phase' # "reset" => phase # "reset",
         phase' # "reset" => Roots \subseteq alive' /\ Referred(fields, alive') \subseteq alive'
  PROVE  GraphBase'
<1>1. (phase # "reset" => Roots \subseteq alive /\ Referred(fields, alive) \subseteq alive)'
  BY DEF Roots, Referred
<1> QED BY <1>1 DEF GraphBase, GraphTypeOK, Idle, Faults, Frames

LEMMA BaseInit == GraphInit => GraphBase
<1> SUFFICES ASSUME GraphInit PROVE GraphBase
  OBVIOUS
<1>1. file \in Files /\ fields = file.fields /\ held = file.made
  BY DEF GraphInit
<1>2. FieldsOK(fields) /\ Roots \in SUBSET Nodes /\ held \in SUBSET Nodes
  BY <1>1, RootsAreNodes, SceneGraphAssumption
<1>3. /\ alive \in SUBSET Nodes /\ Roots \subseteq alive /\ Referred(fields, alive) \subseteq alive
  <2>1. alive = Reach(fields, Roots \cup held) /\ Roots \cup held \in SUBSET Nodes
    BY <1>2 DEF GraphInit
  <2> QED BY <1>2, <2>1, ReachProperties
<1>4. << >> \in Seq([node : Nodes, at : Nat])
  BY EmptySeq
<1>5. 0 \in 0 .. MaxEvents
  BY SceneGraphAssumption
<1>6. GraphTypeOK
  BY <1>2, <1>3, <1>4, <1>5 DEF GraphInit, GraphTypeOK, FieldsOK
<1>7. rootAt # 0 /\ calls = << >> /\ inScene = {}
  BY DEF GraphInit
<1> QED BY <1>1, <1>3, <1>6, <1>7 DEF GraphBase, Idle

LEMMA BaseDescend == GraphBase /\ Descend => GraphBase'
<1> SUFFICES ASSUME GraphBase, Descend PROVE GraphBase'
  OBVIOUS
<1>1. /\ GraphTypeOK /\ file \in Files /\ broken = "none"
      /\ file' = file /\ fields' = fields /\ held' = held /\ flagged' = flagged
      /\ events' = events /\ appending' = appending /\ odd' = odd
  BY DEF GraphBase, Descend, Running
<1>2. /\ calls \in Seq(Frames) /\ inScene \subseteq Nodes /\ listed = inScene \cap Registrars
      /\ rootAt \in Nat \ {0} /\ phase \in {"loaded", "initialize", "up", "shutdown", "down", "reset"}
      /\ flagged \subseteq Groups /\ events \in 0 .. MaxEvents /\ strayed \subseteq Nodes
      /\ appending \in BOOLEAN /\ alive \subseteq Nodes
      /\ << >> \in Seq(Frames)
  BY <1>1, EmptySeq DEF GraphTypeOK, GraphBase, Frames
<1>3. /\ phase \notin {"initialize", "shutdown"} => calls = << >>
      /\ phase = "loaded" => inScene = {}
      /\ phase # "reset" => Roots \subseteq alive /\ Referred(fields, alive) \subseteq alive
  BY DEF GraphBase, Idle
<1>4. CASE NextRoot /\ strayed' = strayed
  <2>1. /\ phase \in {"initialize", "shutdown"} /\ rootAt' = rootAt + 1
        /\ rootAt <= Len(file.roots) /\ phase' = phase /\ alive' = alive
    BY <1>4 DEF NextRoot
  <2> DEFINE n == file.roots[rootAt]
  <2>2. CASE RootDone(n) /\ UNCHANGED <<calls, inScene, listed>>
    <3>1. broken' \in Faults
      BY <2>2 DEF RootDone, Faults
    <3> QED BY <1>1, <1>2, <1>3, <1>4, <2>1, <2>2, <3>1, BaseWithoutEvent
  <2>3. CASE Enter(n, << >>)
    <3>1. file.roots \in Seq(Nodes) /\ Len(file.roots) \in Nat
      BY <1>1, RootsAreNodes
    <3>2. rootAt \in 1 .. Len(file.roots)
      BY <3>1, <2>1, <1>2
    <3>3. n \in Nodes
      BY <3>1, <3>2, ElementOfSeq
    <3>4. /\ calls' \in Seq(Frames) /\ inScene' \subseteq Nodes
          /\ listed' = inScene' \cap Registrars /\ broken' \in Faults
      BY <1>1, <1>2, <2>3, <3>3, EnterTypes DEF Faults
    <3> QED BY <1>1, <1>2, <1>3, <1>4, <2>1, <3>4, BaseWithoutEvent
  <2> QED BY <1>4, <2>2, <2>3 DEF NextRoot
<1>5. CASE EnterFields /\ strayed' = strayed
  <2>1. ~Idle /\ rootAt' = rootAt /\ phase' = phase /\ alive' = alive /\ broken' = broken
    BY <1>5 DEF EnterFields
  <2>2. calls' = AtPlace(1)
    BY <1>5 DEF EnterFields, AtPlace
  <2>3. calls' \in Seq(Frames)
    BY <2>1, <2>2, <1>1, AtPlaceFrames
  <2>4. inScene' \subseteq Nodes /\ listed' = inScene' \cap Registrars
    BY <1>5, <1>2 DEF EnterFields, membership
  <2>5. broken' \in Faults /\ phase \in {"initialize", "shutdown"}
    BY <2>1, <1>1, <1>3 DEF Faults, Idle
  <2> QED BY <1>1, <1>2, <1>3, <1>5, <2>1, <2>3, <2>4, <2>5, BaseWithoutEvent
<1>6. CASE NextField /\ strayed' = strayed
  <2>1. ~Idle /\ rootAt' = rootAt /\ phase' = phase /\ alive' = alive
    BY <1>6 DEF NextField
  <2>2. Top.at \in DOMAIN fields[Top.node] /\ Top.at \in Nat
    BY <1>1, <1>6, <2>1, TopFrame DEF NextField
  <2> DEFINE n == fields[Top.node][Top.at]
             next == [calls EXCEPT ![Len(calls)].at = @ + 1]
  <2>3. next = AtPlace(Top.at + 1)
    BY DEF AtPlace, Top
  <2>a. Top.at + 1 \in Nat
    BY <2>2
  <2>4. next \in Seq(Frames)
    BY <2>a, <2>1, <2>2, <2>3, <1>1, AtPlaceFrames
  <2>5. phase \in {"initialize", "shutdown"}
    BY <2>1, <1>3, <1>2 DEF Idle
  <2> HIDE DEF next
  <2>6. CASE n = NULL /\ calls' = next /\ UNCHANGED <<membership, broken>>
    <3>1. inScene' = inScene /\ listed' = listed /\ broken' \in Faults
      BY <2>6, <1>1 DEF membership, Faults
    <3> QED BY <1>1, <1>2, <1>3, <1>6, <2>1, <2>4, <2>5, <2>6, <3>1, BaseWithoutEvent
  <2>7. CASE n # NULL /\ Enter(n, next)
    <3>1. n \in Nodes
      <4>1. fields[Top.node] \in Seq(Nodes \cup {NULL}) /\ Top.at \in 1 .. Len(fields[Top.node])
        BY <1>1, <2>1, <2>2, TopFrame
      <4>2. n \in Nodes \cup {NULL}
        BY <4>1, ElementOfSeq
      <4> QED BY <4>2, <2>7
    <3>2. /\ calls' \in Seq(Frames) /\ inScene' \subseteq Nodes
          /\ listed' = inScene' \cap Registrars /\ broken' \in Faults
      BY <1>1, <1>2, <2>4, <2>7, <3>1, EnterTypes DEF Faults
    <3> QED BY <1>1, <1>2, <1>3, <1>6, <2>1, <2>5, <3>2, BaseWithoutEvent
  <2> QED BY <1>6, <2>6, <2>7 DEF NextField, next
<1>7. CASE LeaveNode /\ strayed' = strayed
  <2>1. /\ ~Idle /\ rootAt' = rootAt /\ phase' = phase /\ alive' = alive /\ broken' = broken
        /\ inScene' = inScene /\ listed' = listed /\ calls' = SubSeq(calls, 1, Len(calls) - 1)
    BY <1>7 DEF LeaveNode, membership
  <2>2. calls' = Front(calls) /\ calls # << >>
    BY <2>1 DEF Front, Idle
  <2>3. calls' \in Seq(Frames)
    BY <2>2, <1>2, FrontProperties
  <2>4. broken' \in Faults /\ phase \in {"initialize", "shutdown"}
    BY <2>1, <1>1, <1>2, <1>3 DEF Faults, Idle
  <2> QED BY <1>1, <1>2, <1>3, <1>7, <2>1, <2>3, <2>4, BaseWithoutEvent
<1>8. CASE LeaveRoot /\ strayed' = strayed
  <2>1. /\ ~Idle /\ rootAt' = rootAt /\ phase' = phase /\ alive' = alive
        /\ inScene' = inScene /\ listed' = listed /\ calls' = << >> /\ broken' \in Faults
    BY <1>8 DEF LeaveRoot, membership, RootDone, Faults
  <2> QED BY <1>1, <1>2, <1>3, <1>8, <2>1, BaseWithoutEvent
<1>9. CASE Begin /\ strayed' = strayed
  <2>1. /\ Idle /\ rootAt' = 1 /\ alive' = alive /\ calls' = calls
        /\ inScene' = inScene /\ listed' = listed /\ broken' \in Faults
        /\ phase' \in {"initialize", "shutdown"} /\ phase \in {"loaded", "up"}
    BY <1>9, <1>1 DEF Begin, membership, Faults
  <2> QED BY <1>1, <1>2, <1>3, <1>9, <2>1, BaseWithoutEvent
<1>10. CASE End
  <2>1. /\ calls = << >> /\ rootAt' = rootAt /\ alive' = alive /\ calls' = calls
        /\ inScene' = inScene /\ listed' = listed /\ broken' \in Faults
        /\ phase' \in {"up", "down"} /\ phase \in {"initialize", "shutdown"}
        /\ strayed' \subseteq Nodes
    BY <1>10, <1>1, <1>2 DEF End, membership, Faults, Idle
  <2> QED BY <1>1, <1>2, <1>3, <2>1, BaseWithoutEvent
<1>11. CASE Reset /\ strayed' = strayed
  <2>1. /\ calls = << >> /\ rootAt' = rootAt /\ alive' = {} /\ calls' = calls
        /\ inScene' = inScene /\ listed' = listed /\ broken' \in Faults
        /\ phase' = "reset"
    BY <1>11, <1>3 DEF Reset, membership, Faults
  <2> QED BY <1>1, <1>2, <1>3, <1>11, <2>1, BaseWithoutEvent
<1> QED BY <1>4, <1>5, <1>6, <1>7, <1>8, <1>9, <1>10, <1>11 DEF Descend

\* An event of the children of g: g and the children, whether the Viewpoints below them are
\* relocated without a fault, and whether it only appends.
IsEvent(g, c, ok, appends) ==
  /\ g \in Groups \cap alive
  /\ c \in Seq(Nodes \cup {NULL})
  /\ Range(c) \ {NULL} \subseteq alive
  /\ ok \in BOOLEAN /\ appends \in BOOLEAN
  /\ appends => \E n \in Known : c = Append(fields[g], n) /\ ok = Relocated(n, fields)
  /\ ~appends => \/ ok
                 \/ ok = (\A i \in 1 .. Len(c) : Relocated(c[i], [fields EXCEPT ![g] = c]))
  /\ Changed(g, c, ok, appends)

LEMMA EventShape ==
  ASSUME GraphBase, phase # "reset", ChildrenEvent
  PROVE  \E g, c, ok, appends : IsEvent(g, c, ok, appends)
<1>0. /\ fields \in [Nodes -> Seq(Nodes \cup {NULL})] /\ FieldsOK(fields)
      /\ alive \subseteq Nodes /\ Known \subseteq alive /\ MaxChildren \in Nat
      /\ Referred(fields, alive) \subseteq alive /\ NULL \notin Nodes
      /\ Groups \subseteq Nodes
  BY SceneGraphAssumption DEF GraphBase, GraphTypeOK, FieldsOK, Known
<1>1. ASSUME NEW g \in Groups \cap Known
      PROVE  /\ g \in Groups \cap alive
             /\ fields[g] \in Seq(Nodes \cup {NULL})
             /\ Range(fields[g]) \ {NULL} \subseteq alive
             /\ DOMAIN fields[g] = 1 .. Len(fields[g]) /\ Len(fields[g]) \in Nat
  <2>1. fields[g] \in Seq(Nodes \cup {NULL})
    BY <1>0
  <2>2. Range(fields[g]) \ {NULL} \subseteq Referred(fields, alive)
    BY <1>0 DEF Referred
  <2>3. DOMAIN fields[g] = 1 .. Len(fields[g]) /\ Len(fields[g]) \in Nat
    BY <2>1, LenProperties
  <2> QED BY <1>0, <2>1, <2>2, <2>3
<1>2. CASE AddChildren
  <2>1. PICK g \in Groups \cap Known, n \in Known :
          Changed(g, Append(fields[g], n), Relocated(n, fields), TRUE)
    BY <1>2 DEF AddChildren
  <2> DEFINE c == Append(fields[g], n)
             D == Nodes \cup {NULL}
  <2>2. fields[g] \in Seq(D) /\ n \in D
    BY <1>0, <1>1
  <2> HIDE DEF D
  <2>3. /\ c \in Seq(D) /\ Len(c) = Len(fields[g]) + 1
        /\ \A i \in 1 .. Len(fields[g]) : c[i] = fields[g][i]
        /\ c[Len(fields[g]) + 1] = n
    BY <2>2, AppendProperties
  <2> HIDE DEF c
  <2>4. Range(c) \subseteq Range(fields[g]) \cup {n}
    <3>1. ASSUME NEW x \in Range(c) PROVE x \in Range(fields[g]) \cup {n}
      <4>1. PICK i \in 1 .. Len(c) : c[i] = x
        BY <2>3, RangeElements
      <4>2. CASE i <= Len(fields[g])
        <5>1. i \in 1 .. Len(fields[g])
          BY <4>2
        <5> QED BY <4>1, <5>1, <2>2, <2>3, RangeElements
      <4>3. CASE ~(i <= Len(fields[g]))
        <5>1. i = Len(fields[g]) + 1
          BY <4>3, <2>3, <1>1
        <5> QED BY <5>1, <4>1, <2>3
      <4> QED BY <4>2, <4>3
    <3> QED BY <3>1
  <2>5. Range(c) \ {NULL} \subseteq alive
    BY <2>4, <1>0, <1>1
  <2>6. Relocated(n, fields) \in BOOLEAN
    BY DEF Relocated
  <2>7. IsEvent(g, c, Relocated(n, fields), TRUE)
    BY <1>1, <2>1, <2>3, <2>5, <2>6 DEF IsEvent, c, D
  <2> QED BY <2>7
<1>3. CASE RemoveChildren
  <2>1. PICK g \in Groups \cap Known :
         \E n \in Range(fields[g]) :
           LET kept == {i \in DOMAIN fields[g] : fields[g][i] # n}
               left == 1 .. Cardinality(kept)
           IN \E place \in [left -> kept] :
                Changed(g, [i \in left |-> fields[g][place[i]]], TRUE, FALSE)
    BY <1>3 DEF RemoveChildren
  <2>2. PICK n \in Range(fields[g]) :
           LET kept == {i \in DOMAIN fields[g] : fields[g][i] # n}
               left == 1 .. Cardinality(kept)
           IN \E place \in [left -> kept] :
                Changed(g, [i \in left |-> fields[g][place[i]]], TRUE, FALSE)
    BY <2>1
  <2> DEFINE kept == {i \in DOMAIN fields[g] : fields[g][i] # n}
             left == 1 .. Cardinality(kept)
  <2>3. PICK place \in [left -> kept] :
          Changed(g, [i \in left |-> fields[g][place[i]]], TRUE, FALSE)
    BY <2>2
  <2> DEFINE c == [i \in left |-> fields[g][place[i]]]
             D == Nodes \cup {NULL}
  <2>4. kept \subseteq 1 .. Len(fields[g])
    BY <1>1
  <2>5. Cardinality(kept) \in Nat
    <3>1. IsFiniteSet(1 .. Len(fields[g]))
      BY <1>1, FS_Interval
    <3> HIDE DEF kept
    <3> QED BY <3>1, <2>4, FS_Subset, FS_CardinalityType
  <2>6. \A i \in left : c[i] \in Range(fields[g])
    BY <1>1 DEF Range
  <2>7. Range(fields[g]) \subseteq D
    BY <1>1, RangeElements
  <2> DEFINE m == Cardinality(kept)
  <2>8. c \in [1 .. m -> D] /\ m \in Nat
    BY <2>5, <2>6, <2>7
  <2>9. DOMAIN c = left
    OBVIOUS
  <2> HIDE DEF c, m, kept, D
  <2>10. c \in Seq(D)
    BY <2>8, SeqDef
  <2>11. Range(c) \subseteq Range(fields[g])
    BY <2>6, <2>9 DEF Range
  <2>12. IsEvent(g, c, TRUE, FALSE)
    BY <1>1, <2>3, <2>10, <2>11 DEF IsEvent, c, D
  <2> QED BY <2>12
<1>4. CASE SetChildren
  <2>1. PICK g \in Groups \cap Known, k \in 0 .. MaxChildren :
          \E c \in [1 .. k -> Known \cup {NULL}] :
            Changed(g, c, \A i \in 1 .. k : Relocated(c[i], [fields EXCEPT ![g] = c]), FALSE)
    BY <1>4 DEF SetChildren
  <2>2. PICK c \in [1 .. k -> Known \cup {NULL}] :
            Changed(g, c, \A i \in 1 .. k : Relocated(c[i], [fields EXCEPT ![g] = c]), FALSE)
    BY <2>1
  <2> DEFINE D == Nodes \cup {NULL}
             ok == \A i \in 1 .. k : Relocated(c[i], [fields EXCEPT ![g] = c])
  <2>3. k \in Nat /\ c \in [1 .. k -> D] /\ DOMAIN c = 1 .. k
    BY <1>0
  <2> HIDE DEF D
  <2>4. c \in Seq(D)
    BY <2>3, SeqDef
  <2>5. Len(c) = k
    <3>1. Len(c) \in Nat /\ DOMAIN c = 1 .. Len(c)
      BY <2>4, LenProperties
    <3> QED BY <3>1, <2>3
  <2>6. Range(c) \ {NULL} \subseteq alive
    BY <1>0, <2>3 DEF Range
  <2>7. ok \in BOOLEAN
    OBVIOUS
  <2>8. ok = (\A i \in 1 .. Len(c) : Relocated(c[i], [fields EXCEPT ![g] = c]))
    BY <2>5
  <2>9. Changed(g, c, ok, FALSE)
    BY <2>2
  <2> HIDE DEF ok
  <2>10. IsEvent(g, c, ok, FALSE)
    BY <1>1, <2>4, <2>6, <2>7, <2>8, <2>9 DEF IsEvent, D
  <2> QED BY <2>10
<1> QED BY <1>2, <1>3, <1>4 DEF ChildrenEvent

LEMMA EventGraph ==
  ASSUME GraphBase, phase # "reset", NEW g, NEW c, NEW ok, NEW appends, IsEvent(g, c, ok, appends)
  PROVE  /\ IsChange(fields, g, c, fields') /\ FieldsOK(fields) /\ FieldsOK(fields')
         /\ alive' \subseteq alive
         /\ Roots \cup (held \cap alive) \subseteq alive' 
         /\ Referred(fields', alive') \subseteq alive'
<1>1. /\ FieldsOK(fields) /\ g \in Nodes /\ c \in Seq(Nodes \cup {NULL})
      /\ fields' = [fields EXCEPT ![g] = c]
      /\ alive' = Survivors(fields', held)
      /\ Roots \subseteq alive /\ Referred(fields, alive) \subseteq alive
      /\ alive \in SUBSET Nodes /\ file \in Files
      /\ Range(c) \ {NULL} \subseteq alive
  BY SceneGraphAssumption DEF GraphBase, GraphTypeOK, FieldsOK, IsEvent, Changed
<1>2. IsChange(fields, g, c, fields')
  BY <1>1 DEF IsChange
<1>3. /\ FieldsOK(fields')
      /\ \A T \in SUBSET Nodes :
              Referred(fields', T) \subseteq Referred(fields, T) \cup (Range(c) \ {NULL})
  BY <1>2, ChangedFields
<1>4. Referred(fields', alive) \subseteq alive
  BY <1>1, <1>3
<1> DEFINE fs == fields'
<1>5. FieldsOK(fs) /\ Referred(fs, alive) \subseteq alive
  BY <1>3, <1>4
<1> HIDE DEF fs
<1>6. /\ Survivors(fs, held) \subseteq alive
      /\ (Roots \cup held) \cap alive \subseteq Survivors(fs, held)
      /\ Referred(fs, Survivors(fs, held)) \subseteq Survivors(fs, held)
  BY <1>1, <1>5, SurvivorsAreWhole
<1>7. Survivors(fs, held) = alive'
  BY <1>1 DEF fs
<1>8. Referred(fields', alive') \subseteq alive'
  BY <1>6, <1>7 DEF fs
<1> QED BY <1>1, <1>2, <1>3, <1>6, <1>7, <1>8

LEMMA BaseEvent == GraphBase /\ ChildrenEvent => GraphBase'
<1> SUFFICES ASSUME GraphBase, ChildrenEvent PROVE GraphBase'
  OBVIOUS
<1>1. /\ events < MaxEvents /\ events' = events + 1 /\ CanSend
      /\ file' = file /\ UNCHANGED membership /\ UNCHANGED traversal
  BY DEF ChildrenEvent
<1>2. phase # "reset"
  BY <1>1 DEF CanSend, GraphBase
<1>3. PICK g, c, ok, appends : IsEvent(g, c, ok, appends)
  BY <1>2, EventShape
<1>4. /\ FieldsOK(fields) /\ FieldsOK(fields') /\ alive' \subseteq alive
      /\ Roots \subseteq alive' /\ Referred(fields', alive') \subseteq alive'
      /\ IsChange(fields, g, c, fields')
  BY <1>2, <1>3, EventGraph
<1>5. GraphTypeOK /\ file \in Files
  BY DEF GraphBase
<1>6. g \in Groups /\ Range(c) \ {NULL} \in SUBSET Nodes /\ g \in Nodes
  BY <1>3, <1>4, ChangedFields DEF IsEvent
<1>7. /\ flagged' = flagged \cup {g} /\ held' = held
      /\ appending' = (appending /\ appends) /\ appends \in BOOLEAN
  BY <1>3 DEF IsEvent, Changed
<1>8. strayed' \subseteq Nodes
  <2>1. strayed \subseteq Nodes /\ inScene \subseteq Nodes
    BY <1>5 DEF GraphTypeOK
  <2> DEFINE fs == fields'
             S == (Range(fields[g]) \cup Range(c)) \ {NULL}
  <2>2. strayed' \subseteq strayed \cup inScene \cup Reach(fs, S)
    BY <1>3 DEF IsEvent, Changed
  <2>3. S \in SUBSET Nodes /\ FieldsOK(fs)
    <3>1. fields[g] \in Seq(Nodes \cup {NULL})
      BY <1>4, <1>6 DEF FieldsOK
    <3>2. Range(fields[g]) \subseteq Nodes \cup {NULL}
      BY <3>1, RangeElements
    <3> QED BY <3>2, <1>4, <1>6
  <2> HIDE DEF fs, S
  <2>4. Reach(fs, S) \in SUBSET Nodes
    BY <2>3, ReachProperties
  <2> QED BY <2>1, <2>2, <2>4
<1>9. odd' \subseteq {"null", "cycle", "viewpoint"}
  <2>1. odd \subseteq {"null", "cycle", "viewpoint"}
    BY <1>5 DEF GraphTypeOK
  <2>2. odd' \subseteq odd \cup {"null", "cycle", "viewpoint"}
    BY <1>3 DEF IsEvent, Changed
  <2> QED BY <2>1, <2>2
<1>10. broken' \in Faults
  BY <1>3 DEF IsEvent, Changed, Faults
<1>11. GraphTypeOK'
  <2>1. events' \in 0 .. MaxEvents
    BY <1>1, <1>5, SceneGraphAssumption DEF GraphTypeOK
  <2>2. /\ held' \subseteq Nodes /\ alive' \subseteq Nodes /\ inScene' \subseteq Nodes
        /\ listed' = inScene' \cap Registrars
        /\ calls' \in Seq([node : Nodes, at : Nat]) /\ rootAt' \in Nat
        /\ phase' \in {"loaded", "initialize", "up", "shutdown", "down", "reset"}
    BY <1>1, <1>4, <1>5, <1>7 DEF GraphTypeOK, membership, traversal
  <2>3. flagged' \subseteq Groups /\ appending' \in BOOLEAN
    BY <1>5, <1>6, <1>7 DEF GraphTypeOK
  <2> QED BY <1>4, <1>8, <1>9, <1>10, <2>1, <2>2, <2>3 DEF GraphTypeOK, FieldsOK, Faults
<1>12. /\ calls' = calls /\ phase' = phase /\ rootAt' = rootAt /\ inScene' = inScene
       /\ Roots' = Roots
  BY <1>1 DEF membership, traversal, Roots
<1>13. (phase # "reset" => Roots \subseteq alive /\ Referred(fields, alive) \subseteq alive)'
  BY <1>4, <1>12
<1> QED BY <1>1, <1>5, <1>11, <1>12, <1>13 DEF GraphBase, Idle

LEMMA BaseForget == GraphBase /\ Forget => GraphBase'
<1> SUFFICES ASSUME GraphBase, Forget PROVE GraphBase'
  OBVIOUS
<1>1. /\ file' = file /\ fields' = fields /\ held' \subseteq held
      /\ UNCHANGED membership /\ UNCHANGED traversal /\ UNCHANGED history
      /\ flagged' = flagged /\ events' = events /\ CanSend
      /\ alive' = Survivors(fields, held') /\ broken' \in Faults
  BY DEF Forget, Faults
<1>2. phase # "reset"
  BY <1>1 DEF CanSend, GraphBase
<1>3. /\ FieldsOK(fields) /\ file \in Files /\ alive \in SUBSET Nodes
      /\ Roots \subseteq alive /\ Referred(fields, alive) \subseteq alive
  BY <1>2 DEF GraphBase, GraphTypeOK, FieldsOK
<1> DEFINE hs == held'
<1>4. alive' = Survivors(fields, hs)
  BY <1>1
<1> HIDE DEF hs
<1>5. alive' \subseteq alive /\ Roots \subseteq alive' /\ Referred(fields, alive') \subseteq alive'
  BY <1>3, <1>4, SurvivorsAreWhole
<1>6. /\ calls \in Seq(Frames) /\ inScene \subseteq Nodes /\ listed = inScene \cap Registrars
      /\ rootAt \in Nat \ {0} /\ phase \in {"loaded", "initialize", "up", "shutdown", "down", "reset"}
      /\ flagged \subseteq Groups /\ events \in 0 .. MaxEvents /\ strayed \subseteq Nodes
      /\ appending \in BOOLEAN
      /\ phase \notin {"initialize", "shutdown"} => calls = << >>
      /\ phase = "loaded" => inScene = {}
  BY DEF GraphBase, GraphTypeOK, Frames, Idle
<1>7. /\ calls' = calls /\ phase' = phase /\ rootAt' = rootAt /\ inScene' = inScene /\ listed' = listed
      /\ strayed' = strayed /\ appending' = appending /\ odd' = odd
  BY <1>1 DEF membership, traversal, history
<1> QED BY <1>1, <1>2, <1>5, <1>6, <1>7, BaseWithoutEvent

\* Steps that change neither the graph nor the traversal.
Bystanding == UpdateFreed \/ Render

LEMMA BaseBystanding == GraphBase /\ Bystanding => GraphBase'
<1> SUFFICES ASSUME GraphBase, Bystanding PROVE GraphBase'
  OBVIOUS
<1>1. /\ file' = file /\ fields' = fields /\ held' = held /\ alive' = alive
      /\ UNCHANGED membership /\ UNCHANGED traversal /\ UNCHANGED history
      /\ flagged' \subseteq flagged /\ events' = events
      /\ broken' \in Faults
  BY DEF Bystanding, UpdateFreed, Render, Faults
<1>2. /\ calls \in Seq(Frames) /\ inScene \subseteq Nodes /\ listed = inScene \cap Registrars
      /\ rootAt \in Nat \ {0} /\ phase \in {"loaded", "initialize", "up", "shutdown", "down", "reset"}
      /\ flagged \subseteq Groups /\ events \in 0 .. MaxEvents /\ strayed \subseteq Nodes
      /\ appending \in BOOLEAN
      /\ phase \notin {"initialize", "shutdown"} => calls = << >>
      /\ phase = "loaded" => inScene = {}
      /\ phase # "reset" => Roots \subseteq alive /\ Referred(fields, alive) \subseteq alive
  BY DEF GraphBase, GraphTypeOK, Frames, Idle
<1>3. /\ calls' = calls /\ phase' = phase /\ rootAt' = rootAt /\ inScene' = inScene /\ listed' = listed
      /\ strayed' = strayed /\ appending' = appending /\ odd' = odd
  BY <1>1 DEF membership, traversal, history
<1> QED BY <1>1, <1>2, <1>3, BaseWithoutEvent

LEMMA BaseStep == GraphBase /\ [GraphNext]_sgVars => GraphBase'
<1> SUFFICES ASSUME GraphBase, [GraphNext]_sgVars PROVE GraphBase'
  OBVIOUS
<1>1. CASE UNCHANGED sgVars
  BY <1>1 DEF sgVars, GraphBase, GraphTypeOK, Idle, Roots, Referred
<1>2. CASE Descend
  BY <1>2, BaseDescend
<1>3. CASE ChildrenEvent
  BY <1>3, BaseEvent
<1>4. CASE Forget
  BY <1>4, BaseForget
<1>5. CASE UpdateFreed \/ Render
  BY <1>5, BaseBystanding DEF Bystanding
<1> QED BY <1>1, <1>2, <1>3, <1>4, <1>5 DEF GraphNext

(* The variables of the graph (scene.cpp, node.cpp, grouping_node_base.h)  *)
(* have their types in all worlds: the timers and Scripts the browser knows*)
(* are those that have the scene, and calls are those of nodes.            *)
THEOREM GraphTypes == GraphSpec => []GraphTypeOK
<1>1. GraphBase => GraphTypeOK
  BY DEF GraphBase
<1> QED BY <1>1, BaseInit, BaseStep, PTL DEF GraphSpec

-----------------------------------------------------------------------------
(* What the steps of a traversal do to the calls in progress. *)

\* initialize or shutdown of n stops the program, returns at once, or starts a call.
Stuck(n) ==
  /\ n \in InProgress
  /\ calls' = calls /\ inScene' = inScene /\ broken' = "deadlock"
Returned(n) ==
  /\ n = NULL \/ (n \in inScene) = (phase = "initialize")
  /\ DOMAIN calls' = 1 .. Len(calls) /\ Len(calls') = Len(calls)
  /\ inScene' = inScene /\ broken' = "none"
Entered(n) ==
  /\ n \in Nodes /\ n \notin InProgress /\ (n \in inScene) = (phase = "shutdown")
  /\ DOMAIN calls' = 1 .. Len(calls) + 1 /\ Len(calls') = Len(calls) + 1
  /\ calls'[Len(calls) + 1] = [node |-> n, at |-> 0]
  /\ inScene' = inScene \cup {n} /\ broken' = "none"

LEMMA FramePushed ==
  ASSUME NEW cs \in Seq(Frames), NEW n \in Nodes, NEW ds, ds = Append(cs, [node |-> n, at |-> 0])
  PROVE  /\ Len(cs) \in Nat /\ Len(ds) = Len(cs) + 1
         /\ DOMAIN ds = 1 .. Len(cs) + 1
         /\ \A i \in 1 .. Len(cs) : ds[i] = cs[i]
         /\ ds[Len(cs) + 1] = [node |-> n, at |-> 0]
<1> DEFINE t == [node |-> n, at |-> 0]
<1>1. t \in Frames
  BY DEF Frames
<1>2. ds = Append(cs, t)
  OBVIOUS
<1> HIDE DEF t
<1>3. /\ Append(cs, t) \in Seq(Frames) /\ Len(Append(cs, t)) = Len(cs) + 1
      /\ \A i \in 1 .. Len(cs) : Append(cs, t)[i] = cs[i]
      /\ Append(cs, t)[Len(cs) + 1] = t
  BY <1>1, AppendProperties
<1>4. DOMAIN ds = 1 .. Len(ds) /\ Len(cs) \in Nat
  BY <1>2, <1>3, LenProperties
<1> QED BY <1>2, <1>3, <1>4 DEF t

LEMMA NextFieldShape ==
  ASSUME GraphBase, broken = "none", NextField, NEW n, n = fields[Top.node][Top.at]
  PROVE  /\ phase \in {"initialize", "shutdown"} /\ phase' = phase /\ rootAt' = rootAt
         /\ Len(calls) \in Nat \ {0} /\ DOMAIN calls = 1 .. Len(calls)
         /\ Top = calls[Len(calls)] /\ Top.node \in Nodes
         /\ Top.at \in 1 .. Len(fields[Top.node]) /\ Len(fields[Top.node]) \in Nat
         /\ n \in Nodes \cup {NULL}
         /\ \/ Stuck(n)
            \/ /\ Returned(n) \/ Entered(n)
               /\ \A i \in 1 .. Len(calls) :
                    calls'[i] = IF i = Len(calls) THEN [node |-> Top.node, at |-> Top.at + 1]
                                                  ELSE calls[i]
<1>1. GraphTypeOK /\ ~Idle /\ NULL \notin Nodes
  BY SceneGraphAssumption DEF GraphBase, NextField
<1>2. phase \in {"initialize", "shutdown"} /\ phase' = phase /\ rootAt' = rootAt
  BY <1>1 DEF GraphBase, NextField
<1>3. /\ Len(calls) \in Nat \ {0} /\ DOMAIN calls = 1 .. Len(calls)
      /\ Top = calls[Len(calls)] /\ Top.node \in Nodes
      /\ Top.at \in 1 .. Len(fields[Top.node]) /\ Len(fields[Top.node]) \in Nat
      /\ fields[Top.node] \in Seq(Nodes \cup {NULL}) /\ Top.at + 1 \in Nat
  BY <1>1, TopFrame DEF NextField
<1>4. n \in Nodes \cup {NULL}
  BY <1>3, ElementOfSeq
<1> DEFINE next == AtPlace(Top.at + 1)
<1>5. /\ next \in Seq(Frames) /\ Len(next) = Len(calls)
      /\ \A i \in 1 .. Len(calls) :
           next[i] = IF i = Len(calls) THEN [node |-> Top.node, at |-> Top.at + 1] ELSE calls[i]
  BY <1>1, <1>3, AtPlaceFrames
<1>6. \/ n = NULL /\ calls' = next /\ UNCHANGED <<membership, broken>>
      \/ n # NULL /\ Enter(n, next)
  BY DEF NextField, AtPlace, Top
<1> HIDE DEF next
<1>7. DOMAIN next = 1 .. Len(calls)
  BY <1>5, LenProperties
<1>8. CASE n = NULL /\ calls' = next /\ UNCHANGED <<membership, broken>>
  <2>1. Returned(n)
    BY <1>5, <1>7, <1>8 DEF Returned, membership
  <2> QED BY <1>2, <1>3, <1>4, <1>5, <1>8, <2>1
<1>9. CASE n # NULL /\ Enter(n, next)
  <2>0. n \in Nodes
    BY <1>4, <1>9
  <2>1. CASE n \in InProgress /\ broken' = "deadlock" /\ UNCHANGED <<calls, inScene, listed>>
    <3>1. Stuck(n)
      BY <2>1 DEF Stuck
    <3> QED BY <1>2, <1>3, <1>4, <3>1
  <2>2. CASE /\ (n \in inScene) = (phase = "initialize")
             /\ calls' = next /\ UNCHANGED <<inScene, listed, broken>>
    <3>1. Returned(n)
      BY <2>2, <1>5, <1>7 DEF Returned
    <3> QED BY <1>2, <1>3, <1>4, <1>5, <2>2, <3>1
  <2>3. CASE /\ n \notin InProgress
             /\ (n \in inScene) = (phase = "shutdown")
             /\ calls' = Append(next, [node |-> n, at |-> 0])
             /\ inScene' = inScene \cup {n} /\ UNCHANGED broken
    <3>1. /\ Len(calls') = Len(next) + 1 /\ DOMAIN calls' = 1 .. Len(next) + 1
          /\ \A i \in 1 .. Len(next) : calls'[i] = next[i]
          /\ calls'[Len(next) + 1] = [node |-> n, at |-> 0]
      BY <2>0, <2>3, <1>5, FramePushed
    <3>2. Entered(n)
      BY <2>0, <2>3, <3>1, <1>5 DEF Entered
    <3> QED BY <1>2, <1>3, <1>4, <1>5, <3>1, <3>2
  <2> QED BY <1>9, <2>1, <2>2, <2>3 DEF Enter
<1> QED BY <1>6, <1>8, <1>9

LEMMA NextRootShape ==
  ASSUME GraphBase, broken = "none", NextRoot, NEW n, n = file.roots[rootAt]
  PROVE  /\ phase \in {"initialize", "shutdown"} /\ phase' = phase /\ rootAt' = rootAt + 1
         /\ calls = << >> /\ rootAt \in 1 .. Len(file.roots) /\ Len(file.roots) \in Nat /\ n \in Nodes
         /\ \/ (n \in inScene) = (phase = "initialize") /\ RootDone(n) /\ calls' = calls /\ inScene' = inScene
            \/ Entered(n)
<1>1. /\ phase \in {"initialize", "shutdown"} /\ phase' = phase /\ rootAt' = rootAt + 1
      /\ calls = << >> /\ rootAt <= Len(file.roots)
  BY DEF NextRoot, Idle
<1>2. file.roots \in Seq(Nodes) /\ Len(file.roots) \in Nat /\ rootAt \in Nat \ {0}
  BY RootsAreNodes DEF GraphBase, GraphTypeOK
<1>3. rootAt \in 1 .. Len(file.roots)
  BY <1>1, <1>2
<1>4. n \in Nodes
  BY <1>2, <1>3, ElementOfSeq
<1>5. n \notin InProgress
  BY <1>1 DEF InProgress
<1>6. << >> \in Seq(Frames) /\ Len(<< >>) = 0
  BY EmptySeq
<1>7. CASE (n \in inScene) = (phase = "initialize")
  BY <1>1, <1>2, <1>3, <1>4, <1>7 DEF NextRoot
<1>8. CASE (n \in inScene) # (phase = "initialize")
  <2>1. Enter(n, << >>)
    BY <1>8 DEF NextRoot
  <2>2. /\ (n \in inScene) = (phase = "shutdown")
        /\ calls' = Append(<< >>, [node |-> n, at |-> 0])
        /\ inScene' = inScene \cup {n} /\ UNCHANGED broken
    BY <2>1, <1>5, <1>8 DEF Enter
  <2> DEFINE e == << >>
  <2>3. e \in Seq(Frames) /\ Len(e) = 0 /\ calls = e /\ calls' = Append(e, [node |-> n, at |-> 0])
    BY <1>1, <1>6, <2>2
  <2> HIDE DEF e
  <2>4. /\ Len(calls') = Len(e) + 1 /\ DOMAIN calls' = 1 .. Len(e) + 1
        /\ calls'[Len(e) + 1] = [node |-> n, at |-> 0]
    BY <2>3, <1>4, FramePushed
  <2>5. Entered(n)
    BY <1>4, <1>5, <2>2, <2>3, <2>4 DEF Entered
  <2> QED BY <1>1, <1>2, <1>3, <1>4, <2>5
<1> QED BY <1>7, <1>8

LEMMA EnterFieldsShape ==
  ASSUME GraphBase, EnterFields
  PROVE  /\ phase \in {"initialize", "shutdown"} /\ phase' = phase /\ rootAt' = rootAt /\ broken' = broken
         /\ Len(calls) \in Nat \ {0} /\ DOMAIN calls = 1 .. Len(calls)
         /\ Top = calls[Len(calls)] /\ Top.node \in Nodes /\ Top.at = 0
         /\ DOMAIN calls' = 1 .. Len(calls) /\ Len(calls') = Len(calls)
         /\ \A i \in 1 .. Len(calls) :
              calls'[i] = IF i = Len(calls) THEN [node |-> Top.node, at |-> 1] ELSE calls[i]
         /\ inScene' = IF phase = "initialize" THEN inScene ELSE inScene \ {Top.node}
<1>1. GraphTypeOK /\ ~Idle
  BY DEF GraphBase, EnterFields
<1>2. calls' = AtPlace(1) /\ Top.at = 0 /\ phase' = phase /\ rootAt' = rootAt /\ broken' = broken
  BY DEF EnterFields, AtPlace
<1>3. /\ AtPlace(1) \in Seq(Frames) /\ Len(AtPlace(1)) = Len(calls)
      /\ \A i \in 1 .. Len(calls) :
           AtPlace(1)[i] = IF i = Len(calls) THEN [node |-> Top.node, at |-> 1] ELSE calls[i]
  BY <1>1, AtPlaceFrames
<1>4. DOMAIN AtPlace(1) = 1 .. Len(calls)
  BY <1>3, LenProperties
<1>5. /\ Len(calls) \in Nat \ {0} /\ DOMAIN calls = 1 .. Len(calls)
      /\ Top = calls[Len(calls)] /\ Top.node \in Nodes
  BY <1>1, TopFrame
<1>6. phase \in {"initialize", "shutdown"}
  BY <1>1 DEF GraphBase
<1>7. inScene' = IF phase = "initialize" THEN inScene ELSE inScene \ {Top.node}
  BY DEF EnterFields, membership
<1> QED BY <1>2, <1>3, <1>4, <1>5, <1>6, <1>7

\* The innermost call, of LeaveNode or LeaveRoot, returns.
LEMMA LeaveShape ==
  ASSUME GraphBase, LeaveNode \/ LeaveRoot
  PROVE  /\ phase \in {"initialize", "shutdown"} /\ phase' = phase /\ rootAt' = rootAt
         /\ Len(calls) \in Nat \ {0} /\ DOMAIN calls = 1 .. Len(calls)
         /\ Top = calls[Len(calls)] /\ Top.node \in Nodes /\ Top.at \in Nat
         /\ Len(fields[Top.node]) \in Nat /\ Top.at > Len(fields[Top.node])
         /\ DOMAIN calls' = 1 .. Len(calls) - 1 /\ Len(calls') = Len(calls) - 1
         /\ \A i \in 1 .. Len(calls) - 1 : calls'[i] = calls[i]
         /\ inScene' = inScene
<1>1. GraphTypeOK /\ ~Idle /\ calls \in Seq(Frames) /\ calls # << >>
  BY DEF GraphBase, GraphTypeOK, LeaveNode, LeaveRoot, Idle, Frames
<1>2. /\ Len(calls) \in Nat \ {0} /\ DOMAIN calls = 1 .. Len(calls)
      /\ Top = calls[Len(calls)] /\ Top.node \in Nodes /\ Top.at \in Nat
      /\ Len(fields[Top.node]) \in Nat
  BY <1>1, TopFrame
<1>3. /\ phase \in {"initialize", "shutdown"} /\ phase' = phase /\ rootAt' = rootAt
      /\ Top.at > Len(fields[Top.node]) /\ inScene' = inScene
  BY <1>1 DEF GraphBase, LeaveNode, LeaveRoot, membership
<1>4. CASE LeaveNode
  <2>1. calls' = Front(calls)
    BY <1>4 DEF LeaveNode, Front
  <2>2. /\ Front(calls) \in Seq(Frames) /\ Len(Front(calls)) = Len(calls) - 1
        /\ \A j \in 1 .. (Len(calls) - 1) : Front(calls)[j] = calls[j]
    BY <1>1, FrontProperties
  <2>3. DOMAIN Front(calls) = 1 .. Len(calls) - 1
    BY <2>2, LenProperties
  <2> QED BY <1>2, <1>3, <2>1, <2>2, <2>3
<1>5. CASE LeaveRoot
  <2>1. Len(calls) = 1 /\ calls' = << >>
    BY <1>5 DEF LeaveRoot
  <2>2. DOMAIN << >> = 1 .. 0 /\ Len(<< >>) = 0
    OBVIOUS
  <2> QED BY <1>2, <1>3, <2>1, <2>2
<1> QED BY <1>4, <1>5

-----------------------------------------------------------------------------
(* The shutdown of a scene. *)

(* The nodes that the shutdown has yet to look at: the scene's own nodes   *)
(* from rootAt on, the nodes it has entered but not taken out, and what is *)
(* left of the fields of the ones it is in.                                *)
IsSource(n) ==
  \/ \E k \in rootAt .. Len(file.roots) : file.roots[k] = n
  \/ \E i \in DOMAIN calls : calls[i].at = 0 /\ calls[i].node = n
  \/ \E i \in DOMAIN calls :
       /\ calls[i].at # 0
       /\ \E j \in calls[i].at .. Len(fields[calls[i].node]) : fields[calls[i].node][j] = n

\* T has what the shutdown will find in the scene.
Covers(T) ==
  /\ \A n \in Nodes : IsSource(n) /\ n \in inScene => n \in T
  /\ Referred(fields, T) \cap inScene \subseteq T

\* T has what is attached to the scene.
CoversRoots(T) ==
  /\ Roots \cap inScene \subseteq T
  /\ Referred(fields, T) \cap inScene \subseteq T

(* A node of the scene is found by its shutdown, or strayed.               *)
ShutdownInv ==
  /\ phase = "up" => \A T \in SUBSET Nodes : CoversRoots(T) => inScene \ strayed \subseteq T
  /\ phase = "shutdown" => \A T \in SUBSET Nodes : Covers(T) => inScene \ strayed \subseteq T
  /\ phase = "down" => inScene \subseteq strayed
  /\ broken = "left" => strayed \cap Registrars # {}

LEMMA ShutdownInit == GraphInit => ShutdownInv
BY DEF GraphInit, ShutdownInv

\* A step of the shutdown that leaves the graph alone and finds nothing new out of the scene.
LEMMA SourcesSuffice ==
  ASSUME phase = "shutdown", ShutdownInv, GraphBase, phase' = "shutdown",
         fields' = fields, inScene' = inScene, strayed' = strayed, broken' # "left",
         \A n \in Nodes : IsSource(n) /\ n \in inScene => IsSource(n)'
  PROVE  ShutdownInv'
<1>1. ASSUME NEW T \in SUBSET Nodes, Covers(T)' PROVE Covers(T)
  <2>1. \A n \in Nodes : IsSource(n)' /\ n \in inScene => n \in T
    BY <1>1 DEF Covers
  <2>2. Referred(fields, T) \cap inScene \subseteq T
    BY <1>1 DEF Covers
  <2> QED BY <2>1, <2>2 DEF Covers
<1>2. ASSUME NEW T \in SUBSET Nodes, Covers(T)' PROVE inScene' \ strayed' \subseteq T
  BY <1>1, <1>2 DEF ShutdownInv
<1> QED BY <1>2 DEF ShutdownInv

LEMMA ShutdownDescend == GraphBase /\ ShutdownInv /\ Descend => ShutdownInv'
<1> SUFFICES ASSUME GraphBase, ShutdownInv, Descend PROVE ShutdownInv'
  OBVIOUS
<1>1. /\ GraphTypeOK /\ file \in Files /\ broken = "none"
      /\ file' = file /\ fields' = fields /\ Roots' = Roots
      /\ inScene \subseteq Nodes /\ NULL \notin Nodes
      /\ rootAt \in Nat \ {0} /\ FieldsOK(fields)
  BY SceneGraphAssumption DEF GraphBase, GraphTypeOK, Descend, Running, FieldsOK, Roots
<1>2. phase \notin {"initialize", "shutdown"} => calls = << >>
  BY DEF GraphBase, Idle
<1>3. ASSUME phase = "initialize", phase' = "initialize", broken' # "left" PROVE ShutdownInv'
  BY <1>3 DEF ShutdownInv
<1>4. CASE NextRoot /\ strayed' = strayed
  <2> DEFINE n == file.roots[rootAt]
  <2>1. /\ phase \in {"initialize", "shutdown"} /\ phase' = phase /\ rootAt' = rootAt + 1
        /\ calls = << >> /\ rootAt \in 1 .. Len(file.roots) /\ Len(file.roots) \in Nat /\ n \in Nodes
        /\ \/ (n \in inScene) = (phase = "initialize") /\ RootDone(n) /\ calls' = calls /\ inScene' = inScene
           \/ Entered(n)
    BY <1>1, <1>4, NextRootShape
  <2>2. broken' # "left"
    BY <1>1, <2>1 DEF RootDone, Entered
  <2>3. CASE phase = "shutdown"
    <3>1. \/ n \notin inScene /\ calls' = calls /\ inScene' = inScene
          \/ n \in inScene /\ 1 \in DOMAIN calls' /\ calls'[1] = [node |-> n, at |-> 0] /\ inScene' = inScene
      <4>1. Len(calls) = 0 /\ Len(calls) + 1 = 1
        BY <2>1
      <4>2. CASE Entered(n)
        <5>1. DOMAIN calls' = 1 .. Len(calls) + 1 /\ calls'[Len(calls) + 1] = [node |-> n, at |-> 0]
          BY <4>2 DEF Entered
        <5>2. n \in inScene /\ inScene' = inScene
          BY <4>2, <2>3 DEF Entered
        <5> QED BY <4>1, <5>1, <5>2
      <4>3. CASE (n \in inScene) = (phase = "initialize") /\ RootDone(n) /\ calls' = calls /\ inScene' = inScene
        BY <4>3, <2>3
      <4> QED BY <2>1, <4>2, <4>3
    <3>2. ASSUME NEW m \in Nodes, IsSource(m), m \in inScene PROVE IsSource(m)'
      <4>1. PICK k \in rootAt .. Len(file.roots) : file.roots[k] = m
        BY <3>2, <2>1 DEF IsSource
      <4>2. CASE k = rootAt
        <5>1. 1 \in DOMAIN calls' /\ calls'[1].at = 0 /\ calls'[1].node = m
          BY <3>1, <3>2, <4>1, <4>2
        <5> QED BY <5>1 DEF IsSource
      <4>3. CASE k # rootAt
        <5>1. k \in rootAt' .. Len(file'.roots)
          BY <4>1, <4>3, <1>1, <2>1
        <5> QED BY <4>1, <5>1, <1>1 DEF IsSource
      <4> QED BY <4>2, <4>3
    <3>3. inScene' = inScene
      BY <3>1
    <3> QED BY <1>1, <1>4, <2>1, <2>2, <2>3, <3>2, <3>3, SourcesSuffice
  <2> QED BY <2>1, <2>2, <2>3, <1>3
<1>5. CASE EnterFields /\ strayed' = strayed
  <2>1. /\ phase \in {"initialize", "shutdown"} /\ phase' = phase /\ rootAt' = rootAt /\ broken' = broken
        /\ Len(calls) \in Nat \ {0} /\ DOMAIN calls = 1 .. Len(calls)
        /\ Top = calls[Len(calls)] /\ Top.node \in Nodes /\ Top.at = 0
        /\ DOMAIN calls' = 1 .. Len(calls)
        /\ \A i \in 1 .. Len(calls) :
             calls'[i] = IF i = Len(calls) THEN [node |-> Top.node, at |-> 1] ELSE calls[i]
        /\ inScene' = IF phase = "initialize" THEN inScene ELSE inScene \ {Top.node}
    BY <1>5, EnterFieldsShape
  <2>2. CASE phase = "shutdown"
    <3>1. inScene' = inScene \ {Top.node}
      BY <2>1, <2>2
    <3>3. ASSUME NEW m \in Nodes, IsSource(m), m # Top.node PROVE IsSource(m)'
      <4>1. CASE \E k \in rootAt .. Len(file.roots) : file.roots[k] = m
        BY <4>1, <1>1, <2>1 DEF IsSource
      <4>2. CASE \E i \in DOMAIN calls : calls[i].at = 0 /\ calls[i].node = m
        <5>1. PICK i \in 1 .. Len(calls) : calls[i].at = 0 /\ calls[i].node = m
          BY <4>2, <2>1
        <5>2. calls'[i] = calls[i] /\ i \in DOMAIN calls'
          BY <5>1, <2>1, <3>3
        <5> QED BY <5>1, <5>2 DEF IsSource
      <4>3. CASE \E i \in DOMAIN calls :
                   /\ calls[i].at # 0
                   /\ \E j \in calls[i].at .. Len(fields[calls[i].node]) : fields[calls[i].node][j] = m
        <5>1. PICK i \in 1 .. Len(calls) :
                   /\ calls[i].at # 0
                   /\ \E j \in calls[i].at .. Len(fields[calls[i].node]) : fields[calls[i].node][j] = m
          BY <4>3, <2>1
        <5>2. calls'[i] = calls[i] /\ i \in DOMAIN calls'
          BY <5>1, <2>1
        <5> QED BY <5>1, <5>2, <1>1 DEF IsSource
      <4> QED BY <4>1, <4>2, <4>3, <3>3 DEF IsSource
    <3>4. ASSUME NEW m \in Referred(fields, {Top.node}) PROVE IsSource(m)'
      <4>1. {Top.node} \in SUBSET Nodes
        BY <2>1
      <4>2. PICK j \in 1 .. Len(fields[Top.node]) : fields[Top.node][j] = m
        BY <4>1, <1>1, ReferredNodes
      <4>1a. Len(calls) \in Nat \ {0} /\ DOMAIN calls' = 1 .. Len(calls)
        BY <2>1
      <4>a. Len(calls) \in 1 .. Len(calls) /\ DOMAIN calls' = 1 .. Len(calls)
        BY <4>1a
      <4>b. \A i \in 1 .. Len(calls) :
              calls'[i] = IF i = Len(calls) THEN [node |-> Top.node, at |-> 1] ELSE calls[i]
        BY <2>1
      <4>3. Len(calls) \in DOMAIN calls' /\ calls'[Len(calls)] = [node |-> Top.node, at |-> 1]
        BY <4>a, <4>b
      <4>4. /\ calls'[Len(calls)].at # 0
            /\ j \in calls'[Len(calls)].at .. Len(fields'[calls'[Len(calls)].node])
            /\ fields'[calls'[Len(calls)].node][j] = m
        BY <4>2, <4>3, <1>1
      <4> QED BY <4>3, <4>4 DEF IsSource
    <3>5. ASSUME NEW T \in SUBSET Nodes, Covers(T)' PROVE inScene' \ strayed' \subseteq T
      <4> DEFINE U == T \cup {Top.node}
      <4>1. /\ \A m \in Nodes : IsSource(m)' /\ m \in inScene' => m \in T
            /\ Referred(fields, T) \cap inScene' \subseteq T
        BY <3>5, <1>1 DEF Covers
      <4>2. U \in SUBSET Nodes
        BY <2>1
      <4>3. \A m \in Nodes : IsSource(m) /\ m \in inScene => m \in U
        BY <3>1, <3>3, <4>1
      <4>4. Referred(fields, U) \cap inScene \subseteq U
        <5>1. Referred(fields, U) = Referred(fields, T) \cup Referred(fields, {Top.node})
          BY ReferredOfUnion
        <5>2. Referred(fields, {Top.node}) \cap inScene' \subseteq T
          BY <3>4, <4>1, <3>1, <1>1
        <5> QED BY <3>1, <4>1, <5>1, <5>2
      <4> HIDE DEF U
      <4>5. inScene \ strayed \subseteq U
        BY <2>2, <4>2, <4>3, <4>4 DEF ShutdownInv, Covers
      <4> QED BY <1>5, <3>1, <4>5 DEF U
    <3> QED BY <1>1, <2>1, <2>2, <3>5 DEF ShutdownInv
  <2> QED BY <1>1, <1>3, <2>1, <2>2
<1>6. CASE NextField /\ strayed' = strayed
  <2> DEFINE n == fields[Top.node][Top.at]
  <2>1. /\ phase \in {"initialize", "shutdown"} /\ phase' = phase /\ rootAt' = rootAt
        /\ Len(calls) \in Nat \ {0} /\ DOMAIN calls = 1 .. Len(calls)
        /\ Top = calls[Len(calls)] /\ Top.node \in Nodes
        /\ Top.at \in 1 .. Len(fields[Top.node]) /\ Len(fields[Top.node]) \in Nat
        /\ n \in Nodes \cup {NULL}
        /\ \/ Stuck(n)
           \/ /\ Returned(n) \/ Entered(n)
              /\ \A i \in 1 .. Len(calls) :
                   calls'[i] = IF i = Len(calls) THEN [node |-> Top.node, at |-> Top.at + 1]
                                                 ELSE calls[i]
    BY <1>1, <1>6, NextFieldShape
  <2>2. broken' # "left"
    BY <2>1 DEF Stuck, Returned, Entered
  <2>1a. Top = calls[Len(calls)] /\ Top.at \in 1 .. Len(fields[Top.node]) /\ Len(fields[Top.node]) \in Nat
    BY <2>1
  <2>2a. calls[Len(calls)].at # 0
    BY <2>1a
  <2>3. CASE phase = "shutdown"
    <3>1. inScene' = inScene
      BY <2>1, <2>3 DEF Stuck, Returned, Entered
    <3>2. ASSUME NEW m \in Nodes, IsSource(m), m \in inScene PROVE IsSource(m)'
      <4>1. CASE Stuck(n)
        BY <4>1, <3>2, <2>1, <1>1 DEF IsSource, Stuck
      <4>2. CASE /\ Returned(n) \/ Entered(n)
                 /\ \A i \in 1 .. Len(calls) :
                      calls'[i] = IF i = Len(calls) THEN [node |-> Top.node, at |-> Top.at + 1]
                                                    ELSE calls[i]
        <5>a. Len(calls) \in Nat
          BY <2>1
        <5>b. DOMAIN calls' = 1 .. Len(calls) \/ DOMAIN calls' = 1 .. Len(calls) + 1
          BY <4>2 DEF Returned, Entered
        <5>0. 1 .. Len(calls) \subseteq DOMAIN calls'
          BY <5>a, <5>b
        <5>1. CASE \E k \in rootAt .. Len(file.roots) : file.roots[k] = m
          BY <5>1, <1>1, <2>1 DEF IsSource
        <5>2. CASE \E i \in DOMAIN calls : calls[i].at = 0 /\ calls[i].node = m
          <6>1. PICK i \in 1 .. Len(calls) : calls[i].at = 0 /\ calls[i].node = m
            BY <5>2, <2>1
          <6>2. i # Len(calls)
            BY <6>1, <2>2a
          <6>3. calls'[i] = calls[i] /\ i \in DOMAIN calls'
            BY <6>1, <6>2, <4>2, <5>0
          <6> QED BY <6>1, <6>3 DEF IsSource
        <5>3. CASE \E i \in DOMAIN calls :
                     /\ calls[i].at # 0
                     /\ \E j \in calls[i].at .. Len(fields[calls[i].node]) : fields[calls[i].node][j] = m
          <6>1. PICK i \in 1 .. Len(calls) :
                     /\ calls[i].at # 0
                     /\ \E j \in calls[i].at .. Len(fields[calls[i].node]) : fields[calls[i].node][j] = m
            BY <5>3, <2>1
          <6>2. PICK j \in calls[i].at .. Len(fields[calls[i].node]) : fields[calls[i].node][j] = m
            BY <6>1
          <6>3. i \in DOMAIN calls'
            BY <5>0
          <6>4. CASE i # Len(calls)
            <7>1. calls'[i] = calls[i]
              BY <6>4, <4>2
            <7> QED BY <6>1, <6>3, <7>1, <1>1 DEF IsSource
          <6>5. CASE i = Len(calls)
            <7>1. calls'[i] = [node |-> Top.node, at |-> Top.at + 1]
              BY <6>5, <4>2
            <7>2. CASE j = Top.at
              <8>1. m = n /\ n \in inScene
                BY <7>2, <6>2, <6>5, <2>1, <3>2
              <8>2. Entered(n)
                BY <8>1, <4>2, <2>3, <3>2, <1>1 DEF Returned
              <8>a. DOMAIN calls' = 1 .. Len(calls) + 1 /\ calls'[Len(calls) + 1] = [node |-> n, at |-> 0]
                BY <8>2 DEF Entered
              <8>3. /\ Len(calls) + 1 \in DOMAIN calls' /\ calls'[Len(calls) + 1].at = 0
                    /\ calls'[Len(calls) + 1].node = m
                BY <8>1, <8>a, <5>a
              <8> QED BY <8>3 DEF IsSource
            <7>3. CASE j # Top.at
              <8>1. /\ calls'[i].at # 0
                    /\ j \in calls'[i].at .. Len(fields'[calls'[i].node])
                    /\ fields'[calls'[i].node][j] = m
                BY <7>1, <7>3, <6>2, <6>5, <2>1, <1>1
              <8> QED BY <8>1, <6>3 DEF IsSource
            <7> QED BY <7>2, <7>3
          <6> QED BY <6>4, <6>5
        <5> QED BY <5>1, <5>2, <5>3, <3>2 DEF IsSource
      <4> QED BY <4>1, <4>2, <2>1
    <3> QED BY <1>1, <1>6, <2>1, <2>2, <2>3, <3>1, <3>2, SourcesSuffice
  <2> QED BY <1>3, <2>1, <2>2, <2>3
<1>7. CASE (LeaveNode \/ LeaveRoot) /\ strayed' = strayed
  <2>1. /\ phase \in {"initialize", "shutdown"} /\ phase' = phase /\ rootAt' = rootAt
        /\ Len(calls) \in Nat \ {0} /\ DOMAIN calls = 1 .. Len(calls)
        /\ Top = calls[Len(calls)] /\ Top.node \in Nodes /\ Top.at \in Nat
        /\ Len(fields[Top.node]) \in Nat /\ Top.at > Len(fields[Top.node])
        /\ DOMAIN calls' = 1 .. Len(calls) - 1
        /\ \A i \in 1 .. Len(calls) - 1 : calls'[i] = calls[i]
        /\ inScene' = inScene
    BY <1>7, LeaveShape
  <2>2. broken' # "left"
    BY <1>1, <1>7 DEF LeaveNode, LeaveRoot, RootDone
  <2>2a. calls[Len(calls)].at # 0
    BY <2>1
  <2>2c. /\ Len(calls) \in Nat
         /\ calls[Len(calls)].at .. Len(fields[calls[Len(calls)].node]) = {}
    BY <2>1
  <2>2d. DOMAIN calls' = 1 .. Len(calls) - 1 /\ \A i \in 1 .. Len(calls) - 1 : calls'[i] = calls[i]
    BY <2>1
  <2>3. CASE phase = "shutdown"
    <3>1. ASSUME NEW m \in Nodes, IsSource(m), m \in inScene PROVE IsSource(m)'
      <4>1. CASE \E k \in rootAt .. Len(file.roots) : file.roots[k] = m
        BY <4>1, <1>1, <2>1 DEF IsSource
      <4>2. CASE \E i \in DOMAIN calls : calls[i].at = 0 /\ calls[i].node = m
        <5>1. PICK i \in 1 .. Len(calls) : calls[i].at = 0 /\ calls[i].node = m
          BY <4>2, <2>1
        <5>2. i \in 1 .. Len(calls) - 1
          BY <5>1, <2>2a, <2>2c
        <5>3. calls'[i] = calls[i] /\ i \in DOMAIN calls'
          BY <5>2, <2>2d
        <5> QED BY <5>1, <5>3 DEF IsSource
      <4>3. CASE \E i \in DOMAIN calls :
                   /\ calls[i].at # 0
                   /\ \E j \in calls[i].at .. Len(fields[calls[i].node]) : fields[calls[i].node][j] = m
        <5>1. PICK i \in 1 .. Len(calls) :
                   /\ calls[i].at # 0
                   /\ \E j \in calls[i].at .. Len(fields[calls[i].node]) : fields[calls[i].node][j] = m
          BY <4>3, <2>1
        <5>2. i \in 1 .. Len(calls) - 1
          BY <5>1, <2>2a, <2>2c
        <5>3. calls'[i] = calls[i] /\ i \in DOMAIN calls'
          BY <5>2, <2>2d
        <5> QED BY <5>1, <5>3, <1>1 DEF IsSource
      <4> QED BY <4>1, <4>2, <4>3, <3>1 DEF IsSource
    <3> QED BY <1>1, <1>7, <2>1, <2>2, <2>3, <3>1, SourcesSuffice
  <2> QED BY <1>3, <2>1, <2>2, <2>3
<1>8. CASE Begin /\ strayed' = strayed
  <2>1. /\ calls' = calls /\ calls = << >> /\ rootAt' = 1 /\ broken' = "none" /\ inScene' = inScene
        /\ \/ phase = "loaded" /\ phase' = "initialize"
           \/ phase = "up" /\ phase' = "shutdown"
    BY <1>1, <1>8 DEF Begin, membership, Idle
  <2>2. CASE phase = "up" /\ phase' = "shutdown"
    <3>1. ASSUME NEW T \in SUBSET Nodes, Covers(T)' PROVE inScene' \ strayed' \subseteq T
      <4>1. ASSUME NEW m \in Roots \cap inScene PROVE m \in T
        <5>1. m \in Nodes /\ \E k \in 1 .. Len(file.roots) : file.roots[k] = m
          BY <1>1, RootsAreNodes
        <5>2. IsSource(m)'
          BY <5>1, <2>1, <1>1 DEF IsSource
        <5> QED BY <5>1, <5>2, <2>1, <3>1 DEF Covers
      <4>2. Referred(fields, T) \cap inScene \subseteq T
        BY <3>1, <1>1, <2>1 DEF Covers
      <4> QED BY <4>1, <4>2, <2>1, <2>2, <1>8 DEF ShutdownInv, CoversRoots
    <3> QED BY <2>1, <2>2, <3>1 DEF ShutdownInv
  <2> QED BY <2>1, <2>2 DEF ShutdownInv
<1>9. CASE End
  <2>1. /\ calls' = calls /\ calls = << >> /\ broken' = "none" /\ inScene' = inScene
        /\ rootAt > Len(file.roots) /\ rootAt' = rootAt
        /\ \/ phase = "initialize" /\ phase' = "up" /\ strayed' = strayed \cup (inScene \ Attached(fields))
           \/ phase = "shutdown" /\ phase' = "down" /\ strayed' = strayed
    BY <1>1, <1>9 DEF End, membership, Idle
  <2>2. CASE phase = "initialize" /\ phase' = "up" /\ strayed' = strayed \cup (inScene \ Attached(fields))
    <3>1. ASSUME NEW T \in SUBSET Nodes, CoversRoots(T)' PROVE inScene' \ strayed' \subseteq T
      <4>1. Roots \cap inScene \subseteq T /\ Referred(fields, T) \cap inScene \subseteq T
        BY <3>1, <1>1, <2>1 DEF CoversRoots
      <4>2. inScene \in SUBSET Nodes
        BY <1>1
      <4>3. Attached(fields) \subseteq T
        BY <4>1, <4>2, <1>1, AttachedIsLeast
      <4> QED BY <4>3, <2>1, <2>2
    <3> QED BY <2>1, <2>2, <3>1 DEF ShutdownInv
  <2>3. CASE phase = "shutdown" /\ phase' = "down" /\ strayed' = strayed
    <3>1. ASSUME NEW m \in Nodes PROVE ~IsSource(m)
      <4>1. Len(file.roots) \in Nat /\ rootAt .. Len(file.roots) = {}
        BY <1>1, <2>1, RootsAreNodes
      <4> QED BY <4>1, <2>1 DEF IsSource
    <3>2. Covers({})
      <4>1. Referred(fields, {}) = {}
        BY DEF Referred
      <4> QED BY <3>1, <4>1 DEF Covers
    <3>3. inScene \ strayed \subseteq {}
      <4>1. {} \in SUBSET Nodes
        OBVIOUS
      <4> QED BY <4>1, <3>2, <2>3 DEF ShutdownInv
    <3> QED BY <3>3, <2>1, <2>3 DEF ShutdownInv
  <2> QED BY <2>1, <2>2, <2>3
<1>10. CASE Reset /\ strayed' = strayed
  <2>1. /\ phase = "down" /\ phase' = "reset" /\ broken' = IF listed = {} THEN "none" ELSE "left"
    BY <1>10 DEF Reset
  <2>2. listed = inScene \cap Registrars /\ inScene \subseteq strayed
    BY <1>1, <2>1 DEF GraphTypeOK, ShutdownInv
  <2> QED BY <2>1, <2>2, <1>10 DEF ShutdownInv
<1> QED BY <1>4, <1>5, <1>6, <1>7, <1>8, <1>9, <1>10 DEF Descend

LEMMA ShutdownEvent == GraphBase /\ ShutdownInv /\ ChildrenEvent => ShutdownInv'
<1> SUFFICES ASSUME GraphBase, ShutdownInv, ChildrenEvent PROVE ShutdownInv'
  OBVIOUS
<1>1. /\ file' = file /\ Roots' = Roots /\ inScene' = inScene /\ calls' = calls
      /\ phase' = phase /\ rootAt' = rootAt /\ CanSend /\ broken = "none"
  BY DEF ChildrenEvent, membership, traversal, Running, Roots
<1>2. phase \in {"up", "initialize", "shutdown"}
  BY <1>1 DEF CanSend, GraphBase, GraphTypeOK
<1>3. PICK g, c, ok, appends : IsEvent(g, c, ok, appends)
  BY <1>2, EventShape
<1>4. /\ IsChange(fields, g, c, fields') /\ FieldsOK(fields) /\ FieldsOK(fields')
      /\ file \in Files /\ inScene \in SUBSET Nodes /\ NULL \notin Nodes
  BY <1>2, <1>3, EventGraph, SceneGraphAssumption DEF GraphBase, GraphTypeOK
<1> DEFINE S == (Range(fields[g]) \cup Range(c)) \ {NULL}
           M == Reach(fields', S)
<1>5. /\ strayed \subseteq strayed'
      /\ phase = "up" => inScene \ Attached(fields') \subseteq strayed'
      /\ phase = "shutdown" => M \subseteq strayed'
      /\ broken' # "left"
  BY <1>3 DEF IsEvent, Changed
<1>6. CASE phase = "initialize"
  BY <1>1, <1>5, <1>6 DEF ShutdownInv
<1>7. CASE phase = "up"
  <2>1. ASSUME NEW T \in SUBSET Nodes, CoversRoots(T)' PROVE inScene' \ strayed' \subseteq T
    <3> DEFINE fs == fields'
    <3>1. Roots \cap inScene \subseteq T /\ Referred(fs, T) \cap inScene \subseteq T /\ FieldsOK(fs)
      BY <1>1, <1>4, <2>1 DEF CoversRoots
    <3> HIDE DEF fs
    <3>2. Attached(fs) \subseteq T
      BY <3>1, <1>4, AttachedIsLeast
    <3>3. Attached(fields') \subseteq T
      BY <3>2 DEF fs
    <3> QED BY <3>3, <1>1, <1>5, <1>7
  <2> QED BY <1>1, <1>5, <1>7, <2>1 DEF ShutdownInv
<1>8. CASE phase = "shutdown"
  <2>1. /\ g \in Nodes /\ \A n \in Nodes \ {g} : fields'[n] = fields[n]
        /\ Range(c) \ {NULL} \in SUBSET Nodes
    BY <1>4, ChangedFields
  <2>2. /\ S \in SUBSET Nodes
        /\ \A m \in Nodes : \A j \in 1 .. Len(fields[g]) : fields[g][j] = m => m \in S
    <3> DEFINE s == fields[g]
               D == Nodes \cup {NULL}
    <3>1. s \in Seq(D)
      BY <1>4, <2>1 DEF FieldsOK
    <3> HIDE DEF s, D
    <3>2. Range(s) \subseteq D /\ \A x : x \in Range(s) <=> \E i \in 1 .. Len(s) : s[i] = x
      BY <3>1, RangeElements
    <3>3. \A m \in Nodes : \A j \in 1 .. Len(s) : s[j] = m => m \in Range(s)
      BY <3>2
    <3> QED BY <3>2, <3>3, <2>1, <1>4 DEF s, D
  <2> DEFINE fs == fields'
  <2>3. /\ FieldsOK(fs) /\ M = Reach(fs, S)
    BY <1>4
  <2> HIDE DEF fs, S, M
  <2>4. M \in SUBSET Nodes /\ S \subseteq M /\ Referred(fs, M) \subseteq M
    BY <2>2, <2>3, ReachProperties
  <2>5. ASSUME NEW T \in SUBSET Nodes, Covers(T)' PROVE inScene' \ strayed' \subseteq T
    <3>1. /\ \A m \in Nodes : IsSource(m)' /\ m \in inScene => m \in T
          /\ Referred(fs, T) \cap inScene \subseteq T
      BY <2>5, <1>1 DEF Covers, fs
    <3>2. ASSUME NEW m \in Nodes, IsSource(m), m \in inScene PROVE m \in T \cup M
      <4>1. CASE \E k \in rootAt .. Len(file.roots) : file.roots[k] = m
        <5>1. IsSource(m)'
          BY <4>1, <1>1 DEF IsSource
        <5> QED BY <5>1, <3>1, <3>2
      <4>2. CASE \E i \in DOMAIN calls : calls[i].at = 0 /\ calls[i].node = m
        <5>1. IsSource(m)'
          BY <4>2, <1>1 DEF IsSource
        <5> QED BY <5>1, <3>1, <3>2
      <4>3. CASE \E i \in DOMAIN calls :
                   /\ calls[i].at # 0
                   /\ \E j \in calls[i].at .. Len(fields[calls[i].node]) : fields[calls[i].node][j] = m
        <5>1. PICK i \in DOMAIN calls :
                   /\ calls[i].at # 0
                   /\ \E j \in calls[i].at .. Len(fields[calls[i].node]) : fields[calls[i].node][j] = m
          BY <4>3
        <5>2. calls[i].node \in Nodes /\ calls[i].at \in Nat
          <6>1. GraphTypeOK /\ ~Idle
            BY <5>1 DEF GraphBase, Idle
          <6> QED BY <6>1, <5>1, TopFrame
        <5>3. CASE calls[i].node = g
          <6>1. PICK j \in calls[i].at .. Len(fields[g]) : fields[g][j] = m
            BY <5>1, <5>3
          <6>2. Len(fields[g]) \in Nat
            BY <1>4, <2>1, LenProperties DEF FieldsOK
          <6>3. j \in 1 .. Len(fields[g])
            BY <5>1, <5>2, <6>1, <6>2
          <6> QED BY <6>1, <6>3, <2>2, <2>4
        <5>4. CASE calls[i].node # g
          <6>1. fields'[calls[i].node] = fields[calls[i].node]
            BY <5>2, <5>4, <2>1
          <6>2. IsSource(m)'
            BY <5>1, <6>1, <1>1 DEF IsSource
          <6> QED BY <6>2, <3>1, <3>2
        <5> QED BY <5>3, <5>4
      <4> QED BY <4>1, <4>2, <4>3, <3>2 DEF IsSource
    <3> DEFINE U == T \cup M
    <3>3. U \in SUBSET Nodes
      BY <2>4
    <3>4. ASSUME NEW m \in Referred(fields, U) \cap inScene PROVE m \in U
      <4>1. PICK x \in U : \E j \in 1 .. Len(fields[x]) : fields[x][j] = m
        BY <3>3, <1>4, ReferredNodes
      <4>2. m \in Nodes /\ m # NULL
        BY <1>4
      <4>3. CASE x = g
        BY <4>1, <4>2, <4>3, <2>2, <2>4
      <4>4. CASE x # g
        <5>1. x \in Nodes /\ fs[x] = fields[x]
          BY <4>4, <3>3, <2>1 DEF fs
        <5>2. m \in Referred(fs, {x})
          <6>1. {x} \in SUBSET Nodes /\ FieldsOK(fs)
            BY <5>1, <2>3
          <6>2. \E n \in {x} : \E j \in 1 .. Len(fs[n]) : fs[n][j] = m
            BY <4>1, <5>1
          <6> QED BY <6>1, <6>2, <4>2, ReferredNodes
        <5>3. m \in Referred(fs, T) \/ m \in Referred(fs, M)
          BY <4>1, <5>2, ReferredGrows
        <5> QED BY <5>3, <3>1, <3>4, <2>4
      <4> QED BY <4>3, <4>4
    <3>5. \A m \in Nodes : IsSource(m) /\ m \in inScene => m \in U
      BY <3>2
    <3>6. inScene \ strayed \subseteq U
      <4> HIDE DEF U
      <4> QED BY <1>8, <3>3, <3>4, <3>5 DEF ShutdownInv, Covers
    <3> QED BY <3>6, <1>1, <1>5, <1>8
  <2> QED BY <1>1, <1>5, <1>8, <2>5 DEF ShutdownInv
<1> QED BY <1>2, <1>6, <1>7, <1>8

\* A step that leaves the graph and the traversal alone and finds nothing wrong with the lists.
LEMMA ShutdownUndisturbed ==
  ASSUME ShutdownInv, file' = file, fields' = fields, calls' = calls, rootAt' = rootAt, phase' = phase,
         inScene' = inScene, strayed' = strayed, broken' \in {broken} \cup (Faults \ {"left"})
  PROVE  ShutdownInv'
<1>1. Roots' = Roots /\ (broken' = "left" => broken = "left")
  BY DEF Roots, Faults
<1>2. ASSUME NEW T \in SUBSET Nodes PROVE (CoversRoots(T)' => CoversRoots(T)) /\ (Covers(T)' => Covers(T))
  BY <1>1 DEF CoversRoots, Covers, IsSource
<1> QED BY <1>1, <1>2 DEF ShutdownInv

LEMMA ShutdownStep == GraphBase /\ ShutdownInv /\ [GraphNext]_sgVars => ShutdownInv'
<1> SUFFICES ASSUME GraphBase, ShutdownInv, [GraphNext]_sgVars PROVE ShutdownInv'
  OBVIOUS
<1>1. CASE UNCHANGED sgVars
  BY <1>1, ShutdownUndisturbed DEF sgVars
<1>2. CASE Descend
  BY <1>2, ShutdownDescend
<1>3. CASE ChildrenEvent
  BY <1>3, ShutdownEvent
<1>4. CASE Forget \/ UpdateFreed \/ Render
  <2>1. /\ file' = file /\ fields' = fields /\ UNCHANGED membership /\ UNCHANGED traversal
        /\ UNCHANGED history /\ broken' \in Faults \ {"left"}
    BY <1>4 DEF Forget, UpdateFreed, Render, Faults
  <2> QED BY <2>1, ShutdownUndisturbed DEF membership, traversal, history
<1> QED BY <1>1, <1>2, <1>3, <1>4 DEF GraphNext

(* A node that still has a scene after scene::shutdown, and may be on a    *)
(* list of the browser that it will be called through, is one that an      *)
(* event took out of the graph or moved while the shutdown was under way   *)
(* (node::shutdown descends once into what the fields refer to then).      *)
THEOREM StrayedNodes == GraphSpec => []OnlyStrayedStay
<1>1. GraphInit => GraphBase /\ ShutdownInv
  BY BaseInit, ShutdownInit
<1>2. GraphBase /\ ShutdownInv /\ [GraphNext]_sgVars => (GraphBase /\ ShutdownInv)'
  BY BaseStep, ShutdownStep
<1>3. ShutdownInv => OnlyStrayedStay
  BY DEF ShutdownInv, OnlyStrayedStay
<1> QED BY <1>1, <1>2, <1>3, PTL DEF GraphSpec

-----------------------------------------------------------------------------
(* The initialization of a scene. *)

\* The calls in progress are past the place j of the node n.
Visited(n, j) == \A i \in DOMAIN calls : calls[i].node = n => calls[i].at > j

\* n is in the scene, or every Viewpoint below it is.
Settled(n) == n \in inScene \/ Reach(fields, {n}) \cap Viewpoints \subseteq inScene

\* The fields of the file come first in the fields of each node.
FileFirst ==
  \A n \in Nodes : /\ Len(file.fields[n]) <= Len(fields[n])
                   /\ \A j \in 1 .. Len(file.fields[n]) : fields[n][j] = file.fields[n][j]

(* What the initialization has passed is in the scene, unless an event put *)
(* it there behind its back; then it is settled, or the event was odd.     *)
Passed ==
  /\ \A k \in 1 .. Len(file.roots) : k < rootAt => file.roots[k] \in inScene
  /\ \A n \in inScene : \A j \in 1 .. Len(file.fields[n]) :
       Visited(n, j) => file.fields[n][j] \in inScene
  /\ "viewpoint" \notin odd =>
       \A n \in inScene : \A j \in 1 .. Len(fields[n]) :
         Visited(n, j) /\ fields[n][j] # NULL => Settled(fields[n][j])

InitializeInv ==
  /\ phase = "loaded" => fields = file.fields
  /\ phase = "initialize" /\ appending => FileFirst /\ Passed
  /\ phase = "up" /\ appending => Reach(file.fields, Roots) \subseteq inScene

LEMMA InitializeInit == GraphInit => InitializeInv
BY DEF GraphInit, InitializeInv

LEMMA NewFrame ==
  ASSUME NEW n, NEW k, k \in DOMAIN calls', calls'[k] = [node |-> n, at |-> 0]
  PROVE  \A j \in Nat \ {0} : ~Visited(n, j)'
<1>1. calls'[k].node = n /\ calls'[k].at = 0
  OBVIOUS
<1>2. \A j \in Nat \ {0} : ~(0 > j)
  OBVIOUS
<1> QED BY <1>1, <1>2 DEF Visited

\* A step of the initialization that leaves the graph alone, passes the place `at` of the node
\* `node`, where it finds the node or NULL that is `here`, and enters those of `new`.
LEMMA PassedOn ==
  ASSUME GraphBase, FileFirst, Passed, fields' = fields, file' = file, odd' = odd,
         NEW new \in SUBSET Nodes, inScene' = inScene \cup new,
         \A k \in 1 .. Len(file.roots) : k < rootAt' => k < rootAt \/ file.roots[k] \in inScene',
         \A n \in new : \A j \in Nat \ {0} : ~Visited(n, j)',
         NEW node \in Nodes, NEW at \in Nat,
         at \in 1 .. Len(fields[node]) => fields[node][at] \in inScene' \cup {NULL},
         \A n \in Nodes : \A j \in 1 .. Len(fields[n]) :
           Visited(n, j)' => Visited(n, j) \/ (n = node /\ j = at)
  PROVE  (FileFirst /\ Passed)'
<1>1. /\ inScene \subseteq Nodes /\ NULL \notin Nodes /\ FieldsOK(fields)
      /\ file.fields \in [Nodes -> Seq(Nodes)]
  BY SceneGraphAssumption, RootsAreNodes DEF GraphBase, GraphTypeOK, FieldsOK
<1>2. FileFirst'
  BY DEF FileFirst
<1>3. \A n \in Nodes : 1 .. Len(file.fields[n]) \subseteq 1 .. Len(fields[n])
  <2>1. ASSUME NEW n \in Nodes PROVE Len(file.fields[n]) \in Nat /\ Len(fields[n]) \in Nat
    BY <1>1, LenProperties DEF FieldsOK
  <2> QED BY <2>1 DEF FileFirst
<1>4. ASSUME NEW k \in 1 .. Len(file.roots), k < rootAt' PROVE file.roots[k] \in inScene'
  BY <1>4 DEF Passed
<1>4a. \A n \in Nodes : 1 .. Len(fields[n]) \subseteq Nat \ {0}
  BY <1>1, LenProperties DEF FieldsOK
<1>5. ASSUME NEW n \in inScene', NEW j \in 1 .. Len(file.fields[n]), Visited(n, j)'
      PROVE  file.fields[n][j] \in inScene'
  <2>1. n \in Nodes /\ j \in 1 .. Len(fields[n]) /\ n \in inScene
    <3>1. n \in Nodes /\ j \in 1 .. Len(fields[n])
      BY <1>1, <1>3
    <3> QED BY <3>1, <1>4a, <1>5
  <2>2. CASE Visited(n, j)
    BY <2>1, <2>2 DEF Passed
  <2>3. CASE n = node /\ j = at
    <3>1. fields[n][j] \in inScene' \cup {NULL} /\ fields[n][j] = file.fields[n][j]
      BY <2>1, <2>3 DEF FileFirst
    <3>2. file.fields[n][j] \in Nodes
      BY <1>1, <2>1, ElementOfSeq
    <3> QED BY <3>1, <3>2, <1>1
  <2> QED BY <1>5, <2>1, <2>2, <2>3
<1>6. ASSUME "viewpoint" \notin odd, NEW n \in inScene', NEW j \in 1 .. Len(fields[n]), Visited(n, j)',
             fields[n][j] # NULL
      PROVE  Settled(fields[n][j])'
  <2>1. n \in Nodes /\ n \in inScene
    <3>1. n \in Nodes
      BY <1>1
    <3> QED BY <3>1, <1>4a, <1>6
  <2>2. CASE Visited(n, j)
    <3>1. Settled(fields[n][j])
      BY <1>6, <2>1, <2>2 DEF Passed
    <3> QED BY <3>1 DEF Settled
  <2>3. CASE n = node /\ j = at
    BY <1>6, <2>3 DEF Settled
  <2> QED BY <1>6, <2>1, <2>2, <2>3
<1>7. Passed'
  BY <1>4, <1>5, <1>6 DEF Passed
<1> QED BY <1>2, <1>7

LEMMA InitializeDescend == GraphBase /\ InitializeInv /\ Descend => InitializeInv'
<1> SUFFICES ASSUME GraphBase, InitializeInv, Descend PROVE InitializeInv'
  OBVIOUS
<1>1. /\ file \in Files /\ broken = "none" /\ appending' = appending /\ odd' = odd
      /\ file' = file /\ fields' = fields /\ Roots' = Roots
      /\ inScene \subseteq Nodes /\ FieldsOK(fields)
  BY DEF GraphBase, GraphTypeOK, Descend, Running, FieldsOK, Roots
<1>2. ASSUME phase = "initialize", phase' = "initialize",
             FileFirst /\ Passed => (FileFirst /\ Passed)'
      PROVE  InitializeInv'
  BY <1>1, <1>2 DEF InitializeInv
<1>3. ASSUME phase = "shutdown", phase' = "shutdown" PROVE InitializeInv'
  BY <1>3 DEF InitializeInv
<1>4. CASE NextRoot
  <2>0. PICK n : n = file.roots[rootAt]
    OBVIOUS
  <2>1. /\ phase \in {"initialize", "shutdown"} /\ phase' = phase /\ rootAt' = rootAt + 1
        /\ calls = << >> /\ rootAt \in 1 .. Len(file.roots) /\ Len(file.roots) \in Nat /\ n \in Nodes
        /\ \/ (n \in inScene) = (phase = "initialize") /\ RootDone(n) /\ calls' = calls /\ inScene' = inScene
           \/ Entered(n)
    BY <1>1, <1>4, <2>0, NextRootShape
  <2>2. CASE phase = "initialize"
    <3>1. \A m \in Nodes : \A j \in 1 .. Len(fields[m]) : Visited(m, j)
      BY <2>1 DEF Visited
    <3>2. PICK new \in SUBSET Nodes :
            /\ inScene' = inScene \cup new /\ n \in inScene \cup new
            /\ \A m \in new : \A j \in Nat \ {0} : ~Visited(m, j)'
      <4>1. CASE (n \in inScene) = (phase = "initialize") /\ inScene' = inScene
        <5>1. inScene' = inScene \cup {} /\ n \in inScene \cup {} /\ {} \in SUBSET Nodes
          BY <4>1, <2>2
        <5> QED BY <5>1
      <4>2. CASE Entered(n)
        <5>1. /\ DOMAIN calls' = 1 .. Len(calls) + 1
              /\ calls'[Len(calls) + 1] = [node |-> n, at |-> 0] /\ inScene' = inScene \cup {n}
          BY <4>2 DEF Entered
        <5>2. Len(calls) = 0
          BY <2>1
        <5>3. 1 \in DOMAIN calls' /\ calls'[1] = [node |-> n, at |-> 0]
          BY <5>1, <5>2
        <5>4. \A j \in Nat \ {0} : ~Visited(n, j)'
          BY <5>3, NewFrame
        <5>5. {n} \in SUBSET Nodes
          BY <2>1
        <5>6. \A m \in {n} : \A j \in Nat \ {0} : ~Visited(m, j)'
          BY <5>4
        <5> QED BY <5>1, <5>5, <5>6
      <4> QED BY <2>1, <4>1, <4>2
    <3>3. \A k \in 1 .. Len(file.roots) : k < rootAt' => k < rootAt \/ file.roots[k] \in inScene'
      <4>1. ASSUME NEW k \in 1 .. Len(file.roots), k < rootAt', ~(k < rootAt) PROVE k = rootAt
        BY <4>1, <2>1
      <4> QED BY <4>1, <3>2, <2>0
    <3>4. 0 \in Nat /\ 0 \notin 1 .. Len(fields[n]) /\ n \in Nodes
      BY <2>1
    <3>5. FileFirst /\ Passed => (FileFirst /\ Passed)'
      BY <1>1, <2>1, <3>1, <3>2, <3>3, <3>4, PassedOn
    <3> QED BY <1>2, <2>1, <2>2, <3>5
  <2> QED BY <2>1, <2>2, <1>3
<1>5. CASE EnterFields
  <2>1. /\ phase \in {"initialize", "shutdown"} /\ phase' = phase /\ rootAt' = rootAt
        /\ Top = calls[Len(calls)] /\ Top.node \in Nodes /\ Top.at = 0
        /\ DOMAIN calls = 1 .. Len(calls) /\ DOMAIN calls' = 1 .. Len(calls)
        /\ \A i \in 1 .. Len(calls) :
             calls'[i] = IF i = Len(calls) THEN [node |-> Top.node, at |-> 1] ELSE calls[i]
        /\ inScene' = IF phase = "initialize" THEN inScene ELSE inScene \ {Top.node}
    BY <1>5, EnterFieldsShape
  <2>2. CASE phase = "initialize"
    <3>1. inScene' = inScene \cup {} /\ {} \in SUBSET Nodes
      BY <2>1, <2>2
    <3>2. ASSUME NEW m \in Nodes, NEW j \in 1 .. Len(fields[m]), Visited(m, j)' PROVE Visited(m, j)
      <4> SUFFICES ASSUME NEW i \in DOMAIN calls, calls[i].node = m PROVE calls[i].at > j
        BY DEF Visited
      <4>0. i \in 1 .. Len(calls) /\ i \in DOMAIN calls'
        BY <2>1
      <4>1. CASE i = Len(calls)
        <5>1. calls'[i] = [node |-> Top.node, at |-> 1] /\ Top.node = m
          BY <4>0, <4>1, <2>1
        <5>2. calls'[i].node = m /\ calls'[i].at = 1
          BY <5>1
        <5>3. 1 > j
          BY <4>0, <5>2, <3>2 DEF Visited
        <5> QED BY <5>3
      <4>2. CASE i # Len(calls)
        <5>1. calls'[i] = calls[i]
          BY <4>0, <4>2, <2>1
        <5> QED BY <4>0, <5>1, <3>2 DEF Visited
      <4> QED BY <4>1, <4>2
    <3>3. 0 \in Nat /\ 0 \notin 1 .. Len(fields[Top.node])
      OBVIOUS
    <3>4. FileFirst /\ Passed => (FileFirst /\ Passed)'
      BY <1>1, <2>1, <3>1, <3>2, <3>3, PassedOn
    <3> QED BY <1>2, <2>1, <2>2, <3>4
  <2> QED BY <2>1, <2>2, <1>3
<1>6. CASE NextField
  <2>0. PICK n : n = fields[Top.node][Top.at]
    OBVIOUS
  <2>1. /\ phase \in {"initialize", "shutdown"} /\ phase' = phase /\ rootAt' = rootAt
        /\ Len(calls) \in Nat \ {0} /\ DOMAIN calls = 1 .. Len(calls)
        /\ Top = calls[Len(calls)] /\ Top.node \in Nodes
        /\ Top.at \in 1 .. Len(fields[Top.node]) /\ Len(fields[Top.node]) \in Nat
        /\ n \in Nodes \cup {NULL}
        /\ \/ Stuck(n)
           \/ /\ Returned(n) \/ Entered(n)
              /\ \A i \in 1 .. Len(calls) :
                   calls'[i] = IF i = Len(calls) THEN [node |-> Top.node, at |-> Top.at + 1]
                                                 ELSE calls[i]
    BY <1>1, <1>6, <2>0, NextFieldShape
  <2>2. CASE phase = "initialize" /\ Stuck(n)
    <3>1. inScene' = inScene \cup {} /\ {} \in SUBSET Nodes /\ calls' = calls
      BY <2>2 DEF Stuck
    <3>2. \A m \in Nodes : \A j \in 1 .. Len(fields[m]) : Visited(m, j)' => Visited(m, j)
      BY <3>1 DEF Visited
    <3>3. 0 \in Nat /\ 0 \notin 1 .. Len(fields[Top.node])
      OBVIOUS
    <3>4. FileFirst /\ Passed => (FileFirst /\ Passed)'
      BY <1>1, <2>1, <3>1, <3>2, <3>3, PassedOn
    <3> QED BY <1>2, <2>1, <2>2, <3>4
  <2>3. CASE /\ phase = "initialize" /\ (Returned(n) \/ Entered(n))
             /\ \A i \in 1 .. Len(calls) :
                   calls'[i] = IF i = Len(calls) THEN [node |-> Top.node, at |-> Top.at + 1]
                                                 ELSE calls[i]
    <3>0. /\ Len(calls) \in Nat \ {0} /\ DOMAIN calls = 1 .. Len(calls) /\ Top = calls[Len(calls)]
          /\ Top.at \in 1 .. Len(fields[Top.node]) /\ Len(fields[Top.node]) \in Nat /\ Top.node \in Nodes
      BY <2>1
    <3>0a. Top.at \in Nat
      BY <3>0
    <3>1. PICK new \in SUBSET Nodes :
            /\ inScene' = inScene \cup new /\ n \in inScene \cup new \cup {NULL}
            /\ \A m \in new : \A j \in Nat \ {0} : ~Visited(m, j)'
            /\ 1 .. Len(calls) \subseteq DOMAIN calls'
      <4>1. CASE Returned(n)
        <5>1. /\ inScene' = inScene \cup {} /\ n \in inScene \cup {} \cup {NULL} /\ {} \in SUBSET Nodes
              /\ DOMAIN calls' = 1 .. Len(calls)
          BY <4>1, <2>3 DEF Returned
        <5> QED BY <5>1
      <4>2. CASE Entered(n)
        <5>1. /\ DOMAIN calls' = 1 .. Len(calls) + 1 /\ n \in Nodes
              /\ calls'[Len(calls) + 1] = [node |-> n, at |-> 0] /\ inScene' = inScene \cup {n}
          BY <4>2 DEF Entered
        <5>2. Len(calls) + 1 \in DOMAIN calls' /\ 1 .. Len(calls) \subseteq DOMAIN calls'
          BY <5>1, <3>0
        <5>3. \A j \in Nat \ {0} : ~Visited(n, j)'
          BY <5>1, <5>2, NewFrame
        <5>4. {n} \in SUBSET Nodes
          BY <5>1
        <5>5. \A m \in {n} : \A j \in Nat \ {0} : ~Visited(m, j)'
          BY <5>3
        <5> QED BY <5>1, <5>2, <5>4, <5>5
      <4> QED BY <2>3, <4>1, <4>2
    <3>2. ASSUME NEW m \in Nodes, NEW j \in 1 .. Len(fields[m]), Visited(m, j)',
                 ~(m = Top.node /\ j = Top.at)
          PROVE  Visited(m, j)
      <4> SUFFICES ASSUME NEW i \in DOMAIN calls, calls[i].node = m PROVE calls[i].at > j
        BY DEF Visited
      <4>0. i \in 1 .. Len(calls) /\ i \in DOMAIN calls'
        BY <3>0, <3>1
      <4>1. CASE i = Len(calls)
        <5>1. calls'[i] = [node |-> Top.node, at |-> Top.at + 1] /\ calls[i] = Top
          BY <4>0, <4>1, <3>0, <2>3
        <5>2. calls'[i].node = m /\ calls'[i].at = Top.at + 1 /\ Top.node = m
          BY <5>1
        <5>3. Top.at + 1 > j /\ Top.at # j
          BY <4>0, <5>2, <3>2 DEF Visited
        <5> QED BY <5>1, <5>3, <3>0a
      <4>2. CASE i # Len(calls)
        <5>1. calls'[i] = calls[i]
          BY <4>0, <4>2, <2>3
        <5> QED BY <4>0, <5>1, <3>2 DEF Visited
      <4> QED BY <4>1, <4>2
    <3>3. Top.at \in Nat /\ Top.node \in Nodes /\ fields[Top.node][Top.at] \in inScene' \cup {NULL}
      BY <2>0, <3>0, <3>0a, <3>1
    <3>4. rootAt' = rootAt
      BY <2>1
    <3>5. FileFirst /\ Passed => (FileFirst /\ Passed)'
      BY <1>1, <3>1, <3>2, <3>3, <3>4, PassedOn
    <3> QED BY <1>2, <2>1, <2>3, <3>5
  <2> QED BY <2>1, <2>2, <2>3, <1>3
<1>7. CASE LeaveNode \/ LeaveRoot
  <2>1. /\ phase \in {"initialize", "shutdown"} /\ phase' = phase /\ rootAt' = rootAt
        /\ Len(calls) \in Nat \ {0} /\ DOMAIN calls = 1 .. Len(calls)
        /\ Top = calls[Len(calls)] /\ Top.node \in Nodes /\ Top.at \in Nat
        /\ Len(fields[Top.node]) \in Nat /\ Top.at > Len(fields[Top.node])
        /\ DOMAIN calls' = 1 .. Len(calls) - 1
        /\ \A i \in 1 .. Len(calls) - 1 : calls'[i] = calls[i]
        /\ inScene' = inScene
    BY <1>7, LeaveShape
  <2>2. CASE phase = "initialize"
    <3>1. inScene' = inScene \cup {} /\ {} \in SUBSET Nodes
      BY <2>1, <2>2
    <3>2. ASSUME NEW m \in Nodes, NEW j \in 1 .. Len(fields[m]), Visited(m, j)' PROVE Visited(m, j)
      <4> SUFFICES ASSUME NEW i \in DOMAIN calls, calls[i].node = m PROVE calls[i].at > j
        BY DEF Visited
      <4>1. CASE i = Len(calls)
        <5>1. calls[i] = Top /\ Top.node = m
          BY <4>1, <2>1
        <5> QED BY <5>1, <2>1
      <4>2. CASE i # Len(calls)
        <5>1. Len(calls) \in Nat /\ i \in 1 .. Len(calls)
          BY <2>1
        <5>2. i \in 1 .. Len(calls) - 1
          BY <5>1, <4>2
        <5>3. calls'[i] = calls[i] /\ i \in DOMAIN calls'
          BY <5>2, <2>1
        <5> QED BY <5>3, <3>2 DEF Visited
      <4> QED BY <4>1, <4>2
    <3>3. 0 \in Nat /\ 0 \notin 1 .. Len(fields[Top.node])
      OBVIOUS
    <3>4. FileFirst /\ Passed => (FileFirst /\ Passed)'
      BY <1>1, <2>1, <3>1, <3>2, <3>3, PassedOn
    <3> QED BY <1>2, <2>1, <2>2, <3>4
  <2> QED BY <2>1, <2>2, <1>3
<1>8. CASE Begin
  <2>1. /\ rootAt' = 1 /\ inScene' = inScene
        /\ \/ phase = "loaded" /\ phase' = "initialize"
           \/ phase = "up" /\ phase' = "shutdown"
    BY <1>8 DEF Begin, membership
  <2>2. CASE phase = "loaded" /\ phase' = "initialize"
    <3>1. inScene' = {} /\ fields = file.fields
      BY <2>1, <2>2 DEF GraphBase, InitializeInv
    <3>2. \A n \in Nodes : Len(fields[n]) \in Nat
      BY <1>1, LenProperties DEF FieldsOK
    <3>3. \A k \in 1 .. Len(file.roots) : ~(k < 1)
      OBVIOUS
    <3> QED BY <1>1, <2>1, <2>2, <3>1, <3>2, <3>3 DEF InitializeInv, FileFirst, Passed
  <2> QED BY <2>1, <2>2 DEF InitializeInv
<1>9. CASE End
  <2>1. /\ calls = << >> /\ inScene' = inScene /\ rootAt > Len(file.roots)
        /\ \/ phase = "initialize" /\ phase' = "up"
           \/ phase = "shutdown" /\ phase' = "down"
    BY <1>9 DEF End, membership, Idle
  <2>2. CASE phase = "initialize" /\ phase' = "up" /\ appending
    <3>1. FileFirst /\ Passed
      BY <2>2 DEF InitializeInv
    <3>2. \A n \in inScene : \A j \in 1 .. Len(file.fields[n]) : file.fields[n][j] \in inScene
      BY <2>1, <3>1 DEF Passed, Visited
    <3>3. Roots \subseteq inScene
      <4>1. \A k \in 1 .. Len(file.roots) : k < rootAt
        BY <1>1, <2>1, RootsAreNodes DEF GraphBase, GraphTypeOK
      <4> QED BY <1>1, <3>1, <4>1, RootsAreNodes DEF Passed
    <3> DEFINE fs == file.fields
    <3>4. FieldsOK(fs) /\ Roots \in SUBSET Nodes /\ inScene \in SUBSET Nodes
      BY <1>1, RootsAreNodes
    <3>5. \A n \in inScene : \A j \in 1 .. Len(fs[n]) : fs[n][j] \in inScene
      BY <3>2
    <3> HIDE DEF fs
    <3>6. Referred(fs, inScene) \subseteq inScene
      BY <3>4, <3>5, ReferredNodes
    <3>7. Reach(fs, Roots) \subseteq inScene
      BY <3>3, <3>4, <3>6, ReachProperties
    <3> QED BY <1>1, <2>1, <2>2, <3>7 DEF InitializeInv, fs
  <2> QED BY <1>1, <2>1, <2>2 DEF InitializeInv
<1>10. CASE Reset
  BY <1>10 DEF Reset, InitializeInv
<1> QED BY <1>4, <1>5, <1>6, <1>7, <1>8, <1>9, <1>10 DEF Descend

\* What appending n to the children of g does.
LEMMA EventAppends ==
  ASSUME GraphBase, phase # "reset", NEW g, NEW c, NEW ok, NEW appends, IsEvent(g, c, ok, appends), appends
  PROVE  \E n \in Nodes : /\ c = Append(fields[g], n) /\ ok = Relocated(n, fields) /\ n \in Range(c)
                          /\ Len(fields[g]) \in Nat /\ Len(c) = Len(fields[g]) + 1
                          /\ \A j \in 1 .. Len(fields[g]) : c[j] = fields[g][j]
<1>1. PICK n \in Known : c = Append(fields[g], n) /\ ok = Relocated(n, fields)
  BY DEF IsEvent
<1>2. n \in Nodes /\ g \in Nodes /\ fields[g] \in Seq(Nodes \cup {NULL}) /\ c \in Seq(Nodes \cup {NULL})
  BY SceneGraphAssumption DEF GraphBase, GraphTypeOK, Known, IsEvent
<1> DEFINE s == fields[g]
           D == Nodes \cup {NULL}
<1>3. s \in Seq(D) /\ n \in D /\ c = Append(s, n) /\ c \in Seq(D)
  BY <1>1, <1>2
<1> HIDE DEF s, D
<1>4. /\ Append(s, n) \in Seq(D) /\ Len(Append(s, n)) = Len(s) + 1
      /\ \A i \in 1 .. Len(s) : Append(s, n)[i] = s[i]
      /\ Append(s, n)[Len(s) + 1] = n
  BY <1>3, AppendProperties
<1>5. Len(s) \in Nat
  BY <1>3, LenProperties
<1>6. Len(s) + 1 \in 1 .. Len(c) /\ c[Len(s) + 1] = n
  BY <1>3, <1>4, <1>5
<1>7. n \in Range(c)
  BY <1>3, <1>6, RangeElements
<1>8. /\ Len(s) \in Nat /\ Len(c) = Len(s) + 1 /\ \A j \in 1 .. Len(s) : c[j] = s[j]
  BY <1>3, <1>4, <1>5
<1>9. /\ Len(fields[g]) \in Nat /\ Len(c) = Len(fields[g]) + 1
      /\ \A j \in 1 .. Len(fields[g]) : c[j] = fields[g][j]
  BY <1>8 DEF s
<1> QED BY <1>1, <1>2, <1>7, <1>9

LEMMA InitializeEvent == GraphBase /\ InitializeInv /\ ChildrenEvent => InitializeInv'
<1> SUFFICES ASSUME GraphBase, InitializeInv, ChildrenEvent PROVE InitializeInv'
  OBVIOUS
<1>1. /\ file' = file /\ Roots' = Roots /\ inScene' = inScene /\ calls' = calls
      /\ phase' = phase /\ rootAt' = rootAt /\ CanSend
  BY DEF ChildrenEvent, membership, traversal, Roots
<1>2. phase \in {"up", "initialize", "shutdown"}
  BY <1>1 DEF CanSend, GraphBase, GraphTypeOK
<1>3. PICK g, c, ok, appends : IsEvent(g, c, ok, appends)
  BY <1>2, EventShape
<1>4. /\ IsChange(fields, g, c, fields') /\ FieldsOK(fields) /\ FieldsOK(fields')
      /\ file \in Files /\ inScene \in SUBSET Nodes /\ NULL \notin Nodes
  BY <1>2, <1>3, EventGraph, SceneGraphAssumption DEF GraphBase, GraphTypeOK
<1>5. /\ appending' = (appending /\ appends) /\ appending \in BOOLEAN /\ appends \in BOOLEAN
      /\ "viewpoint" \notin odd' => "viewpoint" \notin odd /\ Placed(Range(c))
  BY <1>3 DEF IsEvent, Changed, GraphBase, GraphTypeOK
<1>6. CASE phase # "initialize"
  BY <1>1, <1>2, <1>5, <1>6 DEF InitializeInv
<1>7. CASE ~appending'
  BY <1>1, <1>2, <1>7 DEF InitializeInv
<1>8. CASE phase = "initialize" /\ appending'
  <2>1. appends /\ appending /\ FileFirst /\ Passed
    BY <1>5, <1>8 DEF InitializeInv
  <2>2. PICK n \in Nodes : Len(fields[g]) \in Nat /\ Len(c) = Len(fields[g]) + 1
                           /\ \A j \in 1 .. Len(fields[g]) : c[j] = fields[g][j]
    BY <1>2, <1>3, <2>1, EventAppends
  <2> DEFINE fs == fields'
             C == Range(c) \ {NULL}
  <2>3. /\ FieldsOK(fs) /\ g \in Nodes
        /\ fs[g] = c /\ \A m \in Nodes \ {g} : fs[m] = fields[m]
        /\ C \in SUBSET Nodes /\ IsChange(fields, g, c, fs)
    BY <1>4, ChangedFields
  <2>4. FileFirst'
    <3>1. ASSUME NEW m \in Nodes
          PROVE  /\ Len(file.fields[m]) <= Len(fs[m])
                 /\ \A j \in 1 .. Len(file.fields[m]) : fs[m][j] = file.fields[m][j]
      <4>1. Len(file.fields[m]) \in Nat
        BY <1>4, RootsAreNodes, LenProperties
      <4>2. /\ Len(file.fields[m]) <= Len(fields[m])
            /\ \A j \in 1 .. Len(file.fields[m]) : fields[m][j] = file.fields[m][j]
        BY <2>1 DEF FileFirst
      <4>3. CASE m = g
        <5>1. 1 .. Len(file.fields[g]) \subseteq 1 .. Len(fields[g])
          BY <4>1, <4>2, <4>3, <2>2
        <5>2. Len(file.fields[g]) <= Len(c)
          BY <4>1, <4>2, <4>3, <2>2
        <5>3. \A j \in 1 .. Len(file.fields[g]) : c[j] = file.fields[g][j]
          BY <4>2, <4>3, <5>1, <2>2
        <5> QED BY <5>2, <5>3, <4>3, <2>3
      <4>4. CASE m # g
        BY <4>2, <4>4, <2>3
      <4> QED BY <4>3, <4>4
    <3> QED BY <3>1, <1>1 DEF FileFirst
  <2>5. ASSUME "viewpoint" \notin odd', NEW m \in inScene, NEW j \in 1 .. Len(fs[m]), Visited(m, j),
               NEW x, x = fs[m][j], x # NULL
        PROVE  Settled(x)'
    <3>1. /\ Reach(fields, C) \cap Viewpoints \subseteq inScene /\ "viewpoint" \notin odd
      BY <1>5, <2>5 DEF Placed
    <3>3. x \in Nodes
      <4>1. m \in Nodes /\ fs[m] \in Seq(Nodes \cup {NULL})
        BY <1>4, <2>3 DEF FieldsOK
      <4>2. fs[m][j] \in Nodes \cup {NULL}
        BY <4>1, <2>5, ElementOfSeq
      <4> QED BY <4>2, <2>5
    <3>4. {x} \in SUBSET Nodes
      BY <3>3
    <3>5. Reach(fs, {x}) \subseteq Reach(fields, {x}) \cup Reach(fields, C)
      <4>1. Reach(fs, {x}) \subseteq Reach(fields, {x} \cup C)
        <5> HIDE DEF fs
        <5> QED BY <2>3, <3>4, ChangedReach
      <4> HIDE DEF fs, C
      <4>2. Reach(fields, {x} \cup C) \subseteq Reach(fields, {x}) \cup Reach(fields, C)
        BY <1>4, <2>3, <3>4, ReachOfUnion
      <4> QED BY <4>1, <4>2
    <3>6. x \in inScene \/ Reach(fields, {x}) \cap Viewpoints \subseteq inScene
      <4>1. CASE m = g
        <5>1. x \in Range(c)
          <6>1. j \in 1 .. Len(c) /\ c[j] = x /\ c \in Seq(Nodes \cup {NULL})
            BY <4>1, <2>3, <2>5 DEF IsChange
          <6> QED BY <6>1, RangeElements
        <5>2. {x} \subseteq Reach(fields, C)
          <6> HIDE DEF C
          <6>1. C \subseteq Reach(fields, C)
            BY <1>4, <2>3, ReachProperties
          <6>2. x \in C
            BY <5>1, <3>3, <1>4 DEF C
          <6> QED BY <6>1, <6>2
        <5>3. Reach(fields, {x}) \subseteq Reach(fields, C)
          <6> HIDE DEF C
          <6> QED BY <1>4, <2>3, <3>4, <5>2, ReachTransitive
        <5> QED BY <5>3, <3>1
      <4>2. CASE m # g
        <5>1. fs[m] = fields[m]
          BY <4>2, <2>3, <1>4
        <5>1a. j \in 1 .. Len(fields[m]) /\ fields[m][j] = x
          BY <5>1, <2>5
        <5>2. Settled(x)
          BY <5>1a, <2>1, <2>5, <3>1 DEF Passed
        <5> QED BY <5>2 DEF Settled
      <4> QED BY <4>1, <4>2
    <3>7. x \in inScene \/ Reach(fs, {x}) \cap Viewpoints \subseteq inScene
      BY <3>1, <3>5, <3>6
    <3> QED BY <3>7, <1>1 DEF Settled
  <2>6. Passed'
    <3>1. \A m, j : Visited(m, j)' <=> Visited(m, j)
      BY <1>1 DEF Visited
    <3>2. /\ \A k \in 1 .. Len(file'.roots) : k < rootAt' => file'.roots[k] \in inScene'
          /\ \A m \in inScene' : \A j \in 1 .. Len(file'.fields[m]) :
               Visited(m, j)' => file'.fields[m][j] \in inScene'
      BY <1>1, <2>1, <3>1 DEF Passed
    <3>3. ASSUME "viewpoint" \notin odd', NEW m \in inScene', NEW j \in 1 .. Len(fields'[m]),
                 Visited(m, j)', fields'[m][j] # NULL
          PROVE  Settled(fields[m][j])'
      <4>1. PICK x : x = fields'[m][j]
        OBVIOUS
      <4>2. Settled(x)'
        BY <4>1, <1>1, <2>5, <3>1, <3>3
      <4> QED BY <4>1, <4>2 DEF Settled
    <3> QED BY <3>2, <3>3 DEF Passed
  <2> QED BY <1>1, <1>8, <2>4, <2>6 DEF InitializeInv
<1> QED BY <1>5, <1>6, <1>7, <1>8

LEMMA InitializeStep == GraphBase /\ InitializeInv /\ [GraphNext]_sgVars => InitializeInv'
<1> SUFFICES ASSUME GraphBase, InitializeInv, [GraphNext]_sgVars PROVE InitializeInv'
  OBVIOUS
<1>1. CASE UNCHANGED sgVars \/ Forget \/ UpdateFreed \/ Render
  <2>1. /\ file' = file /\ fields' = fields /\ inScene' = inScene /\ calls' = calls /\ rootAt' = rootAt
        /\ phase' = phase /\ odd' = odd /\ appending' = appending
    BY <1>1 DEF sgVars, Forget, UpdateFreed, Render, membership, traversal, history
  <2> QED BY <2>1 DEF InitializeInv, FileFirst, Passed, Visited, Settled, Roots
<1>2. CASE Descend
  BY <1>2, InitializeDescend
<1>3. CASE ChildrenEvent
  BY <1>3, InitializeEvent
<1> QED BY <1>1, <1>2, <1>3 DEF GraphNext

(* scene::initialize descends into every node of the file, although the    *)
(* Scripts that it initializes change the groups it is in the middle of,   *)
(* as long as they only append children: the loop of node::initialize      *)
(* reads the field again for each index and finds what the file had there. *)
THEOREM WholeFileInitialized == GraphSpec => []FileIsInitialized
<1>1. GraphInit => GraphBase /\ InitializeInv
  BY BaseInit, InitializeInit
<1>2. GraphBase /\ InitializeInv /\ [GraphNext]_sgVars => (GraphBase /\ InitializeInv)'
  BY BaseStep, InitializeStep
<1>3. InitializeInv => FileIsInitialized
  BY DEF InitializeInv, FileIsInitialized
<1> QED BY <1>1, <1>2, <1>3, PTL DEF GraphSpec

-----------------------------------------------------------------------------
(* The causes of faults. *)

\* The calls in progress stay, or the innermost returns.
KeepsCalls ==
  /\ DOMAIN calls' \subseteq DOMAIN calls
  /\ \A i \in DOMAIN calls' : calls'[i].node = calls[i].node
  /\ inScene' \subseteq inScene
  /\ phase' = "initialize" => inScene' = inScene

\* A call is added: of a node of the scene, or of one that the innermost call found.
AddsCall(n) ==
  /\ Entered(n) /\ phase' = phase
  /\ Len(calls) \in Nat /\ DOMAIN calls = 1 .. Len(calls)
  /\ \A i \in 1 .. Len(calls) : calls'[i].node = calls[i].node
  /\ \/ calls = << >> /\ n \in Roots
     \/ Len(calls) \in DOMAIN calls /\ n \in Referred(fields, {calls[Len(calls)].node})

LEMMA DescendCalls ==
  ASSUME GraphBase, Descend
  PROVE  KeepsCalls \/ \E n : AddsCall(n)
<1>1. /\ file \in Files /\ broken = "none" /\ NULL \notin Nodes /\ FieldsOK(fields)
  BY SceneGraphAssumption DEF GraphBase, GraphTypeOK, Descend, Running, FieldsOK
<1>2. CASE NextRoot
  <2>0. PICK n : n = file.roots[rootAt]
    OBVIOUS
  <2>1. /\ phase' = phase /\ phase \in {"initialize", "shutdown"}
        /\ calls = << >> /\ rootAt \in 1 .. Len(file.roots) /\ n \in Nodes
        /\ \/ (n \in inScene) = (phase = "initialize") /\ RootDone(n) /\ calls' = calls /\ inScene' = inScene
           \/ Entered(n)
    BY <1>1, <1>2, <2>0, NextRootShape
  <2>2. CASE calls' = calls /\ inScene' = inScene
    BY <2>2 DEF KeepsCalls
  <2>3. CASE Entered(n)
    <3>1. n \in Roots
      BY <1>1, <2>0, <2>1, RootsAreNodes
    <3>2. Len(calls) = 0 /\ DOMAIN calls = 1 .. 0 /\ 1 .. 0 = {}
      BY <2>1
    <3> QED BY <2>1, <2>3, <3>1, <3>2 DEF AddsCall
  <2> QED BY <2>1, <2>2, <2>3
<1>3. CASE EnterFields
  <2>1. /\ phase' = phase
        /\ Top = calls[Len(calls)]
        /\ DOMAIN calls = 1 .. Len(calls) /\ DOMAIN calls' = 1 .. Len(calls)
        /\ \A i \in 1 .. Len(calls) :
             calls'[i] = IF i = Len(calls) THEN [node |-> Top.node, at |-> 1] ELSE calls[i]
        /\ inScene' = IF phase = "initialize" THEN inScene ELSE inScene \ {Top.node}
    BY <1>3, EnterFieldsShape
  <2>a. \A i \in 1 .. Len(calls) :
             calls'[i] = IF i = Len(calls) THEN [node |-> Top.node, at |-> 1] ELSE calls[i]
    BY <2>1
  <2>b. Top = calls[Len(calls)]
    BY <2>1
  <2>2. ASSUME NEW i \in 1 .. Len(calls) PROVE calls'[i].node = calls[i].node
    <3>1. CASE i = Len(calls)
      <4>1. calls'[i] = [node |-> Top.node, at |-> 1]
        BY <2>a, <3>1
      <4> QED BY <4>1, <2>b, <3>1
    <3>2. CASE i # Len(calls)
      BY <2>a, <3>2
    <3> QED BY <3>1, <3>2
  <2>3. inScene' \subseteq inScene /\ (phase' = "initialize" => inScene' = inScene)
    BY <2>1
  <2>4. DOMAIN calls = 1 .. Len(calls) /\ DOMAIN calls' = 1 .. Len(calls)
    BY <2>1
  <2> QED BY <2>2, <2>3, <2>4 DEF KeepsCalls
<1>4. CASE NextField
  <2>0. PICK n : n = fields[Top.node][Top.at]
    OBVIOUS
  <2>1. /\ phase' = phase
        /\ Len(calls) \in Nat \ {0} /\ DOMAIN calls = 1 .. Len(calls)
        /\ Top = calls[Len(calls)] /\ Top.node \in Nodes
        /\ Top.at \in 1 .. Len(fields[Top.node])
        /\ \/ Stuck(n)
           \/ /\ Returned(n) \/ Entered(n)
              /\ \A i \in 1 .. Len(calls) :
                   calls'[i] = IF i = Len(calls) THEN [node |-> Top.node, at |-> Top.at + 1]
                                                 ELSE calls[i]
    BY <1>1, <1>4, <2>0, NextFieldShape
  <2>2. CASE Stuck(n)
    BY <2>2 DEF Stuck, KeepsCalls
  <2>3. CASE ~Stuck(n)
    <3>a. \A i \in 1 .. Len(calls) :
            calls'[i] = IF i = Len(calls) THEN [node |-> Top.node, at |-> Top.at + 1] ELSE calls[i]
      BY <2>1, <2>3
    <3>b. Top = calls[Len(calls)]
      BY <2>1
    <3>1. ASSUME NEW i \in 1 .. Len(calls) PROVE calls'[i].node = calls[i].node
      <4>1. CASE i = Len(calls)
        <5>1. calls'[i] = [node |-> Top.node, at |-> Top.at + 1]
          BY <3>a, <4>1
        <5> QED BY <5>1, <3>b, <4>1
      <4>2. CASE i # Len(calls)
        BY <3>a, <4>2
      <4> QED BY <4>1, <4>2
    <3>2. Len(calls) \in Nat \ {0} /\ DOMAIN calls = 1 .. Len(calls)
      BY <2>1
    <3>3. CASE Returned(n)
      BY <3>1, <3>2, <3>3 DEF Returned, KeepsCalls
    <3>4. CASE Entered(n)
      <4>1. n # NULL
        BY <1>1, <3>4 DEF Entered
      <4>2. n \in Referred(fields, {Top.node})
        <5>1. {Top.node} \in SUBSET Nodes /\ \E m \in {Top.node} : \E j \in 1 .. Len(fields[m]) : fields[m][j] = n
          BY <2>0, <2>1
        <5> QED BY <1>1, <4>1, <5>1, ReferredNodes
      <4>3. n \in Referred(fields, {calls[Len(calls)].node})
        BY <2>1, <4>2
      <4>4. Len(calls) \in DOMAIN calls /\ Len(calls) \in Nat
        BY <3>2
      <4>5. phase' = phase
        BY <2>1
      <4> QED BY <3>1, <3>2, <3>4, <4>3, <4>4, <4>5 DEF AddsCall
    <3> QED BY <2>1, <2>3, <3>3, <3>4
  <2> QED BY <2>2, <2>3
<1>5. CASE LeaveNode \/ LeaveRoot
  <2>1. /\ Len(calls) \in Nat \ {0} /\ DOMAIN calls = 1 .. Len(calls)
        /\ DOMAIN calls' = 1 .. Len(calls) - 1
        /\ \A i \in 1 .. Len(calls) - 1 : calls'[i] = calls[i]
        /\ inScene' = inScene
    BY <1>5, LeaveShape
  <2>2. 1 .. Len(calls) - 1 \subseteq 1 .. Len(calls)
    BY <2>1
  <2> QED BY <2>1, <2>2 DEF KeepsCalls
<1>6. CASE Begin \/ End \/ Reset
  <2>1. calls' = calls /\ inScene' = inScene
    BY <1>6 DEF Begin, End, Reset, membership
  <2> QED BY <2>1 DEF KeepsCalls
<1> QED BY <1>2, <1>3, <1>4, <1>5, <1>6 DEF Descend

(* The calls in progress follow the graph as long as events only append,   *)
(* the first is of a node of the scene, and initialize has put its nodes   *)
(* into the scene.                                                         *)
CallsInv ==
  /\ 1 \in DOMAIN calls => calls[1].node \in Roots
  /\ phase = "initialize" => InProgress \subseteq inScene
  /\ appending => \A i \in DOMAIN calls : \A j \in DOMAIN calls :
                    i <= j => calls[j].node \in Reach(fields, {calls[i].node})
  /\ strayed = {} => inScene \cup InProgress \subseteq InGraph(fields)

LEMMA CallsInit == GraphInit => CallsInv
BY DEF GraphInit, CallsInv, InProgress

LEMMA CallsDescend == GraphBase /\ CallsInv /\ Descend => CallsInv'
<1> SUFFICES ASSUME GraphBase, CallsInv, Descend PROVE CallsInv'
  OBVIOUS
<1>1. /\ appending' = appending /\ file' = file /\ fields' = fields /\ Roots' = Roots
      /\ strayed \subseteq strayed'
      /\ phase' = "initialize" => phase \in {"initialize", "loaded"}
      /\ file \in Files /\ FieldsOK(fields) /\ NULL \notin Nodes
      /\ phase = "loaded" => calls = << >>
  BY SceneGraphAssumption
  DEF GraphBase, GraphTypeOK, FieldsOK, Descend, Roots, End, NextRoot, EnterFields, NextField,
      LeaveNode, LeaveRoot, Begin, Reset, Idle
<1>2. InGraph(fields') = InGraph(fields)' /\ InGraph(fields)' = InGraph(fields)
  BY <1>1 DEF InGraph
<1>2a. strayed' = {} => inScene \cup InProgress \subseteq InGraph(fields)
  <2>1. strayed \subseteq strayed'
    BY <1>1
  <2>2. strayed' = {} => strayed = {}
    BY <2>1
  <2> QED BY <2>2 DEF CallsInv
<1>3. CASE KeepsCalls
  <2>1. InProgress' \subseteq InProgress
    BY <1>3 DEF KeepsCalls, InProgress
  <2>2. (1 \in DOMAIN calls => calls[1].node \in Roots)'
    BY <1>1, <1>3 DEF KeepsCalls, CallsInv
  <2>3. (phase = "initialize" => InProgress \subseteq inScene)'
    <3>1. ASSUME phase = "loaded" PROVE InProgress' \subseteq inScene'
      <4>1. InProgress = {}
        BY <1>1, <3>1 DEF InProgress
      <4> QED BY <2>1, <4>1
    <3>2. ASSUME phase = "initialize", phase' = "initialize" PROVE InProgress' \subseteq inScene'
      <4>1. InProgress \subseteq inScene /\ inScene' = inScene
        BY <1>3, <3>2 DEF KeepsCalls, CallsInv
      <4> QED BY <2>1, <4>1
    <3> QED BY <1>1, <3>1, <3>2
  <2>4. ASSUME appending', NEW i \in DOMAIN calls', NEW j \in DOMAIN calls', i <= j
        PROVE  calls'[j].node \in Reach(fields', {calls'[i].node})
    BY <1>1, <1>3, <2>4 DEF KeepsCalls, CallsInv
  <2>5. (strayed = {} => inScene \cup InProgress \subseteq InGraph(fields))'
    BY <1>2, <1>2a, <1>3, <2>1 DEF KeepsCalls
  <2> QED BY <2>2, <2>3, <2>4, <2>5 DEF CallsInv
<1>4. ASSUME NEW n, AddsCall(n) PROVE CallsInv'
  <2>1. /\ n \in Nodes /\ phase' = phase
        /\ DOMAIN calls' = 1 .. Len(calls) + 1
        /\ calls'[Len(calls) + 1] = [node |-> n, at |-> 0]
        /\ inScene' = inScene \cup {n}
    BY <1>4 DEF AddsCall, Entered
  <2>2. /\ Len(calls) \in Nat /\ DOMAIN calls = 1 .. Len(calls)
        /\ \A i \in 1 .. Len(calls) : calls'[i].node = calls[i].node
        /\ \/ calls = << >> /\ n \in Roots
           \/ Len(calls) \in DOMAIN calls /\ n \in Referred(fields, {calls[Len(calls)].node})
    BY <1>4 DEF AddsCall
  <2>3. calls'[Len(calls) + 1].node = n
    BY <2>1
  <2>4. \A i \in 1 .. Len(calls) + 1 : i \in 1 .. Len(calls) \/ i = Len(calls) + 1
    BY <2>2
  <2>5. InProgress' \subseteq InProgress \cup {n}
    BY <2>1, <2>2, <2>3, <2>4 DEF InProgress
  <2>6. (1 \in DOMAIN calls => calls[1].node \in Roots)'
    <3>1. CASE calls = << >> /\ n \in Roots
      <4>1. Len(calls) = 0
        BY <3>1
      <4>2. Len(calls) + 1 = 1
        BY <4>1
      <4> QED BY <4>2, <2>3, <3>1, <1>1
    <3>2. CASE Len(calls) \in DOMAIN calls
      <4>1. 1 \in 1 .. Len(calls)
        BY <2>2, <3>2
      <4>2. calls'[1].node = calls[1].node /\ 1 \in DOMAIN calls
        BY <2>2, <4>1
      <4> QED BY <4>2, <1>1 DEF CallsInv
    <3> QED BY <2>2, <3>1, <3>2
  <2>7. (phase = "initialize" => InProgress \subseteq inScene)'
    BY <2>1, <2>5 DEF CallsInv
  <2>8. ASSUME appending', NEW i \in DOMAIN calls', NEW j \in DOMAIN calls', i <= j
        PROVE  calls'[j].node \in Reach(fields', {calls'[i].node})
    <3>1. CASE j \in 1 .. Len(calls)
      <4>1. i \in 1 .. Len(calls)
        BY <2>1, <2>2, <2>8, <3>1
      <4>2. calls'[i].node = calls[i].node /\ calls'[j].node = calls[j].node
            /\ i \in DOMAIN calls /\ j \in DOMAIN calls
        BY <2>2, <3>1, <4>1
      <4> QED BY <4>2, <1>1, <2>8 DEF CallsInv
    <3>2. CASE j = Len(calls) + 1
      <4>1. CASE i = Len(calls) + 1
        <5>1. {n} \in SUBSET Nodes
          BY <2>1
        <5>2. n \in Reach(fields, {n})
          BY <1>1, <5>1, ReachProperties
        <5> QED BY <1>1, <2>3, <3>2, <4>1, <5>2
      <4>2. CASE i \in 1 .. Len(calls)
        <5>1. Len(calls) \in DOMAIN calls /\ n \in Referred(fields, {calls[Len(calls)].node})
              /\ i \in DOMAIN calls /\ calls'[i].node = calls[i].node /\ i <= Len(calls)
          <6>1. calls # << >>
            BY <2>2, <4>2
          <6> QED BY <2>2, <4>2, <6>1
        <5>2. calls[Len(calls)].node \in Reach(fields, {calls[i].node})
          BY <1>1, <2>8, <5>1 DEF CallsInv
        <5>3. calls[i].node \in Nodes
          <6>1. GraphTypeOK /\ ~Idle
            BY <5>1 DEF GraphBase, Idle
          <6> QED BY <4>2, <6>1, TopFrame
        <5> DEFINE R == Reach(fields, {calls[i].node})
        <5>4. {calls[i].node} \in SUBSET Nodes
          BY <5>3
        <5>5. Referred(fields, R) \subseteq R
          BY <1>1, <5>4, ReachProperties
        <5>6. {calls[Len(calls)].node} \subseteq R
          BY <5>2
        <5> HIDE DEF R
        <5>7. n \in R
          BY <5>1, <5>5, <5>6, ReferredGrows
        <5> QED BY <1>1, <2>3, <3>2, <5>1, <5>7 DEF R
      <4> QED BY <2>1, <2>4, <4>1, <4>2
    <3> QED BY <2>1, <2>4, <3>1, <3>2
  <2>9. ASSUME strayed' = {} PROVE inScene' \cup InProgress' \subseteq InGraph(fields')
    <3>1. inScene \cup InProgress \subseteq InGraph(fields)
      BY <1>2a, <2>9
    <3>2. /\ Roots \subseteq InGraph(fields)
          /\ Referred(fields, InGraph(fields)) \subseteq InGraph(fields)
      BY <1>1, RootsAreNodes, ReachProperties DEF InGraph
    <3>3. n \in InGraph(fields)
      <4>1. CASE n \in Roots
        BY <3>2, <4>1
      <4>2. CASE Len(calls) \in DOMAIN calls /\ n \in Referred(fields, {calls[Len(calls)].node})
        <5>1. {calls[Len(calls)].node} \subseteq InGraph(fields)
          BY <3>1, <4>2 DEF InProgress
        <5> QED BY <5>1, <3>2, <4>2, ReferredGrows
      <4> QED BY <2>2, <4>1, <4>2
    <3> QED BY <1>1, <1>2, <2>1, <2>5, <3>1, <3>3
  <2> QED BY <1>1, <1>2, <2>6, <2>7, <2>8, <2>9 DEF CallsInv
<1> QED BY <1>3, <1>4, DescendCalls

\* What is referred to still is, when the children of g become c and those that are not are in lost.
LEMMA ReferredKept ==
  ASSUME NEW g, NEW c, NEW fs, IsChange(fields, g, c, fs), NEW lost,
         \A j \in 1 .. Len(fields[g]) :
           \/ fields[g][j] \in lost \cup {NULL}
           \/ \E k \in 1 .. Len(c) : c[k] = fields[g][j],
         NEW U \in SUBSET Nodes
  PROVE  Referred(fields, U) \ lost \subseteq Referred(fs, U)
<1>1. /\ FieldsOK(fields) /\ FieldsOK(fs) /\ g \in Nodes
      /\ fs[g] = c /\ \A n \in Nodes \ {g} : fs[n] = fields[n]
  BY ChangedFields
<1>2. ASSUME NEW m \in Referred(fields, U), m \notin lost PROVE m \in Referred(fs, U)
  <2>1. PICK x \in U : \E j \in 1 .. Len(fields[x]) : fields[x][j] = m
    BY <1>1, ReferredNodes
  <2>2. PICK j \in 1 .. Len(fields[x]) : fields[x][j] = m
    BY <2>1
  <2>3. m # NULL
    BY <1>1, ReferredNodes
  <2>4. \E k \in 1 .. Len(fs[x]) : fs[x][k] = m
    <3>1. CASE x = g
      BY <3>1, <1>1, <1>2, <2>2, <2>3
    <3>2. CASE x # g
      <4>1. fs[x] = fields[x]
        BY <3>2, <1>1
      <4> QED BY <4>1, <2>2
    <3> QED BY <3>1, <3>2
  <2> QED BY <2>3, <2>4, <1>1, ReferredNodes
<1> QED BY <1>2

(* An event that appends keeps what a node leads to; one that detaches     *)
(* nothing, and moves nothing in shutdown, keeps the scene in the graph.   *)
LEMMA EventKeeps ==
  ASSUME GraphBase, NEW g, NEW c, NEW ok, NEW appends, IsEvent(g, c, ok, appends),
         phase \in {"initialize", "up", "shutdown"}
  PROVE  /\ appends => \A S \in SUBSET Nodes : Reach(fields, S) \subseteq Reach(fields', S)
         /\ strayed' = {} => inScene \subseteq InGraph(fields')
         /\ strayed' = {} /\ phase = "shutdown" => InGraph(fields) \subseteq InGraph(fields')
<1> DEFINE S == (Range(fields[g]) \cup Range(c)) \ {NULL}
           fs == fields'
<1>1. /\ IsChange(fields, g, c, fs) /\ FieldsOK(fields) /\ FieldsOK(fs)
      /\ file \in Files /\ inScene \in SUBSET Nodes /\ NULL \notin Nodes /\ Roots \in SUBSET Nodes
  BY EventGraph, SceneGraphAssumption, RootsAreNodes DEF GraphBase, GraphTypeOK
<1>2. /\ phase # "shutdown" => inScene \ (IF phase = "up" THEN Attached(fs) ELSE InGraph(fs)) \subseteq strayed'
      /\ phase = "shutdown" => inScene \ InGraph(fs) \subseteq strayed' /\ Reach(fs, S) \subseteq strayed'
  BY DEF IsEvent, Changed
<1>3. /\ g \in Nodes /\ Range(c) \ {NULL} \in SUBSET Nodes
      /\ fields[g] \in Seq(Nodes \cup {NULL})
  BY <1>1, ChangedFields DEF FieldsOK
<1> HIDE DEF fs
<1>4. Attached(fs) \subseteq InGraph(fs)
  BY <1>1, AttachedInGraph
<1>5. ASSUME appends, NEW T \in SUBSET Nodes PROVE Reach(fields, T) \subseteq Reach(fs, T)
  <2>1. PICK n \in Nodes : /\ Len(fields[g]) \in Nat /\ Len(c) = Len(fields[g]) + 1
                           /\ \A j \in 1 .. Len(fields[g]) : c[j] = fields[g][j]
    BY <1>5, EventAppends
  <2>2. \A j \in 1 .. Len(fields[g]) :
          \/ fields[g][j] \in {} \cup {NULL}
          \/ \E k \in 1 .. Len(c) : c[k] = fields[g][j]
    <3>1. 1 .. Len(fields[g]) \subseteq 1 .. Len(c)
      BY <2>1
    <3> QED BY <2>1, <3>1
  <2>3. ASSUME NEW U \in SUBSET Nodes PROVE Referred(fields, U) \subseteq Referred(fs, U)
    <3>1. Referred(fields, U) \ {} \subseteq Referred(fs, U)
      BY <1>1, <2>2, ReferredKept
    <3> QED BY <3>1
  <2>4. T \in SUBSET T
    OBVIOUS
  <2> QED BY <1>1, <2>3, <2>4, ReachGrows
<1>6. ASSUME strayed' = {} PROVE inScene \subseteq InGraph(fs)
  BY <1>2, <1>4, <1>6
<1>7. ASSUME strayed' = {}, phase = "shutdown" PROVE InGraph(fields) \subseteq InGraph(fs)
  <2>1. Range(fields[g]) \subseteq Nodes \cup {NULL} /\ \A j \in 1 .. Len(fields[g]) : fields[g][j] \in Range(fields[g])
    <3> DEFINE s == fields[g]
               D == Nodes \cup {NULL}
    <3>1. s \in Seq(D)
      BY <1>3
    <3> HIDE DEF s, D
    <3>2. Range(s) \subseteq D /\ \A j \in 1 .. Len(s) : s[j] \in Range(s)
      BY <3>1, RangeElements
    <3> QED BY <3>2 DEF s, D
  <2>2. S \in SUBSET Nodes /\ Reach(fs, S) = {}
    BY <1>2, <1>3, <1>7, <2>1
  <2>3. S = {}
    <3> HIDE DEF S
    <3> QED BY <1>1, <2>2, ReachProperties
  <2>4. \A j \in 1 .. Len(fields[g]) :
          \/ fields[g][j] \in {} \cup {NULL}
          \/ \E k \in 1 .. Len(c) : c[k] = fields[g][j]
    BY <2>1, <2>3
  <2>5. ASSUME NEW U \in SUBSET Nodes PROVE Referred(fields, U) \subseteq Referred(fs, U)
    <3>1. Referred(fields, U) \ {} \subseteq Referred(fs, U)
      BY <1>1, <2>4, ReferredKept
    <3> QED BY <3>1
  <2>6. Roots \in SUBSET Roots
    OBVIOUS
  <2> QED BY <1>1, <2>5, <2>6, ReachGrows DEF InGraph
<1> QED BY <1>5, <1>6, <1>7 DEF fs

LEMMA CallsEvent == GraphBase /\ CallsInv /\ ChildrenEvent => CallsInv'
<1> SUFFICES ASSUME GraphBase, CallsInv, ChildrenEvent PROVE CallsInv'
  OBVIOUS
<1>1. /\ file' = file /\ Roots' = Roots /\ inScene' = inScene /\ calls' = calls
      /\ phase' = phase /\ CanSend /\ InProgress' = InProgress
  BY DEF ChildrenEvent, membership, traversal, Roots, InProgress
<1>2. phase \in {"up", "initialize", "shutdown"}
  BY <1>1 DEF CanSend, GraphBase, GraphTypeOK
<1>3. PICK g, c, ok, appends : IsEvent(g, c, ok, appends)
  BY <1>2, EventShape
<1>4. /\ appends => \A S \in SUBSET Nodes : Reach(fields, S) \subseteq Reach(fields', S)
      /\ strayed' = {} => inScene \subseteq InGraph(fields')
      /\ strayed' = {} /\ phase = "shutdown" => InGraph(fields) \subseteq InGraph(fields')
  BY <1>2, <1>3, EventKeeps
<1>5. /\ appending' => appending /\ appends
      /\ strayed' = {} => strayed = {}
  BY <1>3 DEF IsEvent, Changed
<1>6. ASSUME appending', NEW i \in DOMAIN calls, NEW j \in DOMAIN calls, i <= j
      PROVE  calls[j].node \in Reach(fields', {calls[i].node})
  <2>1. GraphTypeOK /\ ~Idle
    BY <1>6 DEF GraphBase, Idle
  <2>2. {calls[i].node} \in SUBSET Nodes
    BY <1>6, <2>1, TopFrame
  <2>3. calls[j].node \in Reach(fields, {calls[i].node})
    BY <1>5, <1>6 DEF CallsInv
  <2> QED BY <1>4, <1>5, <1>6, <2>2, <2>3
<1>7. ASSUME strayed' = {} PROVE inScene \cup InProgress \subseteq InGraph(fields')
  <2>1. inScene \cup InProgress \subseteq InGraph(fields)
    BY <1>5, <1>7 DEF CallsInv
  <2>2. CASE phase = "up"
    <3>1. InProgress = {}
      BY <2>2 DEF GraphBase, Idle, InProgress
    <3> QED BY <3>1, <1>4, <1>7
  <2>3. CASE phase = "initialize"
    BY <2>3, <1>4, <1>7 DEF CallsInv
  <2>4. CASE phase = "shutdown"
    BY <2>1, <2>4, <1>4, <1>7
  <2> QED BY <1>2, <2>2, <2>3, <2>4
<1>8. InGraph(fields)' = InGraph(fields')
  BY <1>1 DEF InGraph
<1> QED BY <1>1, <1>6, <1>7, <1>8 DEF CallsInv

LEMMA CallsStep == GraphBase /\ CallsInv /\ [GraphNext]_sgVars => CallsInv'
<1> SUFFICES ASSUME GraphBase, CallsInv, [GraphNext]_sgVars PROVE CallsInv'
  OBVIOUS
<1>1. CASE UNCHANGED sgVars \/ Forget \/ UpdateFreed \/ Render
  <2>1. /\ file' = file /\ fields' = fields /\ inScene' = inScene /\ calls' = calls
        /\ phase' = phase /\ strayed' = strayed /\ appending' = appending
    BY <1>1 DEF sgVars, Forget, UpdateFreed, Render, membership, traversal, history
  <2>2. InProgress' = InProgress /\ Roots' = Roots /\ InGraph(fields)' = InGraph(fields)
    BY <2>1 DEF InProgress, Roots, InGraph
  <2> QED BY <2>1, <2>2 DEF CallsInv
<1>2. CASE Descend
  BY <1>2, CallsDescend
<1>3. CASE ChildrenEvent
  BY <1>3, CallsEvent
<1> QED BY <1>1, <1>2, <1>3 DEF GraphNext

\* A cycle, or a NULL in a field, is one that an event or the file put there.
OddInv ==
  /\ HasCycle(fields) => "cycle" \in odd
  /\ (\E n \in Nodes : \E j \in 1 .. Len(fields[n]) : fields[n][j] = NULL) => "null" \in odd

LEMMA OddInit == GraphInit => OddInv
<1> SUFFICES ASSUME GraphInit PROVE OddInv
  OBVIOUS
<1>1. file \in Files /\ fields = file.fields /\ odd = IF HasCycle(fields) THEN {"cycle"} ELSE {}
  BY DEF GraphInit
<1>2. file.fields \in [Nodes -> Seq(Nodes)] /\ NULL \notin Nodes
  BY SceneGraphAssumption, <1>1
<1>3. ASSUME NEW n \in Nodes, NEW j \in 1 .. Len(fields[n]) PROVE fields[n][j] # NULL
  <2>1. fields[n] \in Seq(Nodes)
    BY <1>1, <1>2
  <2> QED BY <1>2, <2>1, ElementOfSeq
<1> QED BY <1>1, <1>3 DEF OddInv

LEMMA OddStep == GraphBase /\ OddInv /\ [GraphNext]_sgVars => OddInv'
<1> SUFFICES ASSUME GraphBase, OddInv, [GraphNext]_sgVars PROVE OddInv'
  OBVIOUS
<1>1. CASE UNCHANGED sgVars \/ Descend \/ Forget \/ UpdateFreed \/ Render
  <2>1. fields' = fields /\ odd' = odd
    BY <1>1 DEF sgVars, Descend, Forget, UpdateFreed, Render, history
  <2> QED BY <2>1 DEF OddInv, HasCycle
<1>2. CASE ChildrenEvent
  <2>1. phase # "reset"
    BY <1>2 DEF ChildrenEvent, CanSend, GraphBase
  <2>2. PICK g, c, ok, appends : IsEvent(g, c, ok, appends)
    BY <1>2, <2>1, EventShape
  <2>3. /\ odd \subseteq odd'
        /\ NULL \in Range(c) => "null" \in odd'
        /\ HasCycle(fields') => "cycle" \in odd'
    BY <2>2 DEF IsEvent, Changed
  <2>4. IsChange(fields, g, c, fields') /\ c \in Seq(Nodes \cup {NULL})
    BY <2>1, <2>2, EventGraph DEF IsEvent
  <2> DEFINE fs == fields'
  <2>5. g \in Nodes /\ fs[g] = c /\ \A n \in Nodes \ {g} : fs[n] = fields[n]
    <3> HIDE DEF fs
    <3> QED BY <2>4, ChangedFields DEF fs
  <2>6. ASSUME NEW n \in Nodes, NEW j \in 1 .. Len(fs[n]), fs[n][j] = NULL PROVE "null" \in odd'
    <3>1. CASE n = g
      <4>1. j \in 1 .. Len(c) /\ c[j] = NULL
        BY <2>5, <2>6, <3>1
      <4>2. NULL \in Range(c)
        BY <2>4, <4>1, RangeElements
      <4> QED BY <2>3, <4>2
    <3>2. CASE n # g
      <4>1. fs[n] = fields[n]
        BY <2>5, <3>2
      <4> QED BY <2>3, <2>6, <4>1 DEF OddInv
    <3> QED BY <3>1, <3>2
  <2>7. HasCycle(fields)' => "cycle" \in odd'
    BY <2>3 DEF HasCycle
  <2> QED BY <2>6, <2>7 DEF OddInv
<1> QED BY <1>1, <1>2 DEF GraphNext

-----------------------------------------------------------------------------
(* Rendering. *)

\* What Modified folds, its parts by name.
Asking == Nodes \cup {NULL}
ChildrenAnswer(g, answer) ==
  LET found == {k \in DOMAIN fields[g] : answer[fields[g][k]] # "clean"}
  IN IF found = {} THEN "clean" ELSE answer[fields[g][Min(found)]]
OwnAnswers ==
  [n \in Asking |-> IF n = NULL THEN "null"
                    ELSE IF n \in flagged THEN "modified"
                    ELSE IF n \in Groups THEN "overflow" ELSE "clean"]
Asked ==
  [answer \in [Asking -> Answers] |->
     [n \in Asking |-> IF OwnAnswers[n] = "overflow" THEN ChildrenAnswer(n, answer) ELSE OwnAnswers[n]]]

LEMMA ModifiedIsAsked == Modified = Closure(Asked, OwnAnswers)
<1>1. DOMAIN OwnAnswers = Asking
  BY DEF OwnAnswers
<1> QED BY <1>1 DEF Modified, Asked, OwnAnswers, ChildrenAnswer, Asking

\* The answer of the children of g is that of one of them, or clean.
LEMMA ChildAnswers ==
  ASSUME FieldsOK(fields), NEW g \in Nodes, NEW a \in [Asking -> Answers]
  PROVE  /\ ChildrenAnswer(g, a) \in Answers
         /\ \/ ChildrenAnswer(g, a) = "clean"
            \/ \E k \in 1 .. Len(fields[g]) :
                 fields[g][k] \in Asking /\ ChildrenAnswer(g, a) = a[fields[g][k]]
<1> DEFINE found == {k \in DOMAIN fields[g] : a[fields[g][k]] # "clean"}
<1>1. fields[g] \in Seq(Asking)
  BY DEF FieldsOK, Asking
<1>2. DOMAIN fields[g] = 1 .. Len(fields[g]) /\ \A k \in 1 .. Len(fields[g]) : fields[g][k] \in Asking
  BY <1>1, LenProperties, ElementOfSeq
<1>3. CASE found = {}
  BY <1>3 DEF ChildrenAnswer, Answers
<1>4. CASE found # {}
  <2>1. Min(found) \in found
    <3>1. found \subseteq Nat
      <4>1. 1 .. Len(fields[g]) \subseteq Nat
        BY <1>1, LenProperties
      <4> QED BY <4>1, <1>2
    <3> HIDE DEF found
    <3>2. \E x \in found : \A y \in found : x <= y
      BY <3>1, <1>4, LeastElement
    <3> QED BY <3>2 DEF Min
  <2>2. ChildrenAnswer(g, a) = a[fields[g][Min(found)]]
    BY <1>4 DEF ChildrenAnswer
  <2>3. Min(found) \in 1 .. Len(fields[g])
    BY <2>1, <1>2
  <2> QED BY <2>2, <2>3, <1>2
<1> QED BY <1>3, <1>4

LEMMA AskedTypes ==
  ASSUME FieldsOK(fields)
  PROVE  /\ OwnAnswers \in [Asking -> Answers] /\ OwnAnswers[NULL] = "null"
         /\ \A n \in Nodes : OwnAnswers[n] # "null" /\ (OwnAnswers[n] = "overflow" => n \in Groups)
         /\ Asked \in [[Asking -> Answers] -> [Asking -> Answers]]
         /\ \A a \in [Asking -> Answers] : \A n \in Asking :
              Asked[a][n] = IF OwnAnswers[n] = "overflow" THEN ChildrenAnswer(n, a) ELSE OwnAnswers[n]
<1>1. NULL \notin Nodes
  BY SceneGraphAssumption
<1>2. /\ OwnAnswers \in [Asking -> Answers] /\ OwnAnswers[NULL] = "null"
      /\ \A n \in Nodes : OwnAnswers[n] # "null" /\ (OwnAnswers[n] = "overflow" => n \in Groups)
  BY <1>1 DEF OwnAnswers, Asking, Answers
<1>3. ASSUME NEW a \in [Asking -> Answers], NEW n \in Asking
      PROVE  (IF OwnAnswers[n] = "overflow" THEN ChildrenAnswer(n, a) ELSE OwnAnswers[n]) \in Answers
  <2>1. CASE OwnAnswers[n] = "overflow"
    <3>1. n \in Nodes
      BY <1>2, <2>1 DEF Asking
    <3> QED BY <2>1, <3>1, ChildAnswers
  <2>2. CASE OwnAnswers[n] # "overflow"
    BY <1>2, <2>2
  <2> QED BY <2>1, <2>2
<1>4. Asked \in [[Asking -> Answers] -> [Asking -> Answers]]
  <2> HIDE DEF OwnAnswers
  <2> QED BY <1>3 DEF Asked
<1>5. \A a \in [Asking -> Answers] : \A n \in Asking :
        Asked[a][n] = IF OwnAnswers[n] = "overflow" THEN ChildrenAnswer(n, a) ELSE OwnAnswers[n]
  BY DEF Asked
<1> QED BY <1>2, <1>4, <1>5

LEMMA NullAnswers ==
  ASSUME FieldsOK(fields), \A n \in Nodes : \A j \in 1 .. Len(fields[n]) : fields[n][j] # NULL
  PROVE  \A g \in Nodes : Modified[g] # "null"
<1> DEFINE D == [Asking -> Answers]
<1>1. /\ OwnAnswers \in D /\ Asked \in [D -> D] /\ Nodes \subseteq Asking
      /\ \A n \in Nodes : OwnAnswers[n] # "null"
      /\ \A a \in D : \A n \in Asking :
           Asked[a][n] = IF OwnAnswers[n] = "overflow" THEN ChildrenAnswer(n, a) ELSE OwnAnswers[n]
  BY AskedTypes DEF Asking
<1> HIDE DEF D
<1>2. PICK h : IsOrbit(D, Asked, OwnAnswers, h) /\ Closure(Asked, OwnAnswers) = h[NodeCount]
  BY <1>1, ClosureIterates
<1>3. h \in [Nat -> D] /\ h[0] = OwnAnswers /\ \A k \in Nat : h[k + 1] = Asked[h[k]]
  BY <1>2 DEF IsOrbit
<1> DEFINE Q == {k \in Nat : \A n \in Nodes : h[k][n] # "null"}
<1>4. Q \in SUBSET Nat /\ 0 \in Q
  BY <1>1, <1>3
<1>5. ASSUME NEW k \in Q PROVE k + 1 \in Q
  <2>1. k \in Nat /\ k + 1 \in Nat /\ h[k] \in D /\ h[k + 1] = Asked[h[k]]
    BY <1>3
  <2>2. ASSUME NEW n \in Nodes PROVE h[k + 1][n] # "null"
    <3>1. n \in Asking
      BY <1>1
    <3>2. h[k + 1][n] = IF OwnAnswers[n] = "overflow" THEN ChildrenAnswer(n, h[k]) ELSE OwnAnswers[n]
      BY <1>1, <2>1, <3>1
    <3>3. ChildrenAnswer(n, h[k]) # "null"
      <4>1. h[k] \in [Asking -> Answers]
        BY <2>1 DEF D
      <4>2. CASE ChildrenAnswer(n, h[k]) = "clean"
        BY <4>2
      <4>3. ASSUME NEW j \in 1 .. Len(fields[n]), fields[n][j] \in Asking,
                   ChildrenAnswer(n, h[k]) = h[k][fields[n][j]]
            PROVE  ChildrenAnswer(n, h[k]) # "null"
        <5>1. fields[n][j] \in Nodes
          BY <4>3 DEF Asking
        <5> QED BY <4>3, <5>1
      <4> QED BY <4>1, <4>2, <4>3, ChildAnswers
    <3> QED BY <1>1, <3>2, <3>3
  <2> QED BY <2>1, <2>2
<1>6. Q = Nat
  <2> HIDE DEF Q
  <2> QED BY <1>4, <1>5, InductiveSet
<1>7. NodeCount \in Q
  BY <1>6, NodesAreFinite
<1> QED BY <1>2, <1>7, ModifiedIsAsked

\* The nodes below n.
Below(n) == Reach(fields, Referred(fields, {n}))

LEMMA BelowShrinks ==
  ASSUME FieldsOK(fields), ~HasCycle(fields), NEW n \in Nodes, NEW m \in Referred(fields, {n})
  PROVE  /\ m \in Nodes /\ n \notin Below(n) /\ Below(n) \in SUBSET Nodes
         /\ Cardinality(Below(m)) \in Nat /\ Cardinality(Below(n)) \in Nat
         /\ Cardinality(Below(m)) + 1 <= Cardinality(Below(n))
<1> DEFINE N == Referred(fields, {n})
           M == Referred(fields, {m})
<1>1. {n} \in SUBSET Nodes /\ N \in SUBSET Nodes
  <2>1. {n} \in SUBSET Nodes
    OBVIOUS
  <2> QED BY <2>1, ReferredNodes
<1>2. m \in Nodes /\ {m} \in SUBSET Nodes
  BY <1>1
<1>3. M \in SUBSET Nodes
  BY <1>2, ReferredNodes
<1>4. Below(n) = Reach(fields, N) /\ Below(m) = Reach(fields, M)
  BY DEF Below
<1>5. n \notin Below(n) /\ m \notin Below(m)
  BY <1>2 DEF HasCycle, Below
<1>6. m \in N
  OBVIOUS
<1>a. M = Referred(fields, {m})
  OBVIOUS
<1> HIDE DEF N, M
<1>7. /\ Reach(fields, N) \in SUBSET Nodes /\ N \subseteq Reach(fields, N)
      /\ Referred(fields, Reach(fields, N)) \subseteq Reach(fields, N)
  BY <1>1, ReachProperties
<1>8. {m} \subseteq Reach(fields, N)
  BY <1>6, <1>7
<1>9. M \subseteq Reach(fields, N)
  BY <1>a, <1>7, <1>8, ReferredGrows
<1>10. Reach(fields, M) \subseteq Reach(fields, N) /\ Reach(fields, M) \in SUBSET Nodes
  BY <1>1, <1>3, <1>9, ReachTransitive, ReachProperties
<1> DEFINE T == Below(m)
           U == Below(n)
<1>11. U \in SUBSET Nodes /\ T \in SUBSET U /\ T # U
  BY <1>4, <1>5, <1>7, <1>8, <1>10
<1> HIDE DEF T, U
<1>12. /\ Cardinality(T) \in Nat /\ Cardinality(U) \in Nat /\ Cardinality(T) < Cardinality(U)
  BY <1>11, NodesAreFinite
<1>13. Cardinality(T) + 1 <= Cardinality(U)
  BY <1>12
<1> QED BY <1>2, <1>5, <1>11, <1>12, <1>13 DEF T, U

LEMMA OverflowAnswers ==
  ASSUME FieldsOK(fields), ~HasCycle(fields)
  PROVE  \A g \in Nodes : Modified[g] # "overflow"
<1> DEFINE D == [Asking -> Answers]
<1>1. /\ OwnAnswers \in D /\ Asked \in [D -> D] /\ Nodes \subseteq Asking
      /\ OwnAnswers[NULL] = "null"
      /\ \A a \in D : \A n \in Asking :
           Asked[a][n] = IF OwnAnswers[n] = "overflow" THEN ChildrenAnswer(n, a) ELSE OwnAnswers[n]
  BY AskedTypes DEF Asking
<1>a. NULL \in Asking
  BY DEF Asking
<1> HIDE DEF D
<1>2. PICK h : IsOrbit(D, Asked, OwnAnswers, h) /\ Closure(Asked, OwnAnswers) = h[NodeCount]
  BY <1>1, ClosureIterates
<1>3. h \in [Nat -> D] /\ h[0] = OwnAnswers /\ \A k \in Nat : h[k + 1] = Asked[h[k]]
  BY <1>2 DEF IsOrbit
<1>4. \A n \in Nodes : Below(n) \in SUBSET Nodes /\ Cardinality(Below(n)) \in Nat
  <2>1. ASSUME NEW n \in Nodes PROVE Below(n) \in SUBSET Nodes
    <3>1. {n} \in SUBSET Nodes
      OBVIOUS
    <3>2. Referred(fields, {n}) \in SUBSET Nodes
      BY <3>1, ReferredNodes
    <3> DEFINE N == Referred(fields, {n})
    <3>3. N \in SUBSET Nodes
      BY <3>2
    <3> HIDE DEF N
    <3>4. Reach(fields, N) \in SUBSET Nodes
      BY <3>3, ReachProperties
    <3> QED BY <3>4 DEF Below, N
  <2> QED BY <2>1, NodesAreFinite
\* An iteration that has gone k steps has found k nodes below each that still has no answer.
<1> DEFINE Q == {k \in Nat : /\ h[k][NULL] = "null"
                             /\ \A n \in Nodes : h[k][n] = "overflow" => k <= Cardinality(Below(n))}
<1>5. Q \in SUBSET Nat /\ 0 \in Q
  <2>1. h[0][NULL] = "null"
    BY <1>1, <1>3
  <2>2. ASSUME NEW n \in Nodes PROVE 0 <= Cardinality(Below(n))
    BY <1>4
  <2> QED BY <2>1, <2>2
<1>6. ASSUME NEW k \in Q PROVE k + 1 \in Q
  <2>1. k \in Nat /\ k + 1 \in Nat /\ h[k] \in D /\ h[k + 1] = Asked[h[k]] /\ h[k][NULL] = "null"
    BY <1>3
  <2>2. h[k + 1][NULL] = "null"
    BY <1>1, <1>a, <2>1
  <2>3. ASSUME NEW n \in Nodes, h[k + 1][n] = "overflow" PROVE k + 1 <= Cardinality(Below(n))
    <3>1. n \in Asking
      BY <1>1
    <3>2. h[k + 1][n] = IF OwnAnswers[n] = "overflow" THEN ChildrenAnswer(n, h[k]) ELSE OwnAnswers[n]
      BY <1>1, <2>1, <3>1
    <3>3. ChildrenAnswer(n, h[k]) = "overflow"
      BY <2>3, <3>2
    <3>4. h[k] \in [Asking -> Answers]
      BY <2>1 DEF D
    <3>5. PICK j \in 1 .. Len(fields[n]) :
            fields[n][j] \in Asking /\ ChildrenAnswer(n, h[k]) = h[k][fields[n][j]]
      BY <3>3, <3>4, ChildAnswers
    <3>6. PICK m : m = fields[n][j]
      OBVIOUS
    <3>7. m # NULL /\ m \in Nodes /\ h[k][m] = "overflow"
      BY <3>3, <3>5, <3>6, <2>1 DEF Asking
    <3>8. m \in Referred(fields, {n})
      <4>1. {n} \in SUBSET Nodes /\ \E x \in {n} : \E i \in 1 .. Len(fields[x]) : fields[x][i] = m
        BY <3>6
      <4> QED BY <4>1, <3>7, ReferredNodes
    <3>9. k <= Cardinality(Below(m))
      BY <3>7
    <3>10. /\ Cardinality(Below(m)) \in Nat /\ Cardinality(Below(n)) \in Nat
           /\ Cardinality(Below(m)) + 1 <= Cardinality(Below(n))
      BY <3>8, BelowShrinks
    <3> QED BY <2>1, <3>9, <3>10
  <2> QED BY <2>1, <2>2, <2>3
<1>7. Q = Nat
  <2> HIDE DEF Q
  <2> QED BY <1>5, <1>6, InductiveSet
<1>8. NodeCount \in Q
  BY <1>7, NodesAreFinite
<1>9. ASSUME NEW g \in Nodes PROVE Modified[g] # "overflow"
  <2>1. SUFFICES ASSUME h[NodeCount][g] = "overflow" PROVE FALSE
    BY <1>2, ModifiedIsAsked
  <2>2. NodeCount <= Cardinality(Below(g))
    BY <1>8, <2>1
  <2>3. g \notin Below(g)
    BY DEF HasCycle, Below
  <2> DEFINE T == Below(g)
  <2>4. T \in SUBSET Nodes /\ T # Nodes
    BY <1>4, <2>3
  <2>5. Nodes \in SUBSET Nodes
    OBVIOUS
  <2> HIDE DEF T
  <2>6. Cardinality(T) < Cardinality(Nodes) /\ Cardinality(T) \in Nat /\ NodeCount \in Nat
    BY <2>4, <2>5, NodesAreFinite
  <2>7. NodeCount <= Cardinality(T) /\ NodeCount = Cardinality(Nodes)
    BY <2>2 DEF T, NodeCount
  <2> QED BY <2>6, <2>7
<1> QED BY <1>9

LEMMA RenderFaults ==
  ASSUME GraphBase, OddInv, Render
  PROVE  /\ broken' \in {"none", "null", "overflow"}
         /\ broken' = "null" => "null" \in odd
         /\ broken' = "overflow" => "cycle" \in odd
<1>1. FieldsOK(fields) /\ Groups \subseteq Nodes
  BY SceneGraphAssumption DEF GraphBase, GraphTypeOK, FieldsOK
<1>2. PICK drawn :
        broken' = IF "null" \in {Modified[g] : g \in drawn \cap Groups} THEN "null"
                  ELSE IF "overflow" \in {Modified[g] : g \in drawn \cap Groups} \/
                          \E g \in drawn \cap Groups :
                            g \in Reach([n \in Nodes |-> IF n \in drawn THEN fields[n] ELSE << >>],
                                        Referred(fields, {g}) \cap drawn)
                  THEN "overflow" ELSE "none"
  BY DEF Render
<1>3. ASSUME broken' = "null" PROVE "null" \in odd
  <2>1. \E g \in Nodes : Modified[g] = "null"
    BY <1>1, <1>2, <1>3
  <2> QED BY <1>1, <2>1, NullAnswers DEF OddInv
<1>4. ASSUME broken' = "overflow" PROVE "cycle" \in odd
  <2>1. CASE \E g \in Nodes : Modified[g] = "overflow"
    BY <1>1, <2>1, OverflowAnswers DEF OddInv
  <2>2. ASSUME NEW g \in Groups,
               g \in Reach([n \in Nodes |-> IF n \in drawn THEN fields[n] ELSE << >>],
                           Referred(fields, {g}) \cap drawn)
        PROVE  "cycle" \in odd
    <3> DEFINE hs == [n \in Nodes |-> IF n \in drawn THEN fields[n] ELSE << >>]
               S == Referred(fields, {g}) \cap drawn
               T == Referred(fields, {g})
    <3>1. {g} \in SUBSET Nodes
      BY <1>1
    <3>2. T \in SUBSET Nodes /\ S \in SUBSET T
      BY <1>1, <3>1, ReferredNodes
    <3>3. FieldsOK(hs)
      <4>1. << >> \in Seq(Nodes \cup {NULL})
        BY EmptySeq
      <4> QED BY <1>1, <4>1 DEF FieldsOK
    <3>4. ASSUME NEW U \in SUBSET Nodes PROVE Referred(hs, U) \subseteq Referred(fields, U)
      <4>1. ASSUME NEW n \in U PROVE Range(hs[n]) \subseteq Range(fields[n])
        <5>1. CASE n \in drawn
          BY <5>1
        <5>2. CASE n \notin drawn
          <6>1. hs[n] = << >> /\ Range(<< >>) = {}
            BY <5>2 DEF Range
          <6> QED BY <6>1
        <5> QED BY <5>1, <5>2
      <4> HIDE DEF hs
      <4> QED BY <4>1 DEF Referred
    <3>5. g \in Reach(hs, S)
      BY <2>2
    <3> HIDE DEF hs, S
    <3>6. g \in Reach(fields, T)
      <4> HIDE DEF T
      <4> QED BY <1>1, <3>2, <3>3, <3>4, <3>5, ReachGrows
    <3>7. HasCycle(fields)
      BY <1>1, <3>6 DEF HasCycle
    <3> QED BY <3>7 DEF OddInv
  <2> QED BY <1>1, <1>2, <1>4, <2>1, <2>2
<1> QED BY <1>2, <1>3, <1>4

-----------------------------------------------------------------------------
(* The faults of steps. *)

LEMMA GraphIsAlive ==
  ASSUME NEW fs, FieldsOK(fs), file \in Files, NEW live \in SUBSET Nodes,
         Roots \subseteq live, Referred(fs, live) \subseteq live
  PROVE  InGraph(fs) \subseteq live
BY RootsAreNodes, ReachProperties DEF InGraph

(* A node is relocated without a fault once all of its scene is passed and *)
(* nothing odd was put there.                                              *)
LEMMA PassedIsRelocated ==
  ASSUME GraphBase, Passed, "viewpoint" \notin odd, NEW n \in Roots, n \in inScene,
         \A m \in Nodes : \A j \in 1 .. Len(fields[m]) : Visited(m, j)
  PROVE  Relocated(n, fields)
<1>1. /\ FieldsOK(fields) /\ file \in Files /\ inScene \in SUBSET Nodes
      /\ NULL \notin Nodes /\ Roots \in SUBSET Nodes
  BY SceneGraphAssumption, RootsAreNodes DEF GraphBase, GraphTypeOK, FieldsOK
<1> DEFINE T == {m \in Nodes : Settled(m)}
<1>2. T \in SUBSET Nodes /\ inScene \subseteq T
  BY <1>1 DEF Settled
<1>3. ASSUME NEW x \in Referred(fields, T) PROVE x \in T
  <2>1. x \in Nodes /\ x # NULL
    BY <1>1, <1>2, ReferredNodes
  <2>2. PICK m \in T : \E j \in 1 .. Len(fields[m]) : fields[m][j] = x
    BY <1>1, <1>2, ReferredNodes
  <2>3. CASE m \in inScene
    BY <2>1, <2>2, <2>3 DEF Passed
  <2>4. CASE m \notin inScene
    <3>1. Reach(fields, {m}) \cap Viewpoints \subseteq inScene /\ {m} \in SUBSET Nodes
      BY <2>2, <2>4 DEF Settled
    <3>2. x \in Referred(fields, {m})
      <4>1. \E y \in {m} : \E j \in 1 .. Len(fields[y]) : fields[y][j] = x
        BY <2>2
      <4> QED BY <4>1, <3>1, <2>1, <1>1, ReferredNodes
    <3>3. {m} \subseteq Reach(fields, {m}) /\ Referred(fields, Reach(fields, {m})) \subseteq Reach(fields, {m})
      BY <1>1, <3>1, ReachProperties
    <3>4. {x} \subseteq Reach(fields, {m}) /\ {x} \in SUBSET Nodes
      BY <3>2, <3>3, <2>1, ReferredGrows
    <3>5. Reach(fields, {x}) \subseteq Reach(fields, {m})
      BY <1>1, <3>1, <3>4, ReachTransitive
    <3> QED BY <2>1, <3>1, <3>5 DEF Settled
  <2> QED BY <2>3, <2>4
<1>4. n \in Nodes /\ {n} \in SUBSET Nodes /\ {n} \ {NULL} = {n} /\ {n} \subseteq T
  BY <1>1, <1>2
<1>5. Reach(fields, {n}) \subseteq T
  <2> HIDE DEF T
  <2>1. Referred(fields, T) \subseteq T
    BY <1>3
  <2> QED BY <1>1, <1>2, <1>4, <2>1, ReachProperties
<1>6. ASSUME NEW v \in Reach(fields, {n}) \cap Viewpoints PROVE v \in inScene
  <2>1. v \in Nodes /\ Settled(v)
    BY <1>5
  <2>2. v \in Reach(fields, {v})
    <3>1. {v} \in SUBSET Nodes
      BY <2>1
    <3> QED BY <3>1, <1>1, ReachProperties
  <2> QED BY <2>1, <2>2 DEF Settled
<1>7. Reach(fields, {n}) \subseteq InGraph(fields)
  <2>1. {n} \subseteq Reach(fields, Roots)
    BY <1>1, ReachProperties
  <2> QED BY <1>1, <1>4, <2>1, ReachTransitive DEF InGraph
<1> QED BY <1>4, <1>6, <1>7 DEF Relocated

\* initialize, as long as events only append, relocates the scene's nodes without a fault.
LEMMA RootFaults ==
  ASSUME GraphBase, InitializeInv, CallsInv, broken = "none", Descend, broken' = "assert"
  PROVE  phase = "initialize" /\ phase' = phase /\ (appending => "viewpoint" \in odd)
<1>1. FieldsOK(fields) /\ file \in Files
  BY DEF GraphBase, GraphTypeOK, FieldsOK
<1>2. CASE NextRoot
  <2>0. PICK n : n = file.roots[rootAt]
    OBVIOUS
  <2>1. /\ phase' = phase /\ calls = << >> /\ rootAt \in 1 .. Len(file.roots)
        /\ (n \in inScene) = (phase = "initialize") /\ RootDone(n)
    BY <1>2, <2>0, NextRootShape DEF Entered
  <2>2. phase = "initialize" /\ ~Relocated(n, fields) /\ n \in inScene
    BY <2>1 DEF RootDone
  <2>3. n \in Roots
    BY <1>1, <2>0, <2>1, RootsAreNodes
  <2>4. \A m \in Nodes : \A j \in 1 .. Len(fields[m]) : Visited(m, j)
    BY <2>1 DEF Visited
  <2>5. appending => Passed
    BY <2>2 DEF InitializeInv
  <2> QED BY <2>1, <2>2, <2>3, <2>4, <2>5, PassedIsRelocated
<1>3. CASE LeaveRoot
  <2>1. /\ phase' = phase /\ Len(calls) = 1 /\ RootDone(Top.node)
        /\ Top = calls[Len(calls)] /\ DOMAIN calls = 1 .. Len(calls)
        /\ Top.at \in Nat /\ Len(fields[Top.node]) \in Nat /\ Top.at > Len(fields[Top.node])
    BY <1>3, LeaveShape DEF LeaveRoot
  <2>2. phase = "initialize" /\ ~Relocated(Top.node, fields)
    BY <2>1 DEF RootDone
  <2>3. 1 \in DOMAIN calls /\ Top = calls[1] /\ DOMAIN calls = {1}
    BY <2>1
  <2>4. Top.node \in Roots /\ Top.node \in inScene
    BY <2>2, <2>3 DEF CallsInv, InProgress
  <2>5. \A m \in Nodes : \A j \in 1 .. Len(fields[m]) : Visited(m, j)
    <3> SUFFICES ASSUME NEW m \in Nodes, NEW j \in 1 .. Len(fields[m]), m = Top.node PROVE Top.at > j
      BY <2>3 DEF Visited
    <3> QED BY <2>1
  <2>6. appending => Passed
    BY <2>2 DEF InitializeInv
  <2> QED BY <2>1, <2>2, <2>4, <2>5, <2>6, PassedIsRelocated
<1>4. CASE NextField
  <2>0. PICK n : n = fields[Top.node][Top.at]
    OBVIOUS
  <2>1. Stuck(n) \/ Returned(n) \/ Entered(n)
    BY <1>4, <2>0, NextFieldShape
  <2> QED BY <2>1 DEF Stuck, Returned, Entered
<1>5. ~EnterFields /\ ~LeaveNode /\ ~Begin /\ ~End /\ ~Reset
  BY DEF EnterFields, LeaveNode, Begin, End, Reset
<1> QED BY <1>2, <1>3, <1>4, <1>5 DEF Descend

\* A call that waits for itself follows a cycle, as long as events only append.
LEMMA StuckIsCycle ==
  ASSUME GraphBase, CallsInv, broken = "none", Descend, broken' = "deadlock", appending
  PROVE  HasCycle(fields)
<1>1. FieldsOK(fields) /\ file \in Files /\ NULL \notin Nodes
  BY SceneGraphAssumption DEF GraphBase, GraphTypeOK, FieldsOK
<1>2. NextField
  <2>1. ~NextRoot
    <3>0. PICK n : n = file.roots[rootAt]
      OBVIOUS
    <3>1. NextRoot => RootDone(n) \/ Entered(n)
      BY <3>0, NextRootShape
    <3> QED BY <3>1 DEF RootDone, Entered
  <2>2. ~EnterFields /\ ~LeaveNode /\ ~LeaveRoot /\ ~Begin /\ ~End /\ ~Reset
    BY DEF EnterFields, LeaveNode, LeaveRoot, RootDone, Begin, End, Reset
  <2> QED BY <2>1, <2>2 DEF Descend
<1>0. PICK n : n = fields[Top.node][Top.at]
  OBVIOUS
<1>3. /\ Len(calls) \in Nat \ {0} /\ DOMAIN calls = 1 .. Len(calls)
      /\ Top = calls[Len(calls)] /\ Top.node \in Nodes
      /\ Top.at \in 1 .. Len(fields[Top.node]) /\ n \in Nodes \cup {NULL}
      /\ Stuck(n) \/ Returned(n) \/ Entered(n)
  BY <1>2, <1>0, NextFieldShape
<1>4. n \in InProgress
  BY <1>3 DEF Stuck, Returned, Entered
<1>5. PICK i \in DOMAIN calls : calls[i].node = n
  BY <1>4 DEF InProgress
<1>6. n \in Nodes
  <2>1. GraphTypeOK /\ ~Idle
    BY <1>5 DEF GraphBase, Idle
  <2> QED BY <1>5, <2>1, TopFrame
<1>7. Top.node \in Reach(fields, {n})
  <2>1. i <= Len(calls) /\ Len(calls) \in DOMAIN calls
    BY <1>3
  <2> QED BY <1>3, <1>5, <2>1 DEF CallsInv
<1>8. n \in Referred(fields, {Top.node})
  <2>1. {Top.node} \in SUBSET Nodes /\ \E m \in {Top.node} : \E j \in 1 .. Len(fields[m]) : fields[m][j] = n
    BY <1>0, <1>3
  <2>2. n # NULL
    BY <1>1, <1>6
  <2> QED BY <1>1, <2>1, <2>2, ReferredNodes
<1> DEFINE N == Referred(fields, {n})
<1>9. N \in SUBSET Nodes
  <2>1. {n} \in SUBSET Nodes
    BY <1>6
  <2> QED BY <1>1, <2>1, ReferredNodes
<1>10. Top.node = n \/ Top.node \in Reach(fields, N)
  BY <1>1, <1>6, <1>7, ReachFromReferred
<1>11. n \in Reach(fields, N)
  <2>1. CASE Top.node = n
    <3>1. n \in N
      BY <1>8, <2>1
    <3> HIDE DEF N
    <3> QED BY <1>1, <1>9, <3>1, ReachProperties
  <2>2. CASE Top.node \in Reach(fields, N)
    <3> HIDE DEF N
    <3>1. {Top.node} \subseteq Reach(fields, N) /\ Referred(fields, Reach(fields, N)) \subseteq Reach(fields, N)
      BY <1>1, <1>9, <2>2, ReachProperties
    <3> QED BY <1>8, <3>1, ReferredGrows
  <2> QED BY <1>10, <2>1, <2>2
<1> QED BY <1>6, <1>11 DEF HasCycle

\* A Viewpoint that cannot be relocated is one that the event adds.
LEMMA UnplacedIsOdd ==
  ASSUME GraphBase, phase # "reset", NEW g, NEW c, NEW ok, NEW appends, IsEvent(g, c, ok, appends), ~ok
  PROVE  "viewpoint" \in odd'
<1> SUFFICES ASSUME Placed(Range(c)) PROVE FALSE
  BY DEF IsEvent, Changed
<1> DEFINE C == Range(c) \ {NULL}
<1>1. /\ FieldsOK(fields) /\ file \in Files /\ NULL \notin Nodes /\ Roots \in SUBSET Nodes
      /\ IsChange(fields, g, c, fields') /\ fields' = [fields EXCEPT ![g] = c]
  BY SceneGraphAssumption, RootsAreNodes, EventGraph DEF GraphBase, IsChange
<1>2. c \in Seq(Nodes \cup {NULL})
  BY DEF IsEvent
<1> DEFINE gs == fields'
<1> HIDE DEF gs
<1>3. IsChange(fields, g, c, gs)
  BY <1>1 DEF gs
<1>4. /\ FieldsOK(gs) /\ g \in Nodes /\ gs[g] = c /\ C \in SUBSET Nodes
  BY <1>3, ChangedFields
<1>5. Reach(fields, C) \cap Viewpoints \subseteq inScene \cap InGraph(fields)
  BY DEF Placed
<1>6. \A x \in C : {x} \in SUBSET Nodes /\ {x} \subseteq C
  BY <1>4
<1>7. CASE appends
  <2>1. PICK n \in Nodes : ok = Relocated(n, fields) /\ n \in Range(c)
    BY <1>7, EventAppends
  <2>2. n \in C /\ {n} \ {NULL} = {n}
    BY <2>1, <1>1
  <2>3. Reach(fields, {n}) \subseteq Reach(fields, C)
    <3> HIDE DEF C
    <3>1. C \subseteq Reach(fields, C)
      BY <1>1, <1>4, ReachProperties
    <3>2. {n} \in SUBSET Nodes /\ {n} \subseteq Reach(fields, C)
      BY <1>6, <2>2, <3>1
    <3> QED BY <1>1, <1>4, <3>2, ReachTransitive
  <2> QED BY <2>1, <2>2, <2>3, <1>5 DEF Relocated
<1>8. CASE ~appends
  <2>1. PICK i \in 1 .. Len(c) : ~Relocated(c[i], gs)
    BY <1>1, <1>8 DEF IsEvent, gs
  <2>2. PICK x : x = c[i]
    OBVIOUS
  <2>3. x \in Range(c)
    BY <1>2, <2>2, RangeElements
  <2> DEFINE X == {x} \ {NULL}
  <2>4. X \in SUBSET Nodes /\ X \subseteq C /\ X \cup C = C
    BY <1>4, <2>3
  <2>5. Reach(gs, X) \subseteq Reach(fields, C)
    <3> HIDE DEF X
    <3>1. Reach(gs, X) \subseteq Reach(fields, X \cup C)
      BY <1>3, <2>4, ChangedReach
    <3> QED BY <2>4, <3>1
  <2>6. Reach(gs, X) \cap Viewpoints \subseteq InGraph(gs)
    <3>1. CASE g \in InGraph(fields)
      <4>1. g \in InGraph(gs)
        BY <3>1, <1>1, <1>3, ChangedReach DEF InGraph
      <4>2. Referred(gs, InGraph(gs)) \subseteq InGraph(gs) /\ InGraph(gs) \in SUBSET Nodes
        BY <1>1, <1>4, ReachProperties DEF InGraph
      <4>3. C \subseteq Referred(gs, {g})
        BY <1>4 DEF Referred
      <4>4. X \subseteq InGraph(gs)
        <5>1. Referred(gs, {g}) \subseteq Referred(gs, InGraph(gs))
          BY <4>1, ReferredGrows
        <5> QED BY <4>2, <4>3, <5>1, <2>4
      <4>5. Reach(gs, X) \subseteq InGraph(gs)
        <5> HIDE DEF X
        <5> QED BY <1>1, <1>4, <2>4, <4>4, ReachTransitive DEF InGraph
      <4> QED BY <4>5
    <3>2. CASE g \notin InGraph(fields)
      <4>1. InGraph(gs) = InGraph(fields)
        <5>1. g \notin Reach(fields, Roots)
          BY <3>2 DEF InGraph
        <5>2. Reach(gs, Roots) = Reach(fields, Roots)
          BY <1>1, <1>3, <5>1, UnreachedChange
        <5> QED BY <5>2 DEF InGraph
      <4> QED BY <4>1, <2>5, <1>5
    <3> QED BY <3>1, <3>2
  <2>7. Reach(gs, X) \cap Viewpoints \subseteq inScene
    BY <2>5, <1>5
  <2> QED BY <2>1, <2>2, <2>6, <2>7 DEF Relocated
<1> QED BY <1>7, <1>8 DEF IsEvent

GraphInv == GraphBase /\ ShutdownInv /\ InitializeInv /\ CallsInv /\ OddInv

LEMMA GraphInvInit == GraphInit => GraphInv
BY BaseInit, ShutdownInit, InitializeInit, CallsInit, OddInit DEF GraphInv

LEMMA GraphInvStep == GraphInv /\ [GraphNext]_sgVars => GraphInv'
BY BaseStep, ShutdownStep, InitializeStep, CallsStep, OddStep DEF GraphInv

LEMMA FaultsStep == GraphInv /\ FaultsHaveCauses /\ [GraphNext]_sgVars => FaultsHaveCauses'
<1> SUFFICES ASSUME GraphInv, FaultsHaveCauses, [GraphNext]_sgVars PROVE FaultsHaveCauses'
  OBVIOUS
<1>1. GraphInv'
  BY GraphInvStep
<1>2. broken' = "left" => strayed' \cap Registrars # {}
  BY <1>1 DEF GraphInv, ShutdownInv
\* While the world is not reset, what is alive has the whole graph.
<1>3. strayed' = {} /\ phase' # "reset" => inScene' \cup InProgress' \subseteq alive'
  <2>1. ASSUME strayed' = {}, phase' # "reset" PROVE inScene' \cup InProgress' \subseteq alive'
    <3>1. inScene' \cup InProgress' \subseteq InGraph(fields)'
      BY <1>1, <2>1 DEF GraphInv, CallsInv
    <3>2. file' = file /\ Roots' = Roots
      BY DEF sgVars, GraphNext, Descend, ChildrenEvent, Forget, UpdateFreed, Render, Roots
    <3> DEFINE fs == fields'
               live == alive'
    <3>3. /\ FieldsOK(fs) /\ file \in Files /\ live \in SUBSET Nodes
          /\ Roots \subseteq live /\ Referred(fs, live) \subseteq live
      BY <1>1, <2>1, <3>2 DEF GraphInv, GraphBase, GraphTypeOK, FieldsOK
    <3>4. InGraph(fields)' = InGraph(fs)
      BY <3>2 DEF InGraph
    <3> HIDE DEF fs, live
    <3>5. InGraph(fs) \subseteq live
      BY <3>3, GraphIsAlive
    <3> QED BY <3>1, <3>4, <3>5 DEF live
  <2> QED BY <2>1
<1>4. CASE UNCHANGED sgVars
  BY <1>4 DEF sgVars, FaultsHaveCauses
<1>5. CASE Descend
  <2>1. broken = "none" /\ odd' = odd /\ appending' = appending
    BY <1>5 DEF Descend, Running
  <2>2. broken' \in {"none", "assert", "deadlock", "left"}
    <3>1. CASE NextField
      <4>0. PICK n : n = fields[Top.node][Top.at]
        OBVIOUS
      <4>1. Stuck(n) \/ Returned(n) \/ Entered(n)
        BY <2>1, <3>1, <4>0, NextFieldShape DEF GraphInv
      <4> QED BY <4>1 DEF Stuck, Returned, Entered
    <3>2. CASE NextRoot
      <4>0. PICK n : n = file.roots[rootAt]
        OBVIOUS
      <4>1. RootDone(n) \/ Entered(n)
        BY <2>1, <3>2, <4>0, NextRootShape DEF GraphInv
      <4> QED BY <4>1 DEF RootDone, Entered
    <3>3. CASE EnterFields \/ LeaveNode \/ LeaveRoot \/ Begin \/ End \/ Reset
      BY <2>1, <3>3 DEF EnterFields, LeaveNode, LeaveRoot, RootDone, Begin, End, Reset
    <3> QED BY <1>5, <3>1, <3>2, <3>3 DEF Descend
  <2>3. broken' = "deadlock" => "cycle" \in odd' \/ ~appending'
    BY <1>5, <2>1, StuckIsCycle DEF GraphInv, OddInv
  <2>4. broken' = "assert" => "viewpoint" \in odd' \/ (phase' = "initialize" /\ ~appending')
    BY <1>5, <2>1, RootFaults DEF GraphInv
  <2> QED BY <1>2, <2>2, <2>3, <2>4 DEF FaultsHaveCauses
<1>6. CASE ChildrenEvent
  <2>1. phase # "reset" /\ phase' = phase /\ InProgress' = InProgress
    BY <1>6 DEF ChildrenEvent, CanSend, GraphInv, GraphBase, traversal, InProgress
  <2>2. PICK g, c, ok, appends : IsEvent(g, c, ok, appends)
    BY <1>6, <2>1, EventShape DEF GraphInv
  <2>3. /\ broken' = IF ~ok THEN "assert" ELSE IF InProgress \subseteq alive' THEN "none" ELSE "freed"
    BY <2>2 DEF IsEvent, Changed
  <2>4. broken' = "assert" => "viewpoint" \in odd'
    BY <2>1, <2>2, <2>3, UnplacedIsOdd DEF GraphInv
  <2>5. broken' = "freed" => strayed' # {}
    BY <1>3, <2>1, <2>3
  <2> QED BY <2>3, <2>4, <2>5 DEF FaultsHaveCauses
<1>7. CASE Forget
  <2>1. phase # "reset" /\ phase' = phase /\ InProgress' = InProgress
    BY <1>7 DEF Forget, CanSend, GraphInv, GraphBase, traversal, InProgress
  <2>2. broken' = IF InProgress \subseteq alive' THEN "none" ELSE "freed"
    BY <1>7 DEF Forget
  <2> QED BY <1>3, <2>1, <2>2 DEF FaultsHaveCauses
<1>8. CASE UpdateFreed
  <2>1. /\ phase = "up" /\ phase' = phase /\ inScene' = inScene /\ alive' = alive
        /\ broken' = "freed" /\ ~(listed \ Viewpoints \subseteq alive)
    BY <1>8 DEF UpdateFreed, traversal, membership
  <2>2. listed \subseteq inScene
    BY DEF GraphInv, GraphBase, GraphTypeOK
  <2> QED BY <1>3, <2>1, <2>2 DEF FaultsHaveCauses
<1>9. CASE Render
  <2>1. odd' = odd
    BY <1>9 DEF Render, history
  <2>2. /\ broken' \in {"none", "null", "overflow"}
        /\ broken' = "null" => "null" \in odd
        /\ broken' = "overflow" => "cycle" \in odd
    BY <1>9, RenderFaults DEF GraphInv
  <2> QED BY <2>1, <2>2 DEF FaultsHaveCauses
<1> QED BY <1>4, <1>5, <1>6, <1>7, <1>8, <1>9 DEF GraphNext

(* Every fault that stops the program has its cause in what events, or the *)
(* file, did to the graph: a NULL or a cycle put into it, a Viewpoint that *)
(* is not in the scene added, a node taken out of the scene, or the graph  *)
(* changed otherwise than by appending while node::initialize is in it.    *)
THEOREM FaultCauses == GraphSpec => []FaultsHaveCauses
<1>1. GraphInit => GraphInv /\ FaultsHaveCauses
  BY GraphInvInit DEF GraphInit, FaultsHaveCauses
<1>2. GraphInv /\ FaultsHaveCauses /\ [GraphNext]_sgVars => (GraphInv /\ FaultsHaveCauses)'
  BY GraphInvStep, FaultsStep
<1> QED BY <1>1, <1>2, PTL DEF GraphSpec
=============================================================================
