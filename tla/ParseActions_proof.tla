-------------------------- MODULE ParseActions_proof --------------------------
(***************************************************************************)
(* The stacks of the grammar and of the parse actions, for every profile,  *)
(* all names and files of any length that break off anywhere: which of     *)
(* them stand for the same thing, and what that leaves to go wrong.        *)
(***************************************************************************)
EXTENDS ParseActions, SequenceLemmas, FiniteSetTheorems

-----------------------------------------------------------------------------
(* Stacks. *)

LEMMA StackOfSeq ==
  ASSUME NEW T, NEW q \in Seq(T), q # << >>
  PROVE  /\ Len(q) \in Nat \ {0} /\ DOMAIN q = 1 .. Len(q) /\ Len(q) \in DOMAIN q
         /\ Inmost(q) \in T /\ Inmost(q) = q[Len(q)]
         /\ Outer(q) \in Seq(T) /\ Len(Outer(q)) = Len(q) - 1
         /\ DOMAIN Outer(q) = 1 .. Len(q) - 1
         /\ \A k \in 1 .. Len(q) - 1 : Outer(q)[k] = q[k]
<1>1. Len(q) \in Nat \ {0} /\ DOMAIN q = 1 .. Len(q)
  BY EmptySeq, LenProperties
<1>2. Len(q) \in 1 .. Len(q)
  BY <1>1
<1>3. q[Len(q)] \in T
  BY <1>2, ElementOfSeq
<1>4. Outer(q) \in Seq(T) /\ Len(Outer(q)) = Len(q) - 1 /\ \A k \in 1 .. Len(q) - 1 : Outer(q)[k] = q[k]
  BY <1>1 DEF Outer
<1>5. DOMAIN Outer(q) = 1 .. Len(q) - 1
  BY <1>4, LenProperties
<1> QED BY <1>1, <1>2, <1>3, <1>4, <1>5 DEF Inmost

LEMMA Pushed ==
  ASSUME NEW T, NEW q \in Seq(T), NEW x \in T
  PROVE  /\ Append(q, x) \in Seq(T) /\ Append(q, x) # << >>
         /\ Len(q) \in Nat /\ DOMAIN q = 1 .. Len(q)
         /\ Len(Append(q, x)) = Len(q) + 1 /\ DOMAIN Append(q, x) = 1 .. Len(q) + 1
         /\ Append(q, x)[Len(q) + 1] = x
         /\ \A k \in 1 .. Len(q) : Append(q, x)[k] = q[k]
         /\ Inmost(Append(q, x)) = x /\ Outer(Append(q, x)) = q
<1>1. /\ Append(q, x) \in Seq(T) /\ Append(q, x) # << >>
      /\ Len(q) \in Nat /\ DOMAIN q = 1 .. Len(q)
      /\ Len(Append(q, x)) = Len(q) + 1 /\ DOMAIN Append(q, x) = 1 .. Len(q) + 1
      /\ Append(q, x)[Len(q) + 1] = x
      /\ \A k \in 1 .. Len(q) : Append(q, x)[k] = q[k]
  BY AppendProperties, LenProperties
<1>2. Inmost(Append(q, x)) = x
  BY <1>1 DEF Inmost
<1>3. Outer(Append(q, x)) = q
  <2> DEFINE o == Outer(Append(q, x))
           r == Append(q, x)
  <2> HIDE DEF r, o
  <2>1. /\ Outer(r) \in Seq(T) /\ Len(Outer(r)) = Len(r) - 1
        /\ \A k \in 1 .. Len(r) - 1 : Outer(r)[k] = r[k]
    BY <1>1, StackOfSeq DEF r
  <2>3. /\ o \in Seq(T) /\ Len(o) = Len(q)
        /\ \A k \in 1 .. Len(q) : o[k] = q[k]
    BY <1>1, <2>1 DEF o, r
  <2>2. o = q
    BY <2>3, SeqEqual
  <2> QED BY <2>2 DEF o, r
<1> QED BY <1>1, <1>2, <1>3

\* The innermost element replaced.
LEMMA Replaced ==
  ASSUME NEW T, NEW q \in Seq(T), q # << >>, NEW x \in T
  PROVE  /\ SetInmost(q, x) \in Seq(T) /\ SetInmost(q, x) # << >>
         /\ Len(SetInmost(q, x)) = Len(q) /\ DOMAIN SetInmost(q, x) = DOMAIN q
         /\ Inmost(SetInmost(q, x)) = x /\ SetInmost(q, x)[Len(q)] = x
         /\ \A k \in 1 .. Len(q) - 1 : SetInmost(q, x)[k] = q[k]
         /\ Outer(SetInmost(q, x)) = Outer(q)
<1>1. /\ Outer(q) \in Seq(T) /\ Len(Outer(q)) = Len(q) - 1 /\ Len(q) \in Nat \ {0}
      /\ DOMAIN q = 1 .. Len(q)
      /\ \A k \in 1 .. Len(q) - 1 : Outer(q)[k] = q[k]
  BY StackOfSeq
<1>2. /\ Append(Outer(q), x) \in Seq(T) /\ Append(Outer(q), x) # << >>
      /\ Len(Append(Outer(q), x)) = Len(q) /\ DOMAIN Append(Outer(q), x) = 1 .. Len(q)
      /\ Append(Outer(q), x)[Len(q)] = x
      /\ \A k \in 1 .. Len(q) - 1 : Append(Outer(q), x)[k] = Outer(q)[k]
      /\ Inmost(Append(Outer(q), x)) = x /\ Outer(Append(Outer(q), x)) = Outer(q)
  BY <1>1, Pushed
<1> QED BY <1>1, <1>2 DEF SetInmost

LEMMA ReplacedTwice ==
  ASSUME NEW T, NEW q \in Seq(T), q # << >>, NEW x \in T, NEW y
  PROVE  SetInmost(SetInmost(q, x), y) = SetInmost(q, y)
<1>1. Outer(SetInmost(q, x)) = Outer(q)
  BY Replaced
<1> QED BY <1>1 DEF SetInmost

\* A nonempty stack is what is outside, and the innermost.
LEMMA StackIsPushed ==
  ASSUME NEW T, NEW q \in Seq(T), q # << >>
  PROVE  q = Append(Outer(q), Inmost(q))
<1>1. /\ Outer(q) \in Seq(T) /\ Len(Outer(q)) = Len(q) - 1 /\ Len(q) \in Nat \ {0}
      /\ Inmost(q) \in T /\ Inmost(q) = q[Len(q)]
      /\ \A k \in 1 .. Len(q) - 1 : Outer(q)[k] = q[k]
  BY StackOfSeq
<1> DEFINE r == Append(Outer(q), Inmost(q))
<1>2. /\ r \in Seq(T) /\ Len(r) = Len(q) /\ r[Len(q)] = q[Len(q)]
      /\ \A k \in 1 .. Len(q) - 1 : r[k] = q[k]
  BY <1>1, Pushed
<1>3. \A k \in 1 .. Len(q) : r[k] = q[k]
  BY <1>1, <1>2
<1> HIDE DEF r
<1>4. r = q
  BY <1>2, <1>3, SeqEqual
<1> QED BY <1>4 DEF r

-----------------------------------------------------------------------------
(* Tables of names. *)

Maps(A, B) == UNION {[D -> B] : D \in SUBSET A}
FiniteMaps(A, B) == {f \in Maps(A, B) : IsFiniteSet(DOMAIN f)}

LEMMA MapIs ==
  ASSUME NEW A, NEW B, NEW f
  PROVE  f \in Maps(A, B) <=> DOMAIN f \subseteq A /\ f \in [DOMAIN f -> B]
BY DEF Maps

LEMMA EmptyMap ==
  ASSUME NEW A, NEW B
  PROVE  << >> \in Maps(A, B) /\ << >> \in FiniteMaps(A, B) /\ DOMAIN << >> = {}
<1>1. DOMAIN << >> = {} /\ << >> \in [{} -> B]
  OBVIOUS
<1>2. << >> \in Maps(A, B)
  BY <1>1, MapIs
<1> QED BY <1>1, <1>2, FS_EmptySet DEF FiniteMaps

LEMMA WithMap ==
  ASSUME NEW A, NEW B, NEW f \in Maps(A, B), NEW x \in A, NEW y \in B
  PROVE  /\ With(f, x, y) \in Maps(A, B)
         /\ DOMAIN With(f, x, y) = DOMAIN f \cup {x}
         /\ With(f, x, y)[x] = y
         /\ \A z \in DOMAIN f : z # x => With(f, x, y)[z] = f[z]
         /\ f \in FiniteMaps(A, B) => With(f, x, y) \in FiniteMaps(A, B)
<1>1. DOMAIN f \subseteq A /\ f \in [DOMAIN f -> B]
  BY MapIs
<1>2. /\ DOMAIN With(f, x, y) = DOMAIN f \cup {x}
      /\ With(f, x, y)[x] = y
      /\ \A z \in DOMAIN f : z # x => With(f, x, y)[z] = f[z]
  BY DEF With
<1>3. With(f, x, y) \in [DOMAIN f \cup {x} -> B]
  BY <1>1 DEF With
<1>4. With(f, x, y) \in Maps(A, B)
  BY <1>1, <1>2, <1>3, MapIs
<1>5. IsFiniteSet(DOMAIN f) => IsFiniteSet(DOMAIN f \cup {x})
  BY FS_AddElement
<1> QED BY <1>2, <1>4, <1>5 DEF FiniteMaps

LEMMA RestrictMap ==
  ASSUME NEW A, NEW B, NEW f \in Maps(A, B), NEW S
  PROVE  /\ Restrict(f, DOMAIN f \ S) \in Maps(A, B)
         /\ DOMAIN Restrict(f, DOMAIN f \ S) = DOMAIN f \ S
         /\ \A z \in DOMAIN f \ S : Restrict(f, DOMAIN f \ S)[z] = f[z]
<1>1. DOMAIN f \subseteq A /\ f \in [DOMAIN f -> B]
  BY MapIs
<1>2. /\ DOMAIN Restrict(f, DOMAIN f \ S) = DOMAIN f \ S
      /\ Restrict(f, DOMAIN f \ S) \in [DOMAIN f \ S -> B]
      /\ \A z \in DOMAIN f \ S : Restrict(f, DOMAIN f \ S)[z] = f[z]
  BY <1>1 DEF Restrict
<1> QED BY <1>1, <1>2, MapIs

-----------------------------------------------------------------------------
(* The types. *)

RuleNames == {"scene", "interfaces", "first", "body", "default", "node", "sfnode", "mfnode", "list"}
Faults == {"parsing", "done", "invalid", "terminate", "field", "use", "empty", "children", "type",
           "scene", "routes"}
Text == STRING \cup {""}
TypeIds == DOMAIN BuiltIn \cup Text

ScopeSet == [defs : Maps(Names, Nat), types : Maps(TypeIds, SUBSET Interface),
             proto : BOOLEAN, declared : SUBSET Interface]
DataSet == [node : Nat, name : Names \cup {Anonymous}, values : Maps(Text, Seq(Nat)),
            current : Interface \cup {None}, isMap : SUBSET (STRING \X STRING)]
RouteSet == [from : Names, out : STRING, to : Names, in : STRING]
ParseScopeSet == [type : Text, names : FiniteMaps(Names, Nat), children : Seq(Seq(Nat)),
                  data : Seq(DataSet), routes : Seq(RouteSet),
                  isMap : SUBSET (Nat \X STRING \X STRING),
                  said : SUBSET (Nat \X STRING \X STRING),
                  bodies : Maps(Text, FiniteMaps(Names, Nat))]
NodeSet == [type : TypeIds, interfaces : SUBSET Interface, children : SUBSET Nat,
            finished : BOOLEAN, depth : Nat]

(* The states of a parse, with the scopes of the grammar and the actions.  *)
StateSet == [rules : Seq(RuleNames), scopes : Seq(ScopeSet), ps : Seq(ParseScopeSet),
             nodes : Seq(NodeSet), result : Seq(Nat), fault : Faults \cup {"exception"}]

LEMMA ReplacedScope ==
  ASSUME NEW q \in Seq(ParseScopeSet), q # << >>, NEW x \in ParseScopeSet
  PROVE  /\ SetInmost(q, x) \in Seq(ParseScopeSet) /\ SetInmost(q, x) # << >>
         /\ Len(SetInmost(q, x)) = Len(q) /\ DOMAIN SetInmost(q, x) = DOMAIN q
         /\ Inmost(SetInmost(q, x)) = x /\ SetInmost(q, x)[Len(q)] = x
         /\ \A k \in 1 .. Len(q) - 1 : SetInmost(q, x)[k] = q[k]
         /\ Outer(SetInmost(q, x)) = Outer(q)
BY Replaced

LEMMA ReplacedNames ==
  ASSUME NEW q \in Seq(ScopeSet), q # << >>, NEW x \in ScopeSet
  PROVE  /\ SetInmost(q, x) \in Seq(ScopeSet) /\ SetInmost(q, x) # << >>
         /\ Len(SetInmost(q, x)) = Len(q) /\ DOMAIN SetInmost(q, x) = DOMAIN q
         /\ Inmost(SetInmost(q, x)) = x /\ SetInmost(q, x)[Len(q)] = x
         /\ \A k \in 1 .. Len(q) - 1 : SetInmost(q, x)[k] = q[k]
         /\ Outer(SetInmost(q, x)) = Outer(q)
BY Replaced

LEMMA ReplacedData ==
  ASSUME NEW q \in Seq(DataSet), q # << >>, NEW x \in DataSet
  PROVE  /\ SetInmost(q, x) \in Seq(DataSet) /\ SetInmost(q, x) # << >>
         /\ Len(SetInmost(q, x)) = Len(q) /\ DOMAIN SetInmost(q, x) = DOMAIN q
         /\ Inmost(SetInmost(q, x)) = x /\ SetInmost(q, x)[Len(q)] = x
         /\ \A k \in 1 .. Len(q) - 1 : SetInmost(q, x)[k] = q[k]
         /\ Outer(SetInmost(q, x)) = Outer(q)
BY Replaced

(* A state whose innermost scope is q. *)
LEMMA InnermostScope ==
  ASSUME NEW s \in StateSet, s.ps # << >>, NEW q \in ParseScopeSet
  PROVE  [s EXCEPT !.ps = SetInmost(@, q)] \in StateSet
<1>1. SetInmost(s.ps, q) \in Seq(ParseScopeSet)
  BY Replaced DEF StateSet
<1> QED BY <1>1 DEF StateSet

LEMMA FieldStartTypes ==
  ASSUME NEW s \in StateSet, s.ps # << >>, Inmost(s.ps).data # << >>, NEW i \in Interface
  PROVE  FieldStart(s, i) \in StateSet
<1> DEFINE p == Inmost(s.ps)
           d == Inmost(p.data)
           e == [d EXCEPT !.values = With(@, i.id, << >>), !.current = i]
           q == [p EXCEPT !.data = SetInmost(@, e),
                          !.children = IF HoldsNodes(i) THEN Append(@, << >>) ELSE @]
<1>1. p \in ParseScopeSet
  BY StackOfSeq DEF StateSet
<1>2. p.data \in Seq(DataSet) /\ p.children \in Seq(Seq(Nat))
  BY <1>1 DEF ParseScopeSet
<1>3. d \in DataSet
  BY <1>2, StackOfSeq
<1>4. With(d.values, i.id, << >>) \in Maps(Text, Seq(Nat))
  <2>1. d.values \in Maps(Text, Seq(Nat)) /\ i.id \in Text /\ << >> \in Seq(Nat)
    BY <1>3, EmptySeq DEF DataSet, Interface, Text
  <2> QED BY <2>1, WithMap
<1>5. e \in DataSet
  BY <1>3, <1>4 DEF DataSet
<1>6. SetInmost(p.data, e) \in Seq(DataSet)
  BY <1>2, <1>5, Replaced
<1>7. Append(p.children, << >>) \in Seq(Seq(Nat))
  BY <1>2, Pushed, EmptySeq
<1>8. q \in ParseScopeSet
  BY <1>1, <1>6, <1>7, <1>2 DEF ParseScopeSet
<1>9. [s EXCEPT !.ps = SetInmost(@, q)] \in StateSet
  BY <1>8, InnermostScope
<1>10. [s EXCEPT !.fault = "field"] \in StateSet
  BY DEF StateSet, Faults
<1> QED BY <1>9, <1>10 DEF FieldStart, Unless

-----------------------------------------------------------------------------
(* The rules in progress: each is called by one that may call it, some have *)
(* a scope of their own, and some have a node_data in their scope.          *)

Holding == {"node", "interfaces", "default"}
Openers == {"interfaces", "default"}
Listed == {"sfnode", "mfnode", "list"}
ScopeRules == {"scene", "first", "body"}
Callers == [node |-> ScopeRules \cup Listed, sfnode |-> {"node", "default"},
            mfnode |-> {"node", "default"}, list |-> {"node", "default"},
            interfaces |-> ScopeRules \cup {"node"}, first |-> ScopeRules \cup {"node"},
            body |-> ScopeRules \cup {"node"}, default |-> {"interfaces"}, scene |-> {}]

Grammar(q) == q # << >> /\ q[1] = "scene" /\ \A j \in 2 .. Len(q) : q[j - 1] \in Callers[q[j]]

\* The scope of a rule, the scope of the innermost, and the rules of S that a scope has.
ScopeAt(q, j) == Cardinality({i \in 1 .. j : q[i] \in Scoped})
Top(q) == ScopeAt(q, Len(q))
CountIn(q, k, S) == Cardinality({j \in 1 .. Len(q) : ScopeAt(q, j) = k /\ q[j] \in S})

LEMMA FinitePart ==
  ASSUME NEW n \in Nat, NEW U, U \subseteq 1 .. n
  PROVE  IsFiniteSet(U) /\ Cardinality(U) \in Nat
<1>1. IsFiniteSet(1 .. n)
  BY FS_Interval
<1>2. IsFiniteSet(U)
  BY <1>1, FS_Subset
<1> QED BY <1>2, FS_CardinalityType

LEMMA ScopeAtStep ==
  ASSUME NEW q \in Seq(RuleNames), NEW j \in 0 .. Len(q)
  PROVE  /\ ScopeAt(q, j) \in Nat /\ ScopeAt(q, 0) = 0
         /\ j > 0 => ScopeAt(q, j) = ScopeAt(q, j - 1) + IF q[j] \in Scoped THEN 1 ELSE 0
<1>0. Len(q) \in Nat /\ j \in Nat
  BY LenProperties
<1> DEFINE U(m) == {i \in 1 .. m : q[i] \in Scoped}
<1>1. ASSUME NEW m \in Nat PROVE IsFiniteSet(U(m)) /\ Cardinality(U(m)) \in Nat
  <2>1. U(m) \subseteq 1 .. m
    OBVIOUS
  <2> HIDE DEF U
  <2> QED BY <2>1, FinitePart
<1>2. ScopeAt(q, j) \in Nat
  BY <1>0, <1>1, FS_CardinalityType DEF ScopeAt
<1>3. ScopeAt(q, 0) = 0
  <2>1. U(0) = {}
    OBVIOUS
  <2> QED BY <2>1, FS_EmptySet DEF ScopeAt
<1>4. ASSUME j > 0
      PROVE  ScopeAt(q, j) = ScopeAt(q, j - 1) + IF q[j] \in Scoped THEN 1 ELSE 0
  <2>1. CASE q[j] \in Scoped
    <3>1. U(j) = U(j - 1) \cup {j} /\ j \notin U(j - 1)
      BY <1>0, <1>4, <2>1
    <3>3. IsFiniteSet(U(j - 1))
      BY <1>0, <1>1, <1>4
    <3>4. Cardinality(U(j)) = Cardinality(U(j - 1)) + 1
      <4> HIDE DEF U
      <4> QED BY <3>1, <3>3, FS_AddElement
    <3>5. (IF q[j] \in Scoped THEN 1 ELSE 0) = 1
      BY <2>1
    <3> QED BY <3>4, <3>5 DEF ScopeAt
  <2>2. CASE q[j] \notin Scoped
    <3>1. U(j) = U(j - 1)
      BY <1>0, <1>4, <2>2
    <3>5. j - 1 \in Nat
      BY <1>0, <1>4
    <3>2. Cardinality(U(j - 1)) \in Nat
      <4> HIDE DEF U
      <4> QED BY <3>5, <1>1
    <3>3. (IF q[j] \in Scoped THEN 1 ELSE 0) = 0
      BY <2>2
    <3>4. Cardinality(U(j)) = Cardinality(U(j - 1)) + 0
      <4> HIDE DEF U
      <4> QED BY <3>1, <3>2
    <3> QED BY <3>3, <3>4 DEF ScopeAt
  <2> QED BY <2>1, <2>2
<1> QED BY <1>2, <1>3, <1>4

LEMMA ScopeAtGrows ==
  ASSUME NEW q \in Seq(RuleNames), NEW i \in 0 .. Len(q), NEW j \in 0 .. Len(q), i <= j
  PROVE  ScopeAt(q, i) <= ScopeAt(q, j)
<1>0. Len(q) \in Nat /\ j \in Nat /\ i \in Nat
  BY LenProperties
<1> DEFINE U(m) == {n \in 1 .. m : q[n] \in Scoped}
<1>3. U(i) \subseteq U(j) /\ U(j) \subseteq 1 .. j
  BY <1>0
<1> HIDE DEF U
<1>1. U(i) \subseteq U(j) /\ IsFiniteSet(U(j))
  BY <1>0, <1>3, FinitePart
<1>2. Cardinality(U(i)) <= Cardinality(U(j))
  BY <1>1, FS_Subset
<1> QED BY <1>2 DEF ScopeAt, U

LEMMA TopPush ==
  ASSUME NEW q \in Seq(RuleNames), NEW x \in RuleNames
  PROVE  /\ Top(q) \in Nat /\ Top(Append(q, x)) = Top(q) + IF x \in Scoped THEN 1 ELSE 0
         /\ \A j \in 0 .. Len(q) : ScopeAt(Append(q, x), j) = ScopeAt(q, j)
<1> DEFINE r == Append(q, x)
<1>1. /\ r \in Seq(RuleNames) /\ Len(q) \in Nat /\ Len(r) = Len(q) + 1
      /\ r[Len(q) + 1] = x /\ \A k \in 1 .. Len(q) : r[k] = q[k]
  BY Pushed
<1>2. ASSUME NEW j \in 0 .. Len(q) PROVE ScopeAt(r, j) = ScopeAt(q, j)
  <2>1. {i \in 1 .. j : r[i] \in Scoped} = {i \in 1 .. j : q[i] \in Scoped}
    BY <1>1
  <2> QED BY <2>1 DEF ScopeAt
<1>3. Len(r) \in 0 .. Len(r) /\ Len(r) > 0 /\ Len(q) \in 0 .. Len(q) /\ Len(r) - 1 = Len(q)
  BY <1>1
<1>4. ScopeAt(r, Len(r)) = ScopeAt(r, Len(r) - 1) + IF r[Len(r)] \in Scoped THEN 1 ELSE 0
  BY <1>1, <1>3, ScopeAtStep
<1>5. ScopeAt(q, Len(q)) \in Nat
  BY <1>3, ScopeAtStep
<1> QED BY <1>1, <1>2, <1>3, <1>4, <1>5 DEF Top

LEMMA CountPush ==
  ASSUME NEW q \in Seq(RuleNames), NEW x \in RuleNames, NEW k, NEW S
  PROVE  /\ CountIn(q, k, S) \in Nat
         /\ CountIn(Append(q, x), k, S) =
              CountIn(q, k, S) + IF k = Top(Append(q, x)) /\ x \in S THEN 1 ELSE 0
<1> DEFINE r == Append(q, x)
           U == {j \in 1 .. Len(q) : ScopeAt(q, j) = k /\ q[j] \in S}
           V == {j \in 1 .. Len(r) : ScopeAt(r, j) = k /\ r[j] \in S}
<1>1. /\ r \in Seq(RuleNames) /\ Len(q) \in Nat /\ Len(r) = Len(q) + 1
      /\ r[Len(q) + 1] = x /\ \A i \in 1 .. Len(q) : r[i] = q[i]
  BY Pushed
<1>2. \A j \in 1 .. Len(q) : ScopeAt(r, j) = ScopeAt(q, j)
  BY <1>1, TopPush
<1>7. U \subseteq 1 .. Len(q) /\ Len(r) \notin U
  BY <1>1
<1>3. IsFiniteSet(U) /\ Len(r) \notin U
  <2> HIDE DEF U
  <2> QED BY <1>1, <1>7, FinitePart
<1>4. Cardinality(U) \in Nat
  BY <1>3, FS_CardinalityType
<1>5. CASE k = Top(r) /\ x \in S
  <2>1. V = U \cup {Len(r)}
    BY <1>1, <1>2, <1>5 DEF Top
  <2>2. Cardinality(U \cup {Len(r)}) = Cardinality(U) + 1
    BY <1>3, FS_AddElement
  <2> QED BY <2>1, <2>2, <1>4, <1>5 DEF CountIn
<1>6. CASE ~(k = Top(r) /\ x \in S)
  <2>1. V = U
    BY <1>1, <1>2, <1>6 DEF Top
  <2>2. CountIn(r, k, S) = CountIn(q, k, S)
    BY <2>1 DEF CountIn
  <2> HIDE DEF r
  <2>3. CountIn(q, k, S) \in Nat
    BY <1>4 DEF CountIn
  <2>4. (IF k = Top(r) /\ x \in S THEN 1 ELSE 0) = 0
    BY <1>6
  <2>5. CountIn(r, k, S) = CountIn(q, k, S) + (IF k = Top(r) /\ x \in S THEN 1 ELSE 0)
    BY <2>2, <2>3, <2>4
  <2> QED BY <2>3, <2>5 DEF r
<1> QED BY <1>5, <1>6

\* A scope that is not there yet has no rules.
LEMMA CountAbove ==
  ASSUME NEW q \in Seq(RuleNames), NEW k \in Nat, k > Top(q), NEW S
  PROVE  CountIn(q, k, S) = 0
<1> DEFINE U == {j \in 1 .. Len(q) : ScopeAt(q, j) = k /\ q[j] \in S}
<1>1. Len(q) \in Nat /\ Len(q) \in 0 .. Len(q)
  BY LenProperties
<1>2. ASSUME NEW j \in 1 .. Len(q) PROVE ScopeAt(q, j) # k
  <2>1. j \in 0 .. Len(q) /\ j <= Len(q)
    BY <1>1
  <2>2. ScopeAt(q, j) <= Top(q) /\ ScopeAt(q, j) \in Nat /\ Top(q) \in Nat
    BY <1>1, <2>1, ScopeAtGrows, ScopeAtStep DEF Top
  <2> QED BY <2>2
<1>3. U = {}
  BY <1>2
<1> QED BY <1>3, FS_EmptySet DEF CountIn

LEMMA OpenersHold ==
  ASSUME NEW q \in Seq(RuleNames), NEW k
  PROVE  /\ CountIn(q, k, Openers) \in Nat /\ CountIn(q, k, Holding) \in Nat
         /\ CountIn(q, k, Openers) <= CountIn(q, k, Holding)
<1> DEFINE U == {j \in 1 .. Len(q) : ScopeAt(q, j) = k /\ q[j] \in Openers}
           V == {j \in 1 .. Len(q) : ScopeAt(q, j) = k /\ q[j] \in Holding}
<1>1. Len(q) \in Nat
  BY LenProperties
<1>4. U \subseteq V /\ V \subseteq 1 .. Len(q)
  BY DEF Openers, Holding
<1>2. U \subseteq V /\ IsFiniteSet(V)
  <2> HIDE DEF U, V
  <2> QED BY <1>1, <1>4, FinitePart
<1>3. Cardinality(U) <= Cardinality(V) /\ Cardinality(U) \in Nat /\ Cardinality(V) \in Nat
  BY <1>2, FS_Subset, FS_CardinalityType
<1> QED BY <1>3 DEF CountIn

LEMMA GrammarPop ==
  ASSUME NEW q \in Seq(RuleNames), Grammar(q), Inmost(q) # "scene"
  PROVE  /\ q # << >> /\ Outer(q) \in Seq(RuleNames) /\ Outer(q) # << >>
         /\ Grammar(Outer(q)) /\ Inmost(Outer(q)) \in Callers[Inmost(q)]
         /\ Inmost(q) \in RuleNames /\ q = Append(Outer(q), Inmost(q))
<1>1. /\ Len(q) \in Nat \ {0} /\ Inmost(q) = q[Len(q)] /\ Inmost(q) \in RuleNames
      /\ Outer(q) \in Seq(RuleNames) /\ Len(Outer(q)) = Len(q) - 1
      /\ \A k \in 1 .. Len(q) - 1 : Outer(q)[k] = q[k]
  BY StackOfSeq DEF Grammar
<1>2. Len(q) >= 2
  BY <1>1 DEF Grammar
<1>3. Outer(q) # << >>
  BY <1>1, <1>2, EmptySeq
<1>4. Inmost(Outer(q)) = q[Len(q) - 1]
  BY <1>1, <1>2 DEF Inmost
<1>5. Len(q) \in 2 .. Len(q)
  BY <1>1, <1>2
<1>6. q[Len(q) - 1] \in Callers[q[Len(q)]]
  BY <1>5 DEF Grammar
<1>7. Outer(q)[1] = "scene"
  BY <1>1, <1>2 DEF Grammar
<1>8. ASSUME NEW j \in 2 .. Len(Outer(q)) PROVE Outer(q)[j - 1] \in Callers[Outer(q)[j]]
  <2>1. j \in 2 .. Len(q) /\ Outer(q)[j] = q[j] /\ Outer(q)[j - 1] = q[j - 1]
    BY <1>1
  <2> QED BY <2>1 DEF Grammar
<1>9. q = Append(Outer(q), Inmost(q))
  BY StackIsPushed DEF Grammar
<1> QED BY <1>1, <1>3, <1>4, <1>6, <1>7, <1>8, <1>9 DEF Grammar

LEMMA GrammarPush ==
  ASSUME NEW q \in Seq(RuleNames), Grammar(q), NEW x \in RuleNames, Inmost(q) \in Callers[x]
  PROVE  Grammar(Append(q, x))
<1> DEFINE r == Append(q, x)
<1>1. /\ r # << >> /\ Len(q) \in Nat \ {0} /\ Len(r) = Len(q) + 1
      /\ r[Len(q) + 1] = x /\ (\A k \in 1 .. Len(q) : r[k] = q[k]) /\ Inmost(q) = q[Len(q)]
  <2>1. Len(q) \in Nat \ {0} /\ Inmost(q) = q[Len(q)]
    BY StackOfSeq DEF Grammar
  <2>2. /\ r # << >> /\ Len(r) = Len(q) + 1
        /\ r[Len(q) + 1] = x /\ (\A k \in 1 .. Len(q) : r[k] = q[k])
    BY Pushed
  <2> QED BY <2>1, <2>2
<1>2. r[1] = "scene"
  BY <1>1 DEF Grammar
<1>3. ASSUME NEW j \in 2 .. Len(r) PROVE r[j - 1] \in Callers[r[j]]
  <2>1. CASE j \in 2 .. Len(q)
    <3>1. q[j - 1] \in Callers[q[j]]
      BY <2>1 DEF Grammar
    <3>2. r[j] = q[j] /\ r[j - 1] = q[j - 1]
      BY <1>1, <2>1
    <3> QED BY <3>1, <3>2
  <2>2. CASE j = Len(q) + 1
    <3>1. r[j] = x /\ r[j - 1] = Inmost(q)
      BY <1>1, <2>2
    <3> QED BY <3>1
  <2>3. j \in 2 .. Len(q) \/ j = Len(q) + 1
    BY <1>1
  <2> QED BY <2>1, <2>2, <2>3
<1> QED BY <1>1, <1>2, <1>3 DEF Grammar

\* Only the root has no rule around it, and it has no openers.
LEMMA RootScope ==
  ASSUME NEW q \in Seq(RuleNames), Grammar(q)
  PROVE  CountIn(q, 1, Openers) = 0 /\ Top(q) \in Nat \ {0} /\ Len(q) \in Nat \ {0}
<1>1. Len(q) \in Nat \ {0} /\ q[1] = "scene" /\ 1 \in 0 .. Len(q) /\ 0 \in 0 .. Len(q)
  BY StackOfSeq DEF Grammar
<1>2. ScopeAt(q, 1) = 1
  <2>1. ScopeAt(q, 1) = ScopeAt(q, 0) + 1 /\ ScopeAt(q, 0) = 0
    BY <1>1, ScopeAtStep DEF Scoped
  <2> QED BY <2>1
<1>3. ASSUME NEW j \in 1 .. Len(q), q[j] \in Openers PROVE ScopeAt(q, j) # 1
  <2>1. q[j] \in Scoped /\ q[j] # "scene"
    BY <1>3 DEF Openers, Scoped
  <2>2. j >= 2 /\ j \in 0 .. Len(q) /\ j - 1 \in 0 .. Len(q) /\ 1 <= j - 1 /\ j > 0
    BY <1>1, <2>1
  <2>3. ScopeAt(q, j) = ScopeAt(q, j - 1) + 1
    BY <2>1, <2>2, ScopeAtStep
  <2>4. ScopeAt(q, 1) <= ScopeAt(q, j - 1) /\ ScopeAt(q, j - 1) \in Nat
    BY <1>1, <2>2, ScopeAtGrows, ScopeAtStep
  <2> QED BY <1>2, <2>3, <2>4
<1>4. {j \in 1 .. Len(q) : ScopeAt(q, j) = 1 /\ q[j] \in Openers} = {}
  BY <1>3
<1>5. CountIn(q, 1, Openers) = 0
  BY <1>4, FS_EmptySet DEF CountIn
<1>6. Top(q) \in Nat /\ 1 <= Top(q)
  <2>1. Len(q) \in 0 .. Len(q) /\ 1 <= Len(q)
    BY <1>1
  <2> QED BY <1>1, <1>2, <2>1, ScopeAtGrows, ScopeAtStep DEF Top
<1> QED BY <1>1, <1>5, <1>6

(* The scopes of the grammar and of the actions, and the node_datas of     *)
(* each, are the ones that the rules in progress call for.                 *)
Shape(s) ==
  /\ s \in StateSet /\ Grammar(s.rules)
  /\ Len(s.ps) = Top(s.rules) /\ Len(s.scopes) = Top(s.rules)
  /\ \A k \in 1 .. Len(s.ps) : Len(s.ps[k].data) = CountIn(s.rules, k, Holding)

LEMMA CountsInmost ==
  ASSUME NEW q \in Seq(RuleNames), Grammar(q), Inmost(q) # "scene"
  PROVE  LET r == Inmost(q)
             k == Top(q)
         IN /\ r \in Scoped => \A S : CountIn(q, k, S) = IF r \in S THEN 1 ELSE 0
            /\ r = "node" => /\ CountIn(q, k, Holding) >= 1
                             /\ CountIn(q, k, Openers) < CountIn(q, k, Holding)
            /\ r \in Listed => CountIn(q, k, Holding) >= 1
<1> DEFINE r == Inmost(q)
           k == Top(q)
           o == Outer(q)
<1>1. /\ o \in Seq(RuleNames) /\ Grammar(o) /\ Inmost(o) \in Callers[r] /\ r \in RuleNames
      /\ q = Append(o, r) /\ o # << >>
  BY GrammarPop
<1>2. Top(o) \in Nat /\ k = Top(o) + IF r \in Scoped THEN 1 ELSE 0
  BY <1>1, TopPush
<1> HIDE DEF o, r, k
<1>3. ASSUME NEW S
      PROVE  CountIn(o, k, S) \in Nat /\ CountIn(q, k, S) = CountIn(o, k, S) + IF r \in S THEN 1 ELSE 0
  <2>1. Top(Append(o, r)) = k
    BY <1>1 DEF k
  <2>2. /\ CountIn(o, k, S) \in Nat
        /\ CountIn(Append(o, r), k, S) =
             CountIn(o, k, S) + IF k = Top(Append(o, r)) /\ r \in S THEN 1 ELSE 0
    BY <1>1, CountPush
  <2> QED BY <1>1, <2>1, <2>2
<1>4. ASSUME r \in Scoped, NEW S PROVE CountIn(q, k, S) = IF r \in S THEN 1 ELSE 0
  <2>1. k \in Nat /\ k > Top(o)
    BY <1>2, <1>4
  <2>2. CountIn(o, k, S) = 0
    BY <1>1, <2>1, CountAbove
  <2> QED BY <1>3, <2>2
<1>5. ASSUME r = "node" PROVE CountIn(q, k, Holding) >= 1 /\ CountIn(q, k, Openers) < CountIn(q, k, Holding)
  <2>1. CountIn(q, k, Holding) = CountIn(o, k, Holding) + 1
    BY <1>3, <1>5 DEF Holding
  <2>2. CountIn(q, k, Openers) = CountIn(o, k, Openers) + 0
    BY <1>3, <1>5 DEF Openers
  <2>3. CountIn(o, k, Openers) <= CountIn(o, k, Holding)
    BY <1>1, OpenersHold
  <2>4. CountIn(o, k, Openers) \in Nat /\ CountIn(o, k, Holding) \in Nat
    BY <1>3
  <2> QED BY <2>1, <2>2, <2>3, <2>4
<1>6. ASSUME r \in Listed PROVE CountIn(q, k, Holding) >= 1
  <2>1. Inmost(o) \in {"node", "default"}
    BY <1>1, <1>6 DEF Listed, Callers
  <2>2. Inmost(o) # "scene" /\ Inmost(o) \in Holding
    BY <2>1 DEF Holding
  <2>3. /\ Outer(o) \in Seq(RuleNames) /\ o = Append(Outer(o), Inmost(o)) /\ Inmost(o) \in RuleNames
    BY <1>1, <2>2, GrammarPop
  <2>4. CountIn(Outer(o), Top(o), Holding) \in Nat
    BY <2>3, CountPush
  <2>5. CountIn(o, Top(o), Holding) = CountIn(Outer(o), Top(o), Holding) + 1
    <3> DEFINE t == Outer(o)
               y == Inmost(o)
               h == Top(o)
    <3> HIDE DEF t, y, h
    <3>1. t \in Seq(RuleNames) /\ y \in RuleNames /\ o = Append(t, y) /\ y \in Holding
      BY <2>2, <2>3 DEF t, y
    <3>2. h = Top(Append(t, y))
      BY <3>1 DEF h
    <3>3. CountIn(Append(t, y), h, Holding) =
            CountIn(t, h, Holding) + IF h = Top(Append(t, y)) /\ y \in Holding THEN 1 ELSE 0
      BY <3>1, CountPush
    <3>4. CountIn(o, h, Holding) = CountIn(t, h, Holding) + 1
      BY <3>1, <3>2, <3>3
    <3> QED BY <3>4 DEF t, h
  <2>6. k = Top(o)
    <3>1. r \notin Scoped
      BY <1>6 DEF Listed, Scoped
    <3> QED BY <1>2, <3>1
  <2>7. CountIn(q, k, Holding) = CountIn(o, k, Holding) + 0
    <3>1. r \notin Holding
      BY <1>6 DEF Listed, Holding
    <3> QED BY <1>3, <3>1
  <2> QED BY <2>4, <2>5, <2>6, <2>7
<1> QED BY <1>4, <1>5, <1>6 DEF r, k

LEMMA Shapes ==
  ASSUME NEW s, Shape(s)
  PROVE  LET n == Len(s.ps)
             p == Inmost(s.ps)
             r == Inmost(s.rules)
         IN /\ n \in Nat \ {0} /\ s.ps # << >> /\ s.scopes # << >> /\ s.rules # << >>
            /\ n = Top(s.rules) /\ p = s.ps[n] /\ p \in ParseScopeSet /\ r \in RuleNames
            /\ DOMAIN s.ps = 1 .. n /\ DOMAIN s.scopes = 1 .. n /\ Len(s.scopes) = n
            /\ Inmost(s.scopes) = s.scopes[n] /\ Inmost(s.scopes) \in ScopeSet
            /\ p.data \in Seq(DataSet) /\ Len(p.data) \in Nat /\ DOMAIN p.data = 1 .. Len(p.data)
            /\ r \in {"first", "body"} => p.data = << >> /\ CountIn(s.rules, n, Openers) = 0
            /\ r \in Openers => Len(p.data) = 1 /\ CountIn(s.rules, n, Openers) = 1
            /\ r = "node" => p.data # << >> /\ CountIn(s.rules, n, Openers) < Len(p.data)
            /\ r \in Listed => p.data # << >>
<1> DEFINE n == Len(s.ps)
           p == Inmost(s.ps)
           r == Inmost(s.rules)
<1>1. /\ s.rules \in Seq(RuleNames) /\ s.ps \in Seq(ParseScopeSet) /\ s.scopes \in Seq(ScopeSet)
      /\ Grammar(s.rules) /\ n = Top(s.rules) /\ Len(s.scopes) = n
  BY DEF Shape, StateSet
<1>2. n \in Nat \ {0}
  BY <1>1, RootScope
<1>3. s.ps # << >> /\ s.scopes # << >> /\ s.rules # << >>
  BY <1>1, <1>2, EmptySeq DEF Grammar
<1>4. /\ DOMAIN s.ps = 1 .. n /\ DOMAIN s.scopes = 1 .. n /\ p = s.ps[n] /\ p \in ParseScopeSet
      /\ Inmost(s.scopes) = s.scopes[n] /\ Inmost(s.scopes) \in ScopeSet /\ r \in RuleNames
  BY <1>1, <1>3, StackOfSeq
<1>5. p.data \in Seq(DataSet)
  BY <1>4 DEF ParseScopeSet
<1>6. Len(p.data) \in Nat /\ DOMAIN p.data = 1 .. Len(p.data)
  BY <1>5, LenProperties
<1>7. Len(p.data) = CountIn(s.rules, n, Holding)
  BY <1>2, <1>4 DEF Shape
<1>8. r # "scene" => /\ r \in Scoped => \A S : CountIn(s.rules, n, S) = IF r \in S THEN 1 ELSE 0
                     /\ r = "node" => /\ CountIn(s.rules, n, Holding) >= 1
                                      /\ CountIn(s.rules, n, Openers) < CountIn(s.rules, n, Holding)
                     /\ r \in Listed => CountIn(s.rules, n, Holding) >= 1
  BY <1>1, CountsInmost
<1>9. r \in {"first", "body"} => p.data = << >> /\ CountIn(s.rules, n, Openers) = 0
  <2> SUFFICES ASSUME r \in {"first", "body"} PROVE p.data = << >> /\ CountIn(s.rules, n, Openers) = 0
    OBVIOUS
  <2>1. r # "scene" /\ r \in Scoped /\ r \notin Holding /\ r \notin Openers
    BY DEF Scoped, Holding, Openers
  <2>2. CountIn(s.rules, n, Holding) = 0 /\ CountIn(s.rules, n, Openers) = 0
    BY <1>8, <2>1
  <2> QED BY <1>5, <1>7, <2>2, EmptySeq
<1>10. r \in Openers => Len(p.data) = 1 /\ CountIn(s.rules, n, Openers) = 1
  <2> SUFFICES ASSUME r \in Openers PROVE Len(p.data) = 1 /\ CountIn(s.rules, n, Openers) = 1
    OBVIOUS
  <2>1. r # "scene" /\ r \in Scoped /\ r \in Holding
    BY DEF Scoped, Holding, Openers
  <2> QED BY <1>7, <1>8, <2>1
<1>11. r = "node" => p.data # << >> /\ CountIn(s.rules, n, Openers) < Len(p.data)
  <2> SUFFICES ASSUME r = "node" PROVE p.data # << >> /\ CountIn(s.rules, n, Openers) < Len(p.data)
    OBVIOUS
  <2>1. Len(p.data) >= 1 /\ CountIn(s.rules, n, Openers) < Len(p.data)
    BY <1>7, <1>8
  <2> QED BY <1>6, <2>1, EmptySeq
<1>12. r \in Listed => p.data # << >>
  <2> SUFFICES ASSUME r \in Listed PROVE p.data # << >>
    OBVIOUS
  <2>1. r # "scene"
    BY DEF Listed
  <2>2. Len(p.data) >= 1
    BY <1>7, <1>8, <2>1
  <2> QED BY <1>6, <2>2, EmptySeq
<1> HIDE DEF p, r, n
<1>13. /\ n \in Nat \ {0} /\ s.ps # << >> /\ s.scopes # << >> /\ s.rules # << >>
       /\ n = Top(s.rules) /\ p = s.ps[n] /\ p \in ParseScopeSet /\ r \in RuleNames
       /\ DOMAIN s.ps = 1 .. n /\ DOMAIN s.scopes = 1 .. n /\ Len(s.scopes) = n
       /\ Inmost(s.scopes) = s.scopes[n] /\ Inmost(s.scopes) \in ScopeSet
       /\ p.data \in Seq(DataSet) /\ Len(p.data) \in Nat /\ DOMAIN p.data = 1 .. Len(p.data)
  BY <1>1, <1>2, <1>3, <1>4, <1>5, <1>6
<1> QED BY <1>13, <1>9, <1>10, <1>11, <1>12 DEF p, r, n

-----------------------------------------------------------------------------
(* What the names of a scope stand for.                                    *)

(* The first n node_datas of a scope belong to a PROTO's interfaces; each  *)
(* other one to a node in progress.                                        *)
ScopeNodes(p, n, N) ==
  \A i \in DOMAIN p.data :
    IF i <= n THEN p.data[i].node = 0 /\ p.data[i].name = Anonymous /\ p.data[i].isMap = {}
    ELSE p.data[i].node \in DOMAIN N /\ ~N[p.data[i].node].finished

InProgress(p, name) == \E i \in DOMAIN p.data : p.data[i].name = name

(* A name that the grammar knows is the name of a node that is finished or *)
(* in progress.                                                            *)
ScopeNames(defs, p, N) ==
  /\ \A name \in DOMAIN defs :
       defs[name] \in DOMAIN N /\ (name \in DOMAIN p.names \/ InProgress(p, name))
  /\ \A name \in DOMAIN p.names : p.names[name] \in DOMAIN N
  /\ \A i \in DOMAIN p.data : p.data[i].name # Anonymous => p.data[i].name \in DOMAIN defs

\* The grammar's node of a name is the actions' node of the name.
ScopeCurrent(defs, p, N) ==
  \A name \in DOMAIN defs :
    /\ N[defs[name]].finished => name \in DOMAIN p.names /\ p.names[name] = defs[name]
    /\ ~N[defs[name]].finished =>
         \E i \in DOMAIN p.data : p.data[i].node = defs[name] /\ p.data[i].name = name
    /\ \A i \in DOMAIN p.data : p.data[i].name = name => p.data[i].node = defs[name]

ScopeBodies(p, N) ==
  \A t \in DOMAIN p.bodies : \A name \in DOMAIN p.bodies[t] : p.bodies[t][name] \in DOMAIN N

\* Every IS that was read is in a node_data, or was handed to the PROTO.
SaidOf(p, i) == {<<p.data[i].node, m[1], m[2]>> : m \in p.data[i].isMap}
ScopeSaid(p) == p.said = p.isMap \cup UNION {SaidOf(p, i) : i \in DOMAIN p.data}

Calm(Q) == Q \cap {"nested", "instance"} = {}

GoodScope(s, Q, k) ==
  /\ ScopeNodes(s.ps[k], CountIn(s.rules, k, Openers), s.nodes)
  /\ ScopeNames(s.scopes[k].defs, s.ps[k], s.nodes)
  /\ ScopeBodies(s.ps[k], s.nodes)
  /\ ScopeSaid(s.ps[k])
  /\ Calm(Q) => ScopeCurrent(s.scopes[k].defs, s.ps[k], s.nodes)

\* A node is in progress once.
Alone(s) ==
  \A k, h \in DOMAIN s.ps : \A i \in DOMAIN s.ps[k].data, j \in DOMAIN s.ps[h].data :
    (s.ps[k].data[i].node = s.ps[h].data[j].node /\ s.ps[k].data[i].node # 0) => k = h /\ i = j

Good(s, Q) == Shape(s) /\ (\A k \in 1 .. Len(s.ps) : GoodScope(s, Q, k)) /\ Alone(s)

(* Most steps keep the nodes of the scopes and their names.                *)
SameRules(q, r) ==
  /\ r \in Seq(RuleNames) /\ Grammar(r) /\ Top(r) = Top(q)
  /\ \A k : CountIn(r, k, Holding) = CountIn(q, k, Holding)
  /\ \A k : CountIn(r, k, Openers) = CountIn(q, k, Openers)
SameHolders(p, q) ==
  /\ Len(q.data) = Len(p.data) /\ DOMAIN q.data = DOMAIN p.data /\ q.names = p.names
  /\ \A i \in DOMAIN p.data :
       /\ q.data[i].node = p.data[i].node /\ q.data[i].name = p.data[i].name
       /\ p.data[i].node = 0 => q.data[i].isMap = p.data[i].isMap
SameNodes(N, M) ==
  DOMAIN N \subseteq DOMAIN M /\ \A n \in DOMAIN N : M[n].finished = N[n].finished
Quiet(s, t) ==
  /\ t \in StateSet /\ SameRules(s.rules, t.rules) /\ SameNodes(s.nodes, t.nodes)
  /\ Len(t.ps) = Len(s.ps) /\ Len(t.scopes) = Len(s.scopes)
  /\ \A k \in 1 .. Len(s.ps) :
       /\ SameHolders(s.ps[k], t.ps[k]) /\ t.scopes[k].defs = s.scopes[k].defs
       /\ ScopeSaid(t.ps[k]) /\ ScopeBodies(t.ps[k], t.nodes)

LEMMA QuietScope ==
  ASSUME NEW p, NEW q, SameHolders(p, q), NEW N, NEW M, SameNodes(N, M), NEW n
  PROVE  /\ ScopeNodes(p, n, N) => ScopeNodes(q, n, M)
         /\ \A defs : ScopeNames(defs, p, N) => ScopeNames(defs, q, M)
         /\ \A defs : (ScopeNames(defs, p, N) /\ ScopeCurrent(defs, p, N)) => ScopeCurrent(defs, q, M)
<1>1. /\ DOMAIN q.data = DOMAIN p.data /\ q.names = p.names
      /\ \A i \in DOMAIN p.data :
           /\ q.data[i].node = p.data[i].node /\ q.data[i].name = p.data[i].name
           /\ p.data[i].node = 0 => q.data[i].isMap = p.data[i].isMap
  BY DEF SameHolders
<1>2. DOMAIN N \subseteq DOMAIN M /\ \A m \in DOMAIN N : M[m].finished = N[m].finished
  BY DEF SameNodes
<1>3. \A name : InProgress(q, name) <=> InProgress(p, name)
  BY <1>1 DEF InProgress
<1>4. ScopeNodes(p, n, N) => ScopeNodes(q, n, M)
  BY <1>1, <1>2 DEF ScopeNodes
<1>5. ASSUME NEW defs, ScopeNames(defs, p, N) PROVE ScopeNames(defs, q, M)
  <2>1. ASSUME NEW name \in DOMAIN defs
        PROVE  defs[name] \in DOMAIN M /\ (name \in DOMAIN q.names \/ InProgress(q, name))
    BY <1>1, <1>2, <1>3, <1>5 DEF ScopeNames
  <2>2. \A name \in DOMAIN q.names : q.names[name] \in DOMAIN M
    BY <1>1, <1>2, <1>5 DEF ScopeNames
  <2>3. \A i \in DOMAIN q.data : q.data[i].name # Anonymous => q.data[i].name \in DOMAIN defs
    BY <1>1, <1>5 DEF ScopeNames
  <2> QED BY <2>1, <2>2, <2>3 DEF ScopeNames
<1>6. ASSUME NEW defs, ScopeNames(defs, p, N), ScopeCurrent(defs, p, N)
      PROVE  ScopeCurrent(defs, q, M)
  <2> SUFFICES ASSUME NEW name \in DOMAIN defs
               PROVE  /\ M[defs[name]].finished => name \in DOMAIN q.names /\ q.names[name] = defs[name]
                      /\ ~M[defs[name]].finished =>
                           \E i \in DOMAIN q.data : q.data[i].node = defs[name] /\ q.data[i].name = name
                      /\ \A i \in DOMAIN q.data : q.data[i].name = name => q.data[i].node = defs[name]
    BY DEF ScopeCurrent
  <2>1. defs[name] \in DOMAIN N
    BY <1>6 DEF ScopeNames
  <2>2. M[defs[name]].finished = N[defs[name]].finished
    BY <1>2, <2>1
  <2>3. /\ N[defs[name]].finished => name \in DOMAIN p.names /\ p.names[name] = defs[name]
        /\ ~N[defs[name]].finished =>
             \E i \in DOMAIN p.data : p.data[i].node = defs[name] /\ p.data[i].name = name
        /\ \A i \in DOMAIN p.data : p.data[i].name = name => p.data[i].node = defs[name]
    BY <1>6 DEF ScopeCurrent
  <2> QED BY <1>1, <2>2, <2>3
<1> QED BY <1>4, <1>5, <1>6

LEMMA QuietIsGood ==
  ASSUME NEW s, NEW Q, Good(s, Q), NEW t, Quiet(s, t)
  PROVE  Good(t, Q)
<1> DEFINE n == Len(s.ps)
<1>1. /\ n \in Nat \ {0} /\ DOMAIN s.ps = 1 .. n /\ n = Top(s.rules) /\ Len(s.scopes) = n
  BY Shapes DEF Good
<1>2. /\ t \in StateSet /\ SameRules(s.rules, t.rules) /\ SameNodes(s.nodes, t.nodes)
      /\ Len(t.ps) = n /\ Len(t.scopes) = n
      /\ \A k \in 1 .. n : /\ SameHolders(s.ps[k], t.ps[k]) /\ t.scopes[k].defs = s.scopes[k].defs
                           /\ ScopeSaid(t.ps[k]) /\ ScopeBodies(t.ps[k], t.nodes)
  BY <1>1 DEF Quiet
<1>3. DOMAIN t.ps = 1 .. n
  BY <1>1, <1>2, LenProperties DEF StateSet
<1> HIDE DEF n
<1>4. Shape(t)
  <2>1. /\ Grammar(t.rules) /\ Top(t.rules) = n
        /\ \A k : CountIn(t.rules, k, Holding) = CountIn(s.rules, k, Holding)
    BY <1>1, <1>2 DEF SameRules
  <2>2. ASSUME NEW k \in 1 .. n PROVE Len(t.ps[k].data) = CountIn(t.rules, k, Holding)
    <3>1. Len(s.ps[k].data) = CountIn(s.rules, k, Holding)
      BY DEF Good, Shape, n
    <3>2. Len(t.ps[k].data) = Len(s.ps[k].data)
      BY <1>2 DEF SameHolders
    <3> QED BY <3>1, <3>2, <2>1
  <2> QED BY <1>2, <2>1, <2>2 DEF Shape
<1>5. ASSUME NEW k \in 1 .. n PROVE GoodScope(t, Q, k)
  <2>1. /\ SameHolders(s.ps[k], t.ps[k]) /\ t.scopes[k].defs = s.scopes[k].defs
        /\ ScopeSaid(t.ps[k]) /\ ScopeBodies(t.ps[k], t.nodes) /\ SameNodes(s.nodes, t.nodes)
    BY <1>2
  <2>2. /\ ScopeNodes(s.ps[k], CountIn(s.rules, k, Openers), s.nodes)
        /\ ScopeNames(s.scopes[k].defs, s.ps[k], s.nodes)
        /\ Calm(Q) => ScopeCurrent(s.scopes[k].defs, s.ps[k], s.nodes)
    BY DEF Good, GoodScope, n
  <2>3. CountIn(t.rules, k, Openers) = CountIn(s.rules, k, Openers)
    BY <1>2 DEF SameRules
  <2>4. ScopeNodes(t.ps[k], CountIn(s.rules, k, Openers), t.nodes)
    BY <2>1, <2>2, QuietScope
  <2>5. ScopeNames(s.scopes[k].defs, t.ps[k], t.nodes)
    BY <2>1, <2>2, QuietScope
  <2>6. Calm(Q) => ScopeCurrent(s.scopes[k].defs, t.ps[k], t.nodes)
    BY <2>1, <2>2, QuietScope
  <2> QED BY <2>1, <2>3, <2>4, <2>5, <2>6 DEF GoodScope
<1>6. Alone(t)
  <2> SUFFICES ASSUME NEW k \in 1 .. n, NEW h \in 1 .. n, NEW i \in DOMAIN t.ps[k].data,
                      NEW j \in DOMAIN t.ps[h].data,
                      t.ps[k].data[i].node = t.ps[h].data[j].node, t.ps[k].data[i].node # 0
               PROVE  k = h /\ i = j
    BY <1>3 DEF Alone
  <2>1. SameHolders(s.ps[k], t.ps[k]) /\ SameHolders(s.ps[h], t.ps[h])
    BY <1>2
  <2>2. /\ i \in DOMAIN s.ps[k].data /\ j \in DOMAIN s.ps[h].data
        /\ s.ps[k].data[i].node = t.ps[k].data[i].node
        /\ s.ps[h].data[j].node = t.ps[h].data[j].node
    BY <2>1 DEF SameHolders
  <2> QED BY <1>1, <2>2 DEF Good, Alone
<1> QED BY <1>2, <1>4, <1>5, <1>6 DEF Good

\* The values of nodes come and go, without the nodes.
LEMMA PopListed ==
  ASSUME NEW q \in Seq(RuleNames), Grammar(q), Inmost(q) \in Listed
  PROVE  SameRules(q, Outer(q)) /\ Inmost(Outer(q)) \in {"node", "default"}
<1> DEFINE r == Inmost(q)
           o == Outer(q)
<1>1. r # "scene" /\ r \notin Scoped /\ r \notin Holding /\ r \notin Openers
  BY DEF Listed, Scoped, Holding, Openers
<1>2. /\ o \in Seq(RuleNames) /\ Grammar(o) /\ Inmost(o) \in Callers[r] /\ r \in RuleNames
      /\ q = Append(o, r)
  BY <1>1, GrammarPop
<1>3. Inmost(o) \in {"node", "default"}
  BY <1>2 DEF Listed, Callers
<1> HIDE DEF o, r
<1>4. Top(q) = Top(o)
  BY <1>1, <1>2, TopPush
<1>5. ASSUME NEW k, NEW S, r \notin S PROVE CountIn(o, k, S) = CountIn(q, k, S)
  BY <1>2, <1>5, CountPush
<1> QED BY <1>1, <1>2, <1>3, <1>4, <1>5 DEF SameRules, o

LEMMA PushListed ==
  ASSUME NEW q \in Seq(RuleNames), Grammar(q), NEW x \in Listed, Inmost(q) \in {"node", "default"}
  PROVE  SameRules(q, Append(q, x)) /\ Inmost(Append(q, x)) = x
<1> DEFINE r == Append(q, x)
<1>1. x \in RuleNames /\ x \notin Scoped /\ x \notin Holding /\ x \notin Openers
  BY DEF Listed, Scoped, Holding, Openers, RuleNames
<1>2. Inmost(q) \in Callers[x]
  BY DEF Listed, Callers
<1>3. r \in Seq(RuleNames) /\ Inmost(r) = x
  BY <1>1, Pushed
<1>4. Grammar(r)
  BY <1>1, <1>2, GrammarPush
<1>5. Top(r) = Top(q)
  BY <1>1, TopPush
<1>6. ASSUME NEW k, NEW S, x \notin S PROVE CountIn(r, k, S) = CountIn(q, k, S)
  BY <1>1, <1>6, CountPush
<1> QED BY <1>1, <1>3, <1>4, <1>5, <1>6 DEF SameRules

LEMMA RulesAreSame == ASSUME NEW q \in Seq(RuleNames), Grammar(q) PROVE SameRules(q, q)
BY DEF SameRules

LEMMA ReplaceList ==
  ASSUME NEW q \in Seq(RuleNames), Grammar(q), Inmost(q) = "mfnode"
  PROVE  SameRules(q, SetInmost(q, "list"))
<1>1. Inmost(q) \in Listed /\ "list" \in Listed /\ Inmost(q) # "scene"
  BY DEF Listed
<1>2. SameRules(q, Outer(q)) /\ Inmost(Outer(q)) \in {"node", "default"}
  BY <1>1, PopListed
<1>3. Outer(q) \in Seq(RuleNames) /\ Grammar(Outer(q))
  BY <1>2 DEF SameRules
<1>4. SameRules(Outer(q), Append(Outer(q), "list"))
  BY <1>1, <1>2, <1>3, PushListed
<1> QED BY <1>2, <1>4 DEF SameRules, SetInmost

LEMMA ReplaceFirst ==
  ASSUME NEW q \in Seq(RuleNames), Grammar(q), Inmost(q) = "first"
  PROVE  SameRules(q, SetInmost(q, "body"))
<1> DEFINE o == Outer(q)
           r == Append(o, "body")
<1>1. /\ o \in Seq(RuleNames) /\ Grammar(o) /\ Inmost(o) \in Callers["first"]
      /\ q = Append(o, "first") /\ "first" \in RuleNames /\ "body" \in RuleNames
  BY GrammarPop DEF RuleNames
<1> HIDE DEF o
<1>2. r \in Seq(RuleNames)
  BY <1>1, Pushed
<1>3. Inmost(o) \in Callers["body"]
  BY <1>1 DEF Callers
<1>4. Grammar(r)
  BY <1>1, <1>3, GrammarPush
<1>5. Top(r) = Top(o) + 1 /\ Top(q) = Top(o) + 1
  BY <1>1, TopPush DEF Scoped
<1>6. ASSUME NEW k, NEW S, "first" \notin S, "body" \notin S
      PROVE  CountIn(r, k, S) = CountIn(q, k, S)
  <2>1. CountIn(r, k, S) = CountIn(o, k, S) + 0
    BY <1>1, <1>6, CountPush
  <2>2. CountIn(Append(o, "first"), k, S) = CountIn(o, k, S) + 0
    BY <1>1, <1>6, CountPush
  <2> QED BY <2>1, <2>2, <1>1
<1>7. \A k : CountIn(r, k, Holding) = CountIn(q, k, Holding) /\ CountIn(r, k, Openers) = CountIn(q, k, Openers)
  BY <1>6 DEF Holding, Openers
<1> QED BY <1>2, <1>4, <1>5, <1>7 DEF SameRules, SetInmost, o

\* The innermost scope, with the same nodes and the same ISs.
SameSaid(p, q) ==
  /\ SameHolders(p, q) /\ q.said = p.said /\ q.isMap = p.isMap /\ q.bodies = p.bodies
  /\ \A i \in DOMAIN p.data : q.data[i].isMap = p.data[i].isMap

LEMMA SaidStays ==
  ASSUME NEW p, NEW q, SameSaid(p, q), ScopeSaid(p)
  PROVE  ScopeSaid(q)
<1>1. /\ DOMAIN q.data = DOMAIN p.data /\ q.said = p.said /\ q.isMap = p.isMap
      /\ \A i \in DOMAIN p.data : q.data[i].node = p.data[i].node /\ q.data[i].isMap = p.data[i].isMap
  BY DEF SameSaid, SameHolders
<1>2. \A i \in DOMAIN p.data : SaidOf(q, i) = SaidOf(p, i)
  BY <1>1 DEF SaidOf
<1>3. UNION {SaidOf(q, i) : i \in DOMAIN q.data} = UNION {SaidOf(p, i) : i \in DOMAIN p.data}
  BY <1>1, <1>2
<1> QED BY <1>1, <1>3 DEF ScopeSaid

LEMMA BodiesStay ==
  ASSUME NEW p, NEW q, q.bodies = p.bodies, NEW N, NEW M, SameNodes(N, M), ScopeBodies(p, N)
  PROVE  ScopeBodies(q, M)
BY DEF ScopeBodies, SameNodes

LEMMA HoldersAreSame == \A p : SameHolders(p, p)
BY DEF SameHolders
LEMMA NodesAreSame == \A N : SameNodes(N, N)
BY DEF SameNodes

\* A step in the innermost scope.
LEMMA QuietInmost ==
  ASSUME NEW s, NEW Q, Good(s, Q), NEW t \in StateSet, NEW q \in ParseScopeSet,
         t.ps = SetInmost(s.ps, q), SameRules(s.rules, t.rules), SameNodes(s.nodes, t.nodes),
         Len(t.scopes) = Len(s.scopes),
         \A k \in 1 .. Len(s.ps) : t.scopes[k].defs = s.scopes[k].defs,
         SameHolders(Inmost(s.ps), q), ScopeSaid(q), q.bodies = Inmost(s.ps).bodies
  PROVE  Quiet(s, t)
<1> DEFINE n == Len(s.ps)
<1>1. /\ n \in Nat \ {0} /\ s.ps # << >> /\ Inmost(s.ps) = s.ps[n] /\ s.ps \in Seq(ParseScopeSet)
  BY Shapes DEF Good, Shape, StateSet
<1>2. /\ Len(t.ps) = n /\ t.ps[n] = q /\ \A k \in 1 .. n - 1 : t.ps[k] = s.ps[k]
  <2>1. /\ Len(SetInmost(s.ps, q)) = Len(s.ps) /\ SetInmost(s.ps, q)[Len(s.ps)] = q
        /\ \A k \in 1 .. Len(s.ps) - 1 : SetInmost(s.ps, q)[k] = s.ps[k]
    BY <1>1, ReplacedScope
  <2> QED BY <2>1
<1>3. ASSUME NEW k \in 1 .. n
      PROVE  SameHolders(s.ps[k], t.ps[k]) /\ ScopeSaid(t.ps[k]) /\ t.ps[k].bodies = s.ps[k].bodies
  <2>1. CASE k = n
    BY <1>1, <1>2, <2>1
  <2>2. CASE k \in 1 .. n - 1
    <3>1. ScopeSaid(s.ps[k])
      BY DEF Good, GoodScope
    <3> QED BY <1>2, <2>2, <3>1, HoldersAreSame
  <2> QED BY <1>1, <2>1, <2>2
<1>4. ASSUME NEW k \in 1 .. n PROVE ScopeBodies(t.ps[k], t.nodes)
  <2>1. ScopeBodies(s.ps[k], s.nodes)
    BY DEF Good, GoodScope
  <2> QED BY <1>3, <2>1, BodiesStay
<1> QED BY <1>2, <1>3, <1>4 DEF Quiet

\* The innermost node_data, with the same node.
LEMMA SameData ==
  ASSUME NEW p \in ParseScopeSet, p.data # << >>, NEW e \in DataSet, NEW q \in ParseScopeSet,
         e.node = Inmost(p.data).node, e.name = Inmost(p.data).name, e.isMap = Inmost(p.data).isMap,
         q.data = SetInmost(p.data, e), q.names = p.names, q.said = p.said, q.isMap = p.isMap,
         q.bodies = p.bodies
  PROVE  SameSaid(p, q)
<1> DEFINE n == Len(p.data)
<1>1. p.data \in Seq(DataSet)
  BY DEF ParseScopeSet
<1>2. n \in Nat \ {0} /\ Inmost(p.data) = p.data[n] /\ DOMAIN p.data = 1 .. n
  BY <1>1, StackOfSeq
<1>3. /\ Len(q.data) = n /\ DOMAIN q.data = DOMAIN p.data /\ q.data[n] = e
      /\ \A k \in 1 .. n - 1 : q.data[k] = p.data[k]
  <2>1. /\ Len(SetInmost(p.data, e)) = Len(p.data) /\ SetInmost(p.data, e)[Len(p.data)] = e
        /\ DOMAIN SetInmost(p.data, e) = DOMAIN p.data
        /\ \A k \in 1 .. Len(p.data) - 1 : SetInmost(p.data, e)[k] = p.data[k]
    BY <1>1, ReplacedData
  <2> QED BY <2>1
<1>4. \A i \in DOMAIN p.data : /\ q.data[i].node = p.data[i].node /\ q.data[i].name = p.data[i].name
                               /\ q.data[i].isMap = p.data[i].isMap
  BY <1>2, <1>3
<1> QED BY <1>3, <1>4 DEF SameSaid, SameHolders

\* The same node_datas altogether.
LEMMA SameDatas ==
  ASSUME NEW p, NEW q, q.data = p.data, q.names = p.names, q.said = p.said, q.isMap = p.isMap,
         q.bodies = p.bodies
  PROVE  SameSaid(p, q)
BY DEF SameSaid, SameHolders

LEMMA GoodInmost ==
  ASSUME NEW s, NEW Q, Good(s, Q)
  PROVE  LET p == Inmost(s.ps)
         IN /\ s \in StateSet /\ Len(s.ps) \in 1 .. Len(s.ps) /\ p = s.ps[Len(s.ps)]
            /\ s.ps # << >> /\ s.scopes # << >> /\ p \in ParseScopeSet /\ ScopeSaid(p)
            /\ SameRules(s.rules, s.rules) /\ p.data \in Seq(DataSet)
            /\ s.rules \in Seq(RuleNames) /\ Grammar(s.rules)
<1>1. /\ Len(s.ps) \in 1 .. Len(s.ps) /\ Inmost(s.ps) = s.ps[Len(s.ps)] /\ s.ps # << >>
      /\ s.scopes # << >> /\ Inmost(s.ps) \in ParseScopeSet /\ Inmost(s.ps).data \in Seq(DataSet)
  BY Shapes DEF Good
<1>2. s \in StateSet /\ s.rules \in Seq(RuleNames) /\ Grammar(s.rules)
  BY DEF Good, Shape, StateSet
<1>3. ScopeSaid(Inmost(s.ps))
  BY <1>1 DEF Good, GoodScope
<1> QED BY <1>1, <1>2, <1>3, RulesAreSame

-----------------------------------------------------------------------------
(* The parts of the actions.                                               *)

\* What the actions' destructor needs to know of the parse that it ends.
RootNodes(s) ==
  /\ s \in StateSet /\ s.ps # << >>
  /\ \A i \in DOMAIN s.ps[1].data : s.ps[1].data[i].node \in DOMAIN s.nodes

Fine(s, Q) ==
  /\ s.fault = "parsing" => Good(s, Q)
  /\ s.fault = "exception" => RootNodes(s)

Follows(s, t) == t.fault = "parsing" => s.fault = "parsing" /\ t.rules = s.rules

\* The fields of a state.
Fields == {"rules", "scopes", "ps", "nodes", "result", "fault"}

LEMMA StateFields == \A s \in StateSet : DOMAIN s = Fields
BY DEF StateSet, Fields

LEMMA FaultSet ==
  ASSUME NEW s, DOMAIN s = Fields, NEW f
  PROVE  [s EXCEPT !.fault = f].fault = f
BY DEF Fields

LEMMA RootIsKnown ==
  ASSUME NEW s, NEW Q, Good(s, Q)
  PROVE  RootNodes(s)
<1>1. s \in StateSet /\ s.ps # << >> /\ Grammar(s.rules) /\ s.rules \in Seq(RuleNames) /\ 1 \in 1 .. Len(s.ps)
  <2>1. Len(s.ps) \in Nat \ {0} /\ s.ps # << >>
    BY Shapes DEF Good
  <2>2. s \in StateSet /\ Grammar(s.rules)
    BY DEF Good, Shape
  <2> QED BY <2>1, <2>2 DEF StateSet
<1>2. CountIn(s.rules, 1, Openers) = 0
  BY <1>1, RootScope
<1>3. ScopeNodes(s.ps[1], 0, s.nodes)
  BY <1>1, <1>2 DEF Good, GoodScope
<1>4. s.ps[1] \in ParseScopeSet
  BY <1>1, ElementOfSeq DEF StateSet
<1>5. s.ps[1].data \in Seq(DataSet)
  BY <1>4 DEF ParseScopeSet
<1>6. DOMAIN s.ps[1].data = 1 .. Len(s.ps[1].data) /\ Len(s.ps[1].data) \in Nat
  BY <1>5, LenProperties
<1>7. ASSUME NEW i \in DOMAIN s.ps[1].data PROVE s.ps[1].data[i].node \in DOMAIN s.nodes
  <2>1. ~(i <= 0)
    BY <1>6
  <2> QED BY <1>3, <2>1 DEF ScopeNodes
<1> QED BY <1>1, <1>7 DEF RootNodes

LEMMA InmostData ==
  ASSUME NEW p \in ParseScopeSet, p.data # << >>
  PROVE  /\ Inmost(p.data) \in DataSet /\ Inmost(p.data) = p.data[Len(p.data)]
         /\ Len(p.data) \in DOMAIN p.data /\ DOMAIN p.data = 1 .. Len(p.data)
         /\ Len(p.data) \in Nat \ {0} /\ p.data \in Seq(DataSet)
<1>1. p.data \in Seq(DataSet)
  BY DEF ParseScopeSet
<1> QED BY <1>1, StackOfSeq

\* The node that is read.
LEMMA NodeRead ==
  ASSUME NEW s, NEW Q, Good(s, Q), Inmost(s.rules) = "node"
  PROVE  LET p == Inmost(s.ps)
             d == Inmost(p.data)
         IN /\ p.data # << >> /\ d \in DataSet /\ d.node \in DOMAIN s.nodes /\ d.node # 0
            /\ ~s.nodes[d.node].finished /\ s.nodes[d.node] \in NodeSet
            /\ DOMAIN s.nodes = 1 .. Len(s.nodes) /\ Len(s.nodes) \in Nat
<1> DEFINE p == Inmost(s.ps)
           d == Inmost(p.data)
           n == Len(s.ps)
<1>1. /\ n \in 1 .. n /\ p = s.ps[n] /\ p \in ParseScopeSet
      /\ p.data # << >> /\ CountIn(s.rules, n, Openers) < Len(p.data)
  BY Shapes DEF Good
<1>2. /\ d \in DataSet /\ d = p.data[Len(p.data)] /\ Len(p.data) \in DOMAIN p.data
      /\ Len(p.data) \in Nat
  BY <1>1, InmostData
<1>3. ScopeNodes(p, CountIn(s.rules, n, Openers), s.nodes)
  BY <1>1 DEF Good, GoodScope
<1>4. ~(Len(p.data) <= CountIn(s.rules, n, Openers))
  <2>1. CountIn(s.rules, n, Openers) \in Nat
    <3>1. s.rules \in Seq(RuleNames)
      BY DEF Good, Shape, StateSet
    <3> QED BY <3>1, OpenersHold
  <2> QED BY <1>1, <1>2, <2>1
<1>5. d.node \in DOMAIN s.nodes /\ ~s.nodes[d.node].finished
  BY <1>2, <1>3, <1>4 DEF ScopeNodes
<1>6. s.nodes \in Seq(NodeSet)
  BY DEF Good, Shape, StateSet
<1>7. DOMAIN s.nodes = 1 .. Len(s.nodes) /\ Len(s.nodes) \in Nat
  BY <1>6, LenProperties
<1>8. s.nodes[d.node] \in NodeSet
  BY <1>5, <1>6, <1>7, ElementOfSeq
<1>9. d.node # 0
  BY <1>5, <1>7
<1> QED BY <1>1, <1>2, <1>5, <1>7, <1>8, <1>9

\* A step in the innermost scope that keeps all but its values and lists.
LEMMA InmostStep ==
  ASSUME NEW s, NEW Q, Good(s, Q), NEW q \in ParseScopeSet,
         SameHolders(Inmost(s.ps), q), ScopeSaid(q), q.bodies = Inmost(s.ps).bodies
  PROVE  Good([s EXCEPT !.ps = SetInmost(@, q)], Q)
<1> DEFINE t == [s EXCEPT !.ps = SetInmost(@, q)]
<1>1. /\ s \in StateSet /\ s.ps # << >> /\ SameRules(s.rules, s.rules)
  BY GoodInmost
<1>2. t \in StateSet
  BY <1>1, InnermostScope
<1>3. t.ps = SetInmost(s.ps, q) /\ t.rules = s.rules /\ t.scopes = s.scopes /\ t.nodes = s.nodes
  BY <1>1 DEF StateSet
<1> HIDE DEF t
<1>4. SameNodes(s.nodes, t.nodes)
  BY <1>3, NodesAreSame
<1>5. Quiet(s, t)
  BY <1>1, <1>2, <1>3, <1>4, QuietInmost
<1>6. Good(t, Q)
  BY <1>5, QuietIsGood
<1> QED BY <1>6 DEF t

LEMMA FieldStartIsFine ==
  ASSUME NEW s, NEW Q, Fine(s, Q), s.fault = "parsing" => Inmost(s.rules) = "node",
         NEW i \in Interface
  PROVE  Fine(FieldStart(s, i), Q) /\ Follows(s, FieldStart(s, i))
<1> DEFINE p == Inmost(s.ps)
           d == Inmost(p.data)
           e == [d EXCEPT !.values = With(@, i.id, << >>), !.current = i]
           q == [p EXCEPT !.data = SetInmost(@, e),
                          !.children = IF HoldsNodes(i) THEN Append(@, << >>) ELSE @]
           t == [s EXCEPT !.ps = SetInmost(@, q)]
<1>1. CASE s.fault # "parsing"
  BY <1>1 DEF FieldStart, Unless, Follows
<1>2. CASE s.fault = "parsing" /\ i.id \in DOMAIN d.values
  <2>1. DOMAIN s = Fields
    BY <1>2, StateFields DEF Fine, Good, Shape
  <2>2. FieldStart(s, i) = [s EXCEPT !.fault = "field"]
    BY <1>2 DEF FieldStart, Unless
  <2>3. FieldStart(s, i).fault = "field"
    BY <2>1, <2>2, FaultSet
  <2> QED BY <2>3 DEF Fine, Follows
<1>3. CASE s.fault = "parsing" /\ i.id \notin DOMAIN d.values
  <2>1. Good(s, Q) /\ Inmost(s.rules) = "node"
    BY <1>3 DEF Fine
  <2>2. FieldStart(s, i) = t
    BY <1>3 DEF FieldStart, Unless
  <2>3. p.data # << >> /\ d \in DataSet
    BY <2>1, NodeRead
  <2>4. p \in ParseScopeSet /\ p.data \in Seq(DataSet) /\ ScopeSaid(p) /\ s \in StateSet
    BY <2>1, GoodInmost
  <2>5. With(d.values, i.id, << >>) \in Maps(Text, Seq(Nat))
    <3>1. d.values \in Maps(Text, Seq(Nat)) /\ i.id \in Text /\ << >> \in Seq(Nat)
      BY <2>3, EmptySeq DEF DataSet, Interface, Text
    <3> QED BY <3>1, WithMap
  <2>6. e \in DataSet /\ e.node = d.node /\ e.name = d.name /\ e.isMap = d.isMap
    BY <2>3, <2>5 DEF DataSet
  <2>7. SetInmost(p.data, e) \in Seq(DataSet)
    BY <2>3, <2>4, <2>6, ReplacedData
  <2>8. p.children \in Seq(Seq(Nat))
    BY <2>4 DEF ParseScopeSet
  <2>9. Append(p.children, << >>) \in Seq(Seq(Nat))
    BY <2>8, Pushed, EmptySeq
  <2>10. /\ q \in ParseScopeSet /\ q.data = SetInmost(p.data, e) /\ q.names = p.names
         /\ q.said = p.said /\ q.isMap = p.isMap /\ q.bodies = p.bodies
    BY <2>4, <2>7, <2>8, <2>9 DEF ParseScopeSet
  <2> HIDE DEF q, e
  <2>11. SameSaid(p, q)
    BY <2>3, <2>4, <2>6, <2>10, SameData
  <2>12. SameHolders(p, q) /\ ScopeSaid(q)
    BY <2>4, <2>11, SaidStays DEF SameSaid
  <2>13. Good(t, Q)
    BY <2>1, <2>10, <2>12, InmostStep
  <2>14. t.fault = "parsing" /\ t.rules = s.rules
    BY <1>3, <2>4 DEF StateSet
  <2> HIDE DEF t
  <2> QED BY <1>3, <2>2, <2>13, <2>14 DEF Fine, Follows
<1> QED BY <1>1, <1>2, <1>3

LEMMA FailsFine ==
  ASSUME NEW s \in StateSet, NEW Q, NEW f, f # "parsing", f # "exception"
  PROVE  Fine([s EXCEPT !.fault = f], Q) /\ Follows(s, [s EXCEPT !.fault = f])
<1>1. [s EXCEPT !.fault = f].fault = f
  BY StateFields, FaultSet
<1> HIDE DEF Good, RootNodes
<1> QED BY <1>1 DEF Fine, Follows

LEMMA PopChildrenIsFine ==
  ASSUME NEW s, NEW Q, Fine(s, Q)
  PROVE  Fine(PopChildren(s), Q) /\ Follows(s, PopChildren(s))
<1> DEFINE p == Inmost(s.ps)
           q == [p EXCEPT !.children = Outer(@)]
           t == [s EXCEPT !.ps = SetInmost(@, q)]
<1>1. CASE s.fault # "parsing"
  BY <1>1 DEF PopChildren, Unless, Follows
<1>2. CASE s.fault = "parsing" /\ p.children = << >>
  <2>1. s \in StateSet
    BY <1>2 DEF Fine, Good, Shape
  <2>2. PopChildren(s) = [s EXCEPT !.fault = "children"]
    BY <1>2 DEF PopChildren, Unless
  <2> QED BY <2>1, <2>2, FailsFine
<1>3. CASE s.fault = "parsing" /\ p.children # << >>
  <2>1. Good(s, Q)
    BY <1>3 DEF Fine
  <2>2. p \in ParseScopeSet /\ ScopeSaid(p) /\ s \in StateSet /\ s.ps # << >>
    BY <2>1, GoodInmost
  <2>3. PopChildren(s) = t
    BY <1>3 DEF PopChildren, Unless
  <2>4. p.children \in Seq(Seq(Nat))
    BY <2>2 DEF ParseScopeSet
  <2>5. Outer(p.children) \in Seq(Seq(Nat))
    BY <1>3, <2>4, StackOfSeq
  <2>6. /\ q \in ParseScopeSet /\ q.data = p.data /\ q.names = p.names
        /\ q.said = p.said /\ q.isMap = p.isMap /\ q.bodies = p.bodies
    BY <2>2, <2>5 DEF ParseScopeSet
  <2> HIDE DEF q
  <2>7. SameSaid(p, q)
    BY <2>6, SameDatas
  <2>8. SameHolders(p, q) /\ ScopeSaid(q)
    BY <2>2, <2>7, SaidStays DEF SameSaid
  <2>9. Good(t, Q)
    BY <2>1, <2>6, <2>8, InmostStep
  <2>10. t.fault = "parsing" /\ t.rules = s.rules
    BY <1>3, <2>2 DEF StateSet
  <2> HIDE DEF t
  <2> QED BY <1>3, <2>3, <2>9, <2>10 DEF Fine, Follows
<1> QED BY <1>1, <1>2, <1>3

LEMMA MappedIsFine ==
  ASSUME NEW s, NEW Q, Good(s, Q), s.fault = "parsing", Inmost(s.rules) = "node",
         NEW i \in Interface, NEW j \in Interface
  PROVE  Fine(Mapped(s, i, j), Q) /\ Follows(s, Mapped(s, i, j))
<1> DEFINE p == Inmost(s.ps)
           d == Inmost(p.data)
           m == Len(p.data)
           v == IF s.nodes[d.node].type = Script THEN d.values
                ELSE Restrict(d.values, DOMAIN d.values \ {i.id})
           e == [d EXCEPT !.isMap = @ \cup {<<i.id, j.id>>}, !.values = v, !.current = None]
           q == [p EXCEPT !.data = SetInmost(@, e), !.said = @ \cup {<<d.node, i.id, j.id>>}]
           t == [s EXCEPT !.ps = SetInmost(@, q)]
<1>1. Mapped(s, i, j) = t
  BY DEF Mapped
<1>2. p.data # << >> /\ d \in DataSet /\ d.node # 0
  BY NodeRead
<1>3. p \in ParseScopeSet /\ ScopeSaid(p) /\ s \in StateSet
  BY GoodInmost
<1>4. /\ d = p.data[m] /\ m \in DOMAIN p.data /\ DOMAIN p.data = 1 .. m /\ m \in Nat \ {0}
      /\ p.data \in Seq(DataSet)
  BY <1>2, <1>3, InmostData
<1>5. i.id \in STRING /\ j.id \in STRING
  BY DEF Interface
<1>6. d.values \in Maps(Text, Seq(Nat))
  BY <1>2 DEF DataSet
<1>7. Restrict(d.values, DOMAIN d.values \ {i.id}) \in Maps(Text, Seq(Nat))
  BY <1>6, RestrictMap
<1>8. v \in Maps(Text, Seq(Nat)) /\ <<i.id, j.id>> \in STRING \X STRING
  BY <1>5, <1>6, <1>7
<1> HIDE DEF v
<1>9. /\ e \in DataSet /\ e.node = d.node /\ e.name = d.name
      /\ e.isMap = d.isMap \cup {<<i.id, j.id>>}
  BY <1>2, <1>8 DEF DataSet
<1> HIDE DEF e
<1>10. /\ SetInmost(p.data, e) \in Seq(DataSet) /\ Len(SetInmost(p.data, e)) = m
       /\ DOMAIN SetInmost(p.data, e) = DOMAIN p.data /\ SetInmost(p.data, e)[m] = e
       /\ \A k \in 1 .. m - 1 : SetInmost(p.data, e)[k] = p.data[k]
  BY <1>2, <1>4, <1>9, ReplacedData
<1>11. /\ q \in ParseScopeSet /\ q.data = SetInmost(p.data, e) /\ q.names = p.names
       /\ q.said = p.said \cup {<<d.node, i.id, j.id>>} /\ q.isMap = p.isMap /\ q.bodies = p.bodies
  <2>1. <<d.node, i.id, j.id>> \in Nat \X STRING \X STRING
    BY <1>2, <1>5 DEF DataSet
  <2> QED BY <1>3, <1>10, <2>1 DEF ParseScopeSet
<1> HIDE DEF q
<1>12. \A k \in DOMAIN p.data :
         /\ q.data[k].node = p.data[k].node /\ q.data[k].name = p.data[k].name
         /\ k # m => q.data[k].isMap = p.data[k].isMap
  BY <1>4, <1>9, <1>10, <1>11
<1>13. SameHolders(p, q)
  BY <1>2, <1>4, <1>10, <1>11, <1>12 DEF SameHolders
<1>14. ScopeSaid(q)
  <2>1. \A k \in DOMAIN p.data \ {m} : SaidOf(q, k) = SaidOf(p, k)
    BY <1>12 DEF SaidOf
  <2>2. q.data[m].node = d.node /\ q.data[m].isMap = d.isMap \cup {<<i.id, j.id>>}
    BY <1>9, <1>10, <1>11
  <2>3. SaidOf(q, m) = SaidOf(p, m) \cup {<<d.node, i.id, j.id>>}
    <3>1. SaidOf(q, m) = {<<d.node, x[1], x[2]>> : x \in d.isMap \cup {<<i.id, j.id>>}}
      BY <2>2 DEF SaidOf
    <3>2. SaidOf(p, m) = {<<d.node, x[1], x[2]>> : x \in d.isMap}
      BY <1>4 DEF SaidOf
    <3>3. <<i.id, j.id>>[1] = i.id /\ <<i.id, j.id>>[2] = j.id
      OBVIOUS
    <3> QED BY <3>1, <3>2, <3>3
  <2>4. UNION {SaidOf(q, k) : k \in DOMAIN p.data} =
          (UNION {SaidOf(p, k) : k \in DOMAIN p.data}) \cup {<<d.node, i.id, j.id>>}
    BY <1>4, <2>1, <2>3
  <2>5. p.said = p.isMap \cup UNION {SaidOf(p, k) : k \in DOMAIN p.data}
    BY <1>3 DEF ScopeSaid
  <2>6. DOMAIN q.data = DOMAIN p.data
    BY <1>10, <1>11
  <2> QED BY <1>11, <2>4, <2>5, <2>6 DEF ScopeSaid
<1>15. Good(t, Q)
  BY <1>11, <1>13, <1>14, InmostStep
<1>16. t.fault = "parsing" /\ t.rules = s.rules
  BY <1>3 DEF StateSet
<1> HIDE DEF t
<1> QED BY <1>1, <1>15, <1>16 DEF Fine, Follows

LEMMA IsMappingIsFine ==
  ASSUME NEW s, NEW Q, Fine(s, Q), s.fault = "parsing" => Inmost(s.rules) = "node",
         NEW i \in Interface, NEW j \in Interface
  PROVE  Fine(IsMapping(s, i, j), Q) /\ Follows(s, IsMapping(s, i, j))
<1>1. CASE s.fault # "parsing"
  BY <1>1 DEF IsMapping, Unless, Follows
<1>2. CASE s.fault = "parsing"
  <2> DEFINE t == Mapped(s, i, j)
  <2>1. Good(s, Q)
    BY <1>2 DEF Fine
  <2>2. Fine(t, Q) /\ Follows(s, t)
    BY <1>2, <2>1, MappedIsFine
  <2>3. Fine(PopChildren(t), Q) /\ Follows(t, PopChildren(t))
    BY <2>2, PopChildrenIsFine
  <2>4. IsMapping(s, i, j) = IF HoldsNodes(i) THEN PopChildren(t) ELSE t
    BY <1>2 DEF IsMapping, Unless
  <2> HIDE DEF t
  <2>5. CASE HoldsNodes(i)
    <3>1. IsMapping(s, i, j) = PopChildren(t)
      BY <2>4, <2>5
    <3> QED BY <3>1, <2>2, <2>3 DEF Follows
  <2>6. CASE ~HoldsNodes(i)
    BY <2>2, <2>4, <2>6
  <2> QED BY <2>5, <2>6
<1> QED BY <1>1, <1>2

\* A step that keeps all the actions' scopes.
LEMMA QuietOutside ==
  ASSUME NEW s, NEW Q, Good(s, Q), NEW t \in StateSet, t.ps = s.ps,
         SameRules(s.rules, t.rules), SameNodes(s.nodes, t.nodes), Len(t.scopes) = Len(s.scopes),
         \A k \in 1 .. Len(s.ps) : t.scopes[k].defs = s.scopes[k].defs
  PROVE  Good(t, Q)
<1>1. ASSUME NEW k \in 1 .. Len(s.ps)
      PROVE  SameHolders(s.ps[k], t.ps[k]) /\ ScopeSaid(t.ps[k]) /\ ScopeBodies(t.ps[k], t.nodes)
  <2>1. ScopeSaid(s.ps[k]) /\ ScopeBodies(s.ps[k], s.nodes)
    BY DEF Good, GoodScope
  <2>2. ScopeBodies(t.ps[k], t.nodes)
    BY <2>1, BodiesStay
  <2> QED BY <2>1, <2>2, HoldersAreSame
<1>2. Quiet(s, t)
  BY <1>1 DEF Quiet
<1> QED BY <1>2, QuietIsGood

LEMMA RulesStep ==
  ASSUME NEW s, NEW Q, Good(s, Q), NEW r, SameRules(s.rules, r)
  PROVE  Good([s EXCEPT !.rules = r], Q)
<1> DEFINE t == [s EXCEPT !.rules = r]
<1>1. s \in StateSet /\ r \in Seq(RuleNames)
  BY GoodInmost DEF SameRules
<1>2. /\ t \in StateSet /\ t.ps = s.ps /\ t.rules = r /\ t.scopes = s.scopes /\ t.nodes = s.nodes
  BY <1>1 DEF StateSet
<1> HIDE DEF t
<1>3. SameNodes(s.nodes, t.nodes)
  BY <1>2, NodesAreSame
<1>4. Good(t, Q)
  BY <1>2, <1>3, QuietOutside
<1> QED BY <1>4 DEF t

LEMMA SetValueIsFine ==
  ASSUME NEW s, NEW Q, Fine(s, Q), s.fault = "parsing" => Inmost(s.ps).data # << >>
  PROVE  Fine(SetValue(s), Q) /\ Follows(s, SetValue(s))
<1> DEFINE p == Inmost(s.ps)
           d == Inmost(p.data)
           list == Inmost(p.children)
           value == IF d.current.value = "sfnode" /\ list # << >> THEN << list[1] >> ELSE list
           e == [d EXCEPT !.values = With(@, d.current.id, value)]
           q == [p EXCEPT !.data = SetInmost(@, e)]
           t == [s EXCEPT !.ps = SetInmost(@, q)]
<1>0. SetValue(s) = Unless(p.children = << >>, "children", s, PopChildren(t))
  BY DEF SetValue
<1>1. CASE s.fault # "parsing"
  BY <1>0, <1>1 DEF Unless, Follows
<1>2. CASE s.fault = "parsing" /\ p.children = << >>
  <2>1. s \in StateSet
    BY <1>2 DEF Fine, Good, Shape
  <2>2. SetValue(s) = [s EXCEPT !.fault = "children"]
    BY <1>0, <1>2 DEF Unless
  <2>3. Fine([s EXCEPT !.fault = "children"], Q) /\ Follows(s, [s EXCEPT !.fault = "children"])
    BY <2>1, FailsFine
  <2> QED BY <2>2, <2>3
<1>3. CASE s.fault = "parsing" /\ p.children # << >>
  <2>1. Good(s, Q) /\ p.data # << >>
    BY <1>3 DEF Fine
  <2>2. p \in ParseScopeSet /\ ScopeSaid(p) /\ s \in StateSet /\ p.data \in Seq(DataSet)
    BY <2>1, GoodInmost
  <2>3. d \in DataSet
    BY <2>1, <2>2, InmostData
  <2>4. p.children \in Seq(Seq(Nat))
    BY <2>2 DEF ParseScopeSet
  <2>5. list \in Seq(Nat)
    BY <1>3, <2>4, StackOfSeq
  <2>6. value \in Seq(Nat)
    <3>1. CASE d.current.value = "sfnode" /\ list # << >>
      <4>1. 1 \in 1 .. Len(list)
        BY <2>5, <3>1, EmptySeq, LenProperties
      <4>2. list[1] \in Nat
        BY <2>5, <4>1, ElementOfSeq
      <4> QED BY <3>1, <4>2
    <3>2. CASE ~(d.current.value = "sfnode" /\ list # << >>)
      BY <2>5, <3>2
    <3> QED BY <3>1, <3>2
  <2> HIDE DEF value
  <2>7. d.current.id \in Text
    <3>1. d.current \in Interface \/ d.current = None
      BY <2>3 DEF DataSet
    <3>2. None.id = ""
      BY DEF None
    <3>3. \A i \in Interface : i.id \in STRING
      BY DEF Interface
    <3> QED BY <3>1, <3>2, <3>3 DEF Text
  <2>8. With(d.values, d.current.id, value) \in Maps(Text, Seq(Nat))
    <3>1. d.values \in Maps(Text, Seq(Nat))
      BY <2>3 DEF DataSet
    <3> QED BY <2>6, <2>7, <3>1, WithMap
  <2>9. e \in DataSet /\ e.node = d.node /\ e.name = d.name /\ e.isMap = d.isMap
    BY <2>3, <2>8 DEF DataSet
  <2>10. SetInmost(p.data, e) \in Seq(DataSet)
    BY <2>1, <2>2, <2>9, ReplacedData
  <2>11. /\ q \in ParseScopeSet /\ q.data = SetInmost(p.data, e) /\ q.names = p.names
         /\ q.said = p.said /\ q.isMap = p.isMap /\ q.bodies = p.bodies
    BY <2>2, <2>10 DEF ParseScopeSet
  <2> HIDE DEF q, e
  <2>12. SameSaid(p, q)
    BY <2>1, <2>2, <2>9, <2>11, SameData
  <2>13. SameHolders(p, q) /\ ScopeSaid(q)
    BY <2>2, <2>12, SaidStays DEF SameSaid
  <2>14. Good(t, Q)
    BY <2>1, <2>11, <2>13, InmostStep
  <2>15. t.fault = "parsing" /\ t.rules = s.rules
    BY <1>3, <2>2 DEF StateSet
  <2>16. SetValue(s) = PopChildren(t)
    BY <1>0, <1>3 DEF Unless
  <2> HIDE DEF t
  <2>17. Fine(t, Q)
    BY <2>14, <2>15 DEF Fine
  <2>18. Fine(PopChildren(t), Q) /\ Follows(t, PopChildren(t))
    BY <2>17, PopChildrenIsFine
  <2> QED BY <1>3, <2>15, <2>16, <2>18 DEF Follows
<1> QED BY <1>1, <1>2, <1>3

LEMMA AddChildIsFine ==
  ASSUME NEW s, NEW Q, Fine(s, Q), NEW n, s.fault = "parsing" => n \in Nat
  PROVE  Fine(AddChild(s, n), Q) /\ Follows(s, AddChild(s, n))
<1> DEFINE p == Inmost(s.ps)
           c == SetInmost(p.children, Append(Inmost(p.children), n))
           q == [p EXCEPT !.children = c]
           t == [s EXCEPT !.ps = SetInmost(@, q)]
<1>0. AddChild(s, n) = Unless(p.children = << >>, "children", s, t)
  BY DEF AddChild
<1>1. CASE s.fault # "parsing"
  BY <1>0, <1>1 DEF Unless, Follows
<1>2. CASE s.fault = "parsing" /\ p.children = << >>
  <2>1. s \in StateSet
    BY <1>2 DEF Fine, Good, Shape
  <2>2. AddChild(s, n) = [s EXCEPT !.fault = "children"]
    BY <1>0, <1>2 DEF Unless
  <2> QED BY <2>1, <2>2, FailsFine
<1>3. CASE s.fault = "parsing" /\ p.children # << >>
  <2>1. Good(s, Q) /\ n \in Nat
    BY <1>3 DEF Fine
  <2>2. p \in ParseScopeSet /\ ScopeSaid(p) /\ s \in StateSet
    BY <2>1, GoodInmost
  <2>3. p.children \in Seq(Seq(Nat))
    BY <2>2 DEF ParseScopeSet
  <2>4. Inmost(p.children) \in Seq(Nat)
    BY <1>3, <2>3, StackOfSeq
  <2>5. Append(Inmost(p.children), n) \in Seq(Nat)
    BY <2>1, <2>4, Pushed
  <2>6. c \in Seq(Seq(Nat))
    BY <1>3, <2>3, <2>5, Replaced
  <2> HIDE DEF c
  <2>7. /\ q \in ParseScopeSet /\ q.data = p.data /\ q.names = p.names
        /\ q.said = p.said /\ q.isMap = p.isMap /\ q.bodies = p.bodies
    BY <2>2, <2>6 DEF ParseScopeSet
  <2> HIDE DEF q
  <2>8. SameSaid(p, q)
    BY <2>7, SameDatas
  <2>9. SameHolders(p, q) /\ ScopeSaid(q)
    BY <2>2, <2>8, SaidStays DEF SameSaid
  <2>10. Good(t, Q)
    BY <2>1, <2>7, <2>9, InmostStep
  <2>11. t.fault = "parsing" /\ t.rules = s.rules
    BY <1>3, <2>2 DEF StateSet
  <2>12. AddChild(s, n) = t
    BY <1>0, <1>3 DEF Unless
  <2> HIDE DEF t
  <2> QED BY <1>3, <2>10, <2>11, <2>12 DEF Fine, Follows
<1> QED BY <1>1, <1>2, <1>3

LEMMA ValueIsFine ==
  ASSUME NEW s, NEW Q, Fine(s, Q), s.fault = "parsing" => Inmost(s.rules) = "node",
         NEW i \in Interface
  PROVE  Fine(Value(s, i), Q)
<1> DEFINE t == [s EXCEPT !.rules = Append(@, i.value)]
<1>1. CASE ~(HoldsNodes(i) /\ s.fault = "parsing")
  BY <1>1 DEF Value
<1>2. CASE HoldsNodes(i) /\ s.fault = "parsing"
  <2>1. Good(s, Q) /\ Inmost(s.rules) = "node"
    BY <1>2 DEF Fine
  <2>2. s \in StateSet /\ s.rules \in Seq(RuleNames) /\ Grammar(s.rules)
    BY <2>1, GoodInmost
  <2>3. i.value \in Listed
    BY <1>2 DEF HoldsNodes, Interface, Listed
  <2>4. SameRules(s.rules, Append(s.rules, i.value))
    BY <2>1, <2>2, <2>3, PushListed
  <2>5. Good(t, Q)
    BY <2>1, <2>4, RulesStep
  <2>6. t.fault = "parsing"
    BY <1>2, <2>2 DEF StateSet
  <2>7. Value(s, i) = t
    BY <1>2 DEF Value
  <2> HIDE DEF t
  <2> QED BY <2>5, <2>6, <2>7 DEF Fine
<1> QED BY <1>1, <1>2

LEMMA ThrowsFine ==
  ASSUME NEW s, RootNodes(s), NEW Q
  PROVE  Fine([s EXCEPT !.fault = "exception"], Q) /\ Follows(s, [s EXCEPT !.fault = "exception"])
<1> DEFINE t == [s EXCEPT !.fault = "exception"]
<1>1. s \in StateSet
  BY DEF RootNodes
<1>2. t \in StateSet /\ t.fault = "exception" /\ t.ps = s.ps /\ t.nodes = s.nodes
  BY <1>1 DEF StateSet
<1> HIDE DEF t
<1>3. RootNodes(t)
  BY <1>2 DEF RootNodes
<1> HIDE DEF Good, RootNodes
<1>4. Fine(t, Q) /\ Follows(s, t)
  BY <1>2, <1>3 DEF Fine, Follows
<1> QED BY <1>4 DEF t

LEMMA RoutesMadeIs ==
  ASSUME NEW s, NEW next
  PROVE  /\ s.fault # "parsing" => RoutesMade(s, next) = s
         /\ \/ RoutesMade(s, next) \in {s, next}
            \/ RoutesMade(s, next) = [s EXCEPT !.fault = "routes"]
            \/ RoutesMade(s, next) = [s EXCEPT !.fault = "exception"]
         /\ s.fault = "parsing" =>
              \/ RoutesMade(s, next) = next
              \/ RoutesMade(s, next) = [s EXCEPT !.fault = "routes"]
              \/ RoutesMade(s, next) = [s EXCEPT !.fault = "exception"]
<1> DEFINE lost == \E r \in Range(Inmost(s.ps).routes) : ~({r.from, r.to} \subseteq DOMAIN Inmost(s.ps).names)
           bad == \E r \in Range(Inmost(s.ps).routes) :
                    \/ ~(r.out \in Ids(s.nodes[Inmost(s.ps).names[r.from]].interfaces))
                    \/ ~(r.in \in Ids(s.nodes[Inmost(s.ps).names[r.to]].interfaces))
<1>1. RoutesMade(s, next) = Unless(lost, "routes", s, Unless(bad, "exception", s, next))
  BY DEF RoutesMade
<1> HIDE DEF lost, bad
<1> QED BY <1>1 DEF Unless

\* The innermost scope ends.
LEMMA PopScope ==
  ASSUME NEW s, NEW Q, Good(s, Q), Inmost(s.rules) \in Scoped, Inmost(s.rules) # "scene",
         NEW t \in StateSet, t.rules = Outer(s.rules), t.scopes = Outer(s.scopes),
         t.ps = Outer(s.ps), t.nodes = s.nodes
  PROVE  Good(t, Q) /\ Inmost(t.rules) \in Callers[Inmost(s.rules)]
<1> DEFINE n == Len(s.ps)
           r == Inmost(s.rules)
           o == t.rules
<1>1. /\ n \in Nat \ {0} /\ s.ps # << >> /\ s.scopes # << >> /\ n = Top(s.rules)
      /\ DOMAIN s.ps = 1 .. n /\ Len(s.scopes) = n
  BY Shapes DEF Good
<1>2. s.ps \in Seq(ParseScopeSet) /\ s.scopes \in Seq(ScopeSet) /\ s.rules \in Seq(RuleNames) /\ Grammar(s.rules)
  BY DEF Good, Shape, StateSet
<1>3. /\ o \in Seq(RuleNames) /\ Grammar(o) /\ Inmost(o) \in Callers[r] /\ r \in RuleNames
      /\ s.rules = Append(o, r)
  BY <1>2, GrammarPop
<1>4. Top(s.rules) = Top(o) + 1 /\ Top(o) \in Nat
  BY <1>3, TopPush
<1>5. /\ Len(t.ps) = n - 1 /\ DOMAIN t.ps = 1 .. n - 1 /\ \A k \in 1 .. n - 1 : t.ps[k] = s.ps[k]
  BY <1>1, <1>2, StackOfSeq
<1>6. Len(t.scopes) = n - 1 /\ \A k \in 1 .. n - 1 : t.scopes[k] = s.scopes[k]
  <2>1. /\ Len(Outer(s.scopes)) = Len(s.scopes) - 1
        /\ \A k \in 1 .. Len(s.scopes) - 1 : Outer(s.scopes)[k] = s.scopes[k]
    BY <1>1, <1>2, StackOfSeq
  <2> QED BY <1>1, <2>1
<1>7. ASSUME NEW k \in 1 .. n - 1, NEW S PROVE CountIn(o, k, S) = CountIn(s.rules, k, S)
  <2> HIDE DEF o, r
  <2>3. Top(Append(o, r)) = n
    BY <1>1, <1>3
  <2>1. k # Top(Append(o, r))
    BY <1>1, <2>3
  <2>2. CountIn(Append(o, r), k, S) = CountIn(o, k, S) + 0 /\ CountIn(o, k, S) \in Nat
    BY <1>3, <2>1, CountPush
  <2> QED BY <1>3, <2>2
<1>8. Shape(t)
  <2>1. ASSUME NEW k \in 1 .. Len(t.ps) PROVE Len(t.ps[k].data) = CountIn(t.rules, k, Holding)
    <3>1. Len(s.ps[k].data) = CountIn(s.rules, k, Holding)
      BY <1>1, <1>5, <2>1 DEF Good, Shape
    <3> QED BY <1>5, <1>7, <2>1, <3>1
  <2> QED BY <1>1, <1>3, <1>4, <1>5, <1>6, <2>1 DEF Shape
<1>9. ASSUME NEW k \in 1 .. Len(t.ps) PROVE GoodScope(t, Q, k)
  <2>1. k \in 1 .. n - 1 /\ k \in 1 .. n
    BY <1>1, <1>5, <1>9
  <2>2. GoodScope(s, Q, k)
    BY <2>1 DEF Good
  <2>3. t.ps[k] = s.ps[k] /\ t.scopes[k] = s.scopes[k] /\ CountIn(t.rules, k, Openers) = CountIn(s.rules, k, Openers)
    BY <1>5, <1>6, <1>7, <2>1
  <2> QED BY <2>2, <2>3 DEF GoodScope
<1>10. Alone(t)
  <2>1. \A k \in DOMAIN t.ps : k \in DOMAIN s.ps /\ t.ps[k] = s.ps[k]
    BY <1>1, <1>5
  <2>2. Alone(s)
    BY DEF Good
  <2> QED BY <2>1, <2>2 DEF Alone
<1> QED BY <1>3, <1>8, <1>9, <1>10 DEF Good

LEMMA DefaultFinishIsFine ==
  ASSUME NEW s, NEW Q, Fine(s, Q), s.fault = "parsing" => Inmost(s.rules) = "default"
  PROVE  Fine(DefaultFinish(s), Q)
<1> DEFINE values == Inmost(Inmost(s.ps).data).values
           t == [s EXCEPT !.ps = Outer(@), !.scopes = Outer(@), !.rules = Outer(@)]
           p == Inmost(Outer(s.ps))
           d == Inmost(p.data)
           e == [d EXCEPT !.values = values]
           q == [p EXCEPT !.data = SetInmost(@, e)]
           next == [s EXCEPT !.ps = SetInmost(Outer(@), q), !.scopes = Outer(@), !.rules = Outer(@)]
<1>0. DefaultFinish(s) = RoutesMade(s, next)
  BY DEF DefaultFinish
<1>1. CASE s.fault # "parsing"
  <2>1. DefaultFinish(s) = s
    BY <1>0, <1>1, RoutesMadeIs
  <2> QED BY <2>1
<1>2. CASE s.fault = "parsing"
  <2>1. Good(s, Q) /\ Inmost(s.rules) = "default" /\ s \in StateSet
    BY <1>2, GoodInmost DEF Fine
  <2>2. Fine([s EXCEPT !.fault = "routes"], Q)
    BY <2>1, FailsFine
  <2>3. Fine([s EXCEPT !.fault = "exception"], Q)
    <3>1. RootNodes(s)
      BY <2>1, RootIsKnown
    <3> QED BY <3>1, ThrowsFine
  <2>4. Fine(next, Q)
    <3>1. /\ s.ps # << >> /\ s.scopes # << >> /\ s.rules # << >> /\ Inmost(s.ps).data # << >>
          /\ Inmost(s.ps) \in ParseScopeSet
      <4>1. Len(Inmost(s.ps).data) = 1
        BY <2>1, Shapes DEF Good, Openers
      <4>2. Inmost(s.ps).data # << >>
        BY <4>1, EmptySeq
      <4> QED BY <2>1, <4>2, Shapes DEF Good
    <3>2. Outer(s.ps) \in Seq(ParseScopeSet)
      BY <2>1, <3>1, StackOfSeq DEF StateSet
    <3>3. Outer(s.scopes) \in Seq(ScopeSet) /\ Outer(s.rules) \in Seq(RuleNames)
      BY <2>1, <3>1, StackOfSeq DEF StateSet
    <3>4. /\ t \in StateSet /\ t.ps = Outer(s.ps) /\ t.scopes = Outer(s.scopes)
          /\ t.rules = Outer(s.rules) /\ t.nodes = s.nodes /\ t.fault = s.fault
      BY <2>1, <3>2, <3>3 DEF StateSet
    <3>5. next = [t EXCEPT !.ps = SetInmost(@, q)]
      BY <2>1 DEF StateSet
    <3> HIDE DEF t, next
    <3>6. Good(t, Q) /\ Inmost(t.rules) \in Callers["default"]
      BY <2>1, <3>4, PopScope DEF Scoped
    <3>7. Inmost(t.rules) \in Openers
      BY <3>6 DEF Callers, Openers
    <3>8. p = Inmost(t.ps) /\ p \in ParseScopeSet /\ ScopeSaid(p)
      BY <3>4, <3>6, GoodInmost
    <3>9. p.data # << >>
      <4>1. Len(p.data) = 1
        BY <3>6, <3>7, <3>8, Shapes DEF Good
      <4> QED BY <4>1, EmptySeq
    <3>10. d \in DataSet /\ p.data \in Seq(DataSet)
      BY <3>8, <3>9, InmostData
    <3>11. values \in Maps(Text, Seq(Nat))
      <4>1. Inmost(Inmost(s.ps).data) \in DataSet
        BY <3>1, InmostData
      <4> QED BY <4>1 DEF DataSet
    <3> HIDE DEF values
    <3>12. e \in DataSet /\ e.node = d.node /\ e.name = d.name /\ e.isMap = d.isMap
      BY <3>10, <3>11 DEF DataSet
    <3>13. SetInmost(p.data, e) \in Seq(DataSet)
      BY <3>9, <3>10, <3>12, ReplacedData
    <3>14. /\ q \in ParseScopeSet /\ q.data = SetInmost(p.data, e) /\ q.names = p.names
           /\ q.said = p.said /\ q.isMap = p.isMap /\ q.bodies = p.bodies
      BY <3>8, <3>13 DEF ParseScopeSet
    <3> HIDE DEF q, e
    <3>15. SameSaid(p, q)
      BY <3>8, <3>9, <3>12, <3>14, SameData
    <3>16. SameHolders(p, q) /\ ScopeSaid(q)
      BY <3>8, <3>15, SaidStays DEF SameSaid
    <3>17. Good([t EXCEPT !.ps = SetInmost(@, q)], Q)
      BY <3>6, <3>8, <3>14, <3>16, InmostStep
    <3>18. [t EXCEPT !.ps = SetInmost(@, q)].fault = "parsing"
      BY <1>2, <3>4 DEF StateSet
    <3> QED BY <3>5, <3>17, <3>18 DEF Fine
  <2> HIDE DEF next
  <2>5. \/ DefaultFinish(s) = next
        \/ DefaultFinish(s) = [s EXCEPT !.fault = "routes"]
        \/ DefaultFinish(s) = [s EXCEPT !.fault = "exception"]
    BY <1>0, <1>2, RoutesMadeIs
  <2> QED BY <2>2, <2>3, <2>4, <2>5
<1> QED BY <1>1, <1>2

LEMMA ValueDoneIsFine ==
  ASSUME NEW s, NEW Q, Good(s, Q), s.fault = "parsing", Inmost(s.rules) \in Listed
  PROVE  Fine(ValueDone(s), Q)
<1> DEFINE t == [s EXCEPT !.rules = Outer(@)]
           u == SetValue(t)
<1>1. s \in StateSet /\ s.rules \in Seq(RuleNames) /\ Grammar(s.rules)
  BY GoodInmost
<1>2. SameRules(s.rules, Outer(s.rules))
  BY <1>1, PopListed
<1>3. Good(t, Q)
  BY <1>2, RulesStep
<1>4. t.fault = "parsing" /\ t.ps = s.ps
  BY <1>1 DEF StateSet
<1>5. Inmost(s.ps).data # << >>
  BY Shapes DEF Good
<1>6. ValueDone(s) = IF Inmost(u.rules) = "default" THEN DefaultFinish(u) ELSE u
  BY DEF ValueDone
<1> HIDE DEF t
<1>7. Fine(t, Q)
  BY <1>3, <1>4 DEF Fine
<1>8. Fine(u, Q)
  BY <1>4, <1>5, <1>7, SetValueIsFine
<1> HIDE DEF u
<1>9. CASE Inmost(u.rules) = "default"
  BY <1>6, <1>8, <1>9, DefaultFinishIsFine
<1>10. CASE Inmost(u.rules) # "default"
  BY <1>6, <1>8, <1>10
<1> QED BY <1>9, <1>10

LEMMA StatementDoneIsFine ==
  ASSUME NEW s, NEW Q, Fine(s, Q)
  PROVE  Fine(StatementDone(s), Q)
<1> DEFINE r == IF Inmost(s.rules) = "first" THEN "body" ELSE Inmost(s.rules)
           t == [s EXCEPT !.rules = SetInmost(@, r)]
<1>1. CASE s.fault # "parsing"
  BY <1>1 DEF StatementDone
<1>2. CASE s.fault = "parsing" /\ Inmost(s.rules) \in {"sfnode", "mfnode"}
  <2>1. Good(s, Q) /\ Inmost(s.rules) \in Listed
    BY <1>2 DEF Fine, Listed
  <2>2. StatementDone(s) = ValueDone(s)
    BY <1>2 DEF StatementDone
  <2> QED BY <1>2, <2>1, <2>2, ValueDoneIsFine
<1>3. CASE s.fault = "parsing" /\ Inmost(s.rules) \notin {"sfnode", "mfnode"}
  <2>1. Good(s, Q)
    BY <1>3 DEF Fine
  <2>2. s \in StateSet /\ s.rules \in Seq(RuleNames) /\ Grammar(s.rules)
    BY <2>1, GoodInmost
  <2>3. SameRules(s.rules, SetInmost(s.rules, r))
    <3>1. CASE Inmost(s.rules) = "first"
      BY <2>2, <3>1, ReplaceFirst
    <3>2. CASE Inmost(s.rules) # "first"
      <4>1. SetInmost(s.rules, r) = s.rules
        BY <2>2, <3>2, StackIsPushed DEF SetInmost, Grammar
      <4> QED BY <2>2, <4>1, RulesAreSame
    <3> QED BY <3>1, <3>2
  <2>4. StatementDone(s) = t
    BY <1>3 DEF StatementDone
  <2> HIDE DEF r
  <2>5. Good(t, Q)
    BY <2>1, <2>3, RulesStep
  <2>6. t.fault = "parsing"
    BY <1>3, <2>2 DEF StateSet
  <2> QED BY <2>4, <2>5, <2>6 DEF Fine
<1> QED BY <1>1, <1>2, <1>3

-----------------------------------------------------------------------------
(* An instance of a PROTO.                                                 *)

LEMMA Ordered ==
  ASSUME NEW S, IsFiniteSet(S)
  PROVE  LET q == CHOOSE q \in [1 .. Cardinality(S) -> S] : Range(q) = S
         IN /\ Cardinality(S) \in Nat /\ q \in [1 .. Cardinality(S) -> S]
            /\ \A z \in S : \E i \in 1 .. Cardinality(S) : q[i] = z
<1> DEFINE c == Cardinality(S)
<1>1. c \in Nat /\ ExistsBijection(1 .. c, S)
  BY FS_CardinalityType
<1> HIDE DEF c
<1>2. PICK f \in [1 .. c -> S] : \A z \in S : \E i \in 1 .. c : f[i] = z
  BY <1>1 DEF ExistsBijection, Bijection, Surjection
<1>3. Range(f) = S
  BY <1>2 DEF Range
<1> DEFINE q == CHOOSE q \in [1 .. c -> S] : Range(q) = S
<1>4. q \in [1 .. c -> S] /\ Range(q) = S
  BY <1>2, <1>3
<1> HIDE DEF q
<1>5. \A z \in S : \E i \in 1 .. c : q[i] = z
  BY <1>4 DEF Range
<1> QED BY <1>1, <1>4, <1>5 DEF q, c

\* What an instance's body B does to the innermost scope p, and to the nodes N.
Cloned(p, q, N, M, B) ==
  /\ q \in ParseScopeSet /\ q = [p EXCEPT !.names = q.names]
  /\ DOMAIN q.names = DOMAIN p.names \cup B
  /\ \A z \in DOMAIN p.names \ B : q.names[z] = p.names[z]
  /\ \A z \in B : q.names[z] \in DOMAIN M \ DOMAIN N
  /\ M \in Seq(NodeSet) /\ DOMAIN N \subseteq DOMAIN M
  /\ \A n \in DOMAIN N : M[n] = N[n]
  /\ \A n \in DOMAIN M \ DOMAIN N : M[n].children = {} /\ M[n].depth = 0

LEMMA BodyIsKnown ==
  ASSUME NEW s \in StateSet, \A k \in DOMAIN s.ps : ScopeBodies(s.ps[k], s.nodes), NEW t
  PROVE  /\ BodyNames(s, t) \in FiniteMaps(Names, Nat)
         /\ \A z \in DOMAIN BodyNames(s, t) : BodyNames(s, t)[z] \in DOMAIN s.nodes
<1> DEFINE has(k) == t \in DOMAIN s.ps[k].bodies
           h == CHOOSE k \in DOMAIN s.ps : has(k)
<1>1. CASE \E k \in DOMAIN s.ps : has(k)
  <2>1. h \in DOMAIN s.ps /\ has(h)
    BY <1>1
  <2>2. BodyNames(s, t) = s.ps[h].bodies[t]
    BY <1>1 DEF BodyNames
  <2> HIDE DEF h
  <2>3. s.ps[h] \in ParseScopeSet
    <3>1. s.ps \in Seq(ParseScopeSet)
      BY DEF StateSet
    <3> QED BY <2>1, <3>1, LenProperties, ElementOfSeq
  <2>4. s.ps[h].bodies \in Maps(Text, FiniteMaps(Names, Nat))
    BY <2>3 DEF ParseScopeSet
  <2>5. s.ps[h].bodies[t] \in FiniteMaps(Names, Nat)
    BY <2>1, <2>4, MapIs
  <2>6. \A z \in DOMAIN s.ps[h].bodies[t] : s.ps[h].bodies[t][z] \in DOMAIN s.nodes
    BY <2>1 DEF ScopeBodies
  <2> QED BY <2>2, <2>5, <2>6
<1>2. CASE ~\E k \in DOMAIN s.ps : has(k)
  <2>1. BodyNames(s, t) = << >>
    BY <1>2 DEF BodyNames
  <2> QED BY <2>1, EmptyMap
<1> QED BY <1>1, <1>2

LEMMA InstanceIs ==
  ASSUME NEW s \in StateSet, s.ps # << >>,
         \A k \in DOMAIN s.ps : ScopeBodies(s.ps[k], s.nodes), NEW t
  PROVE  \E q, M : /\ Instance(s, t) = [s EXCEPT !.ps = SetInmost(@, q), !.nodes = M]
                   /\ Cloned(Inmost(s.ps), q, s.nodes, M, DOMAIN BodyNames(s, t))
<1> DEFINE p == Inmost(s.ps)
           names == BodyNames(s, t)
           B == DOMAIN names
           count == Cardinality(B)
           order == CHOOSE q \in [1 .. count -> B] : Range(q) = B
           clone(n) == [s.nodes[n] EXCEPT !.children = {}, !.depth = 0]
           place(z) == CHOOSE i \in 1 .. count : order[i] = z
           extra == [i \in 1 .. count |-> clone(names[order[i]])]
           M == s.nodes \o extra
           all == [z \in DOMAIN p.names \cup B |->
                     IF z \in B THEN Len(s.nodes) + place(z) ELSE p.names[z]]
           q == [p EXCEPT !.names = all]
<1>1. names \in FiniteMaps(Names, Nat) /\ \A z \in B : names[z] \in DOMAIN s.nodes
  BY BodyIsKnown
<1>2. p \in ParseScopeSet /\ s.nodes \in Seq(NodeSet)
  BY StackOfSeq DEF StateSet
<1>3. p.names \in FiniteMaps(Names, Nat)
  BY <1>2 DEF ParseScopeSet
<1>4. IsFiniteSet(B) /\ IsFiniteSet(DOMAIN p.names) /\ B \subseteq Names
  BY <1>1, <1>3, MapIs DEF FiniteMaps
<1>5. Instance(s, t) = [s EXCEPT !.ps = SetInmost(@, q), !.nodes = M]
  BY DEF Instance
<1> HIDE DEF names, p
<1>6. /\ count \in Nat /\ order \in [1 .. count -> B]
      /\ \A z \in B : \E i \in 1 .. count : order[i] = z
  BY <1>4, Ordered
<1> HIDE DEF order, count
<1>7. \A z \in B : place(z) \in 1 .. count
  BY <1>6
<1>8. Len(s.nodes) \in Nat /\ DOMAIN s.nodes = 1 .. Len(s.nodes)
  BY <1>2, LenProperties
<1>9. ASSUME NEW n \in DOMAIN s.nodes
      PROVE  clone(n) \in NodeSet /\ clone(n).children = {} /\ clone(n).depth = 0
  <2>1. s.nodes[n] \in NodeSet
    BY <1>2, <1>8, ElementOfSeq
  <2> QED BY <2>1 DEF NodeSet
<1>10. \A i \in 1 .. count : names[order[i]] \in DOMAIN s.nodes
  BY <1>1, <1>6
<1> HIDE DEF clone, place
<1>11. extra \in Seq(NodeSet) /\ Len(extra) = count
  <2>1. extra \in [1 .. count -> NodeSet]
    BY <1>9, <1>10
  <2> HIDE DEF extra
  <2>2. extra \in Seq(NodeSet)
    BY <1>6, <2>1
  <2>3. DOMAIN extra = 1 .. count
    BY <2>1
  <2> QED BY <1>6, <2>2, <2>3, LenProperties
<1>12. \A i \in 1 .. count : extra[i].children = {} /\ extra[i].depth = 0
  BY <1>9, <1>10
<1> HIDE DEF extra
<1>13. /\ M \in Seq(NodeSet) /\ Len(M) = Len(s.nodes) + count
       /\ \A i \in 1 .. Len(s.nodes) + count :
            M[i] = IF i <= Len(s.nodes) THEN s.nodes[i] ELSE extra[i - Len(s.nodes)]
  BY <1>2, <1>11, ConcatProperties
<1>14. DOMAIN M = 1 .. Len(s.nodes) + count
  BY <1>13, LenProperties
<1> HIDE DEF M
<1>15. /\ DOMAIN s.nodes \subseteq DOMAIN M
       /\ \A n \in DOMAIN s.nodes : M[n] = s.nodes[n]
  BY <1>6, <1>8, <1>13, <1>14
<1>16. \A n \in DOMAIN M \ DOMAIN s.nodes : M[n].children = {} /\ M[n].depth = 0
  <2> SUFFICES ASSUME NEW n \in DOMAIN M \ DOMAIN s.nodes
               PROVE  M[n].children = {} /\ M[n].depth = 0
    OBVIOUS
  <2>1. n - Len(s.nodes) \in 1 .. count /\ M[n] = extra[n - Len(s.nodes)]
    BY <1>6, <1>8, <1>13, <1>14
  <2> QED BY <1>12, <2>1
<1>17. ASSUME NEW z \in B
       PROVE  Len(s.nodes) + place(z) \in DOMAIN M \ DOMAIN s.nodes /\ Len(s.nodes) + place(z) \in Nat
  <2> DEFINE i == place(z)
  <2>1. i \in 1 .. count
    BY <1>7
  <2> HIDE DEF i
  <2>2. count \in Nat
    BY <1>6
  <2>3. Len(s.nodes) + i \in DOMAIN M \ DOMAIN s.nodes /\ Len(s.nodes) + i \in Nat
    BY <1>8, <1>14, <2>1, <2>2
  <2> QED BY <2>3 DEF i
<1>18. all \in FiniteMaps(Names, Nat)
  <2>1. DOMAIN p.names \subseteq Names /\ p.names \in [DOMAIN p.names -> Nat]
    BY <1>3, MapIs DEF FiniteMaps
  <2>2. \A z \in B : Len(s.nodes) + place(z) \in Nat
    BY <1>17
  <2>3. all \in [DOMAIN p.names \cup B -> Nat]
    BY <2>1, <2>2
  <2>4. DOMAIN all = DOMAIN p.names \cup B
    OBVIOUS
  <2>5. IsFiniteSet(DOMAIN all)
    BY <1>4, <2>4, FS_Union
  <2> QED BY <1>4, <2>1, <2>3, <2>4, <2>5, MapIs DEF FiniteMaps
<1>19. /\ DOMAIN all = DOMAIN p.names \cup B
       /\ \A z \in DOMAIN p.names \ B : all[z] = p.names[z]
       /\ \A z \in B : all[z] = Len(s.nodes) + place(z)
  OBVIOUS
<1> HIDE DEF all
<1>20. q \in ParseScopeSet /\ q.names = all
  BY <1>2, <1>18 DEF ParseScopeSet
<1>21. q = [p EXCEPT !.names = q.names]
  BY <1>20
<1> HIDE DEF q
<1>22. Cloned(p, q, s.nodes, M, B)
  BY <1>13, <1>15, <1>16, <1>17, <1>19, <1>20, <1>21 DEF Cloned
<1> HIDE DEF Cloned
<1> QED BY <1>5, <1>22 DEF p, names

-----------------------------------------------------------------------------
(* The node that is read is finished: in state t of state s, with scope q  *)
(* in the place of the innermost, after an instance with the body B.       *)
NodeDone(s, t, q, B) ==
  LET p == Inmost(s.ps)
      d == Inmost(p.data)
  IN /\ t \in StateSet /\ t.rules = Outer(s.rules) /\ t.scopes = s.scopes
     /\ t.ps = SetInmost(s.ps, q) /\ q \in ParseScopeSet
     /\ q.data = Outer(p.data) /\ q.isMap = Targets(p, d) /\ q.said = p.said /\ q.bodies = p.bodies
     /\ DOMAIN q.names = DOMAIN p.names \cup B \cup ({d.name} \ {Anonymous})
     /\ d.name # Anonymous => q.names[d.name] = d.node
     /\ \A z \in DOMAIN p.names \ (B \cup {d.name}) : q.names[z] = p.names[z]
     /\ \A z \in B \ {d.name} : q.names[z] \in DOMAIN t.nodes
     /\ DOMAIN s.nodes \subseteq DOMAIN t.nodes /\ t.nodes[d.node].finished
     /\ \A n \in DOMAIN s.nodes \ {d.node} : t.nodes[n].finished = s.nodes[n].finished

LEMMA NodeDoneStacks ==
  ASSUME NEW s, NEW Q, Good(s, Q), Inmost(s.rules) = "node", NEW t, NEW q, NEW B, NodeDone(s, t, q, B)
  PROVE  LET n == Len(s.ps)
             p == Inmost(s.ps)
             m == Len(p.data)
             d == Inmost(p.data)
         IN /\ n \in Nat \ {0} /\ DOMAIN s.ps = 1 .. n /\ p = s.ps[n] /\ DOMAIN t.ps = 1 .. n
            /\ Len(t.ps) = n /\ t.ps[n] = q /\ \A k \in 1 .. n - 1 : t.ps[k] = s.ps[k]
            /\ m \in Nat \ {0} /\ DOMAIN p.data = 1 .. m /\ d = p.data[m] /\ d \in DataSet
            /\ Len(q.data) = m - 1 /\ DOMAIN q.data = 1 .. m - 1
            /\ \A i \in 1 .. m - 1 : q.data[i] = p.data[i]
            /\ d.node \in DOMAIN s.nodes /\ d.node # 0 /\ ~s.nodes[d.node].finished
            /\ \A k \in 1 .. n : \A i \in DOMAIN s.ps[k].data :
                 s.ps[k].data[i].node = d.node => k = n /\ i = m
<1> DEFINE n == Len(s.ps)
           p == Inmost(s.ps)
           m == Len(p.data)
           d == Inmost(p.data)
<1>1. n \in Nat \ {0} /\ DOMAIN s.ps = 1 .. n /\ p = s.ps[n] /\ s.ps # << >> /\ p \in ParseScopeSet
  BY Shapes DEF Good
<1>2. s.ps \in Seq(ParseScopeSet)
  BY DEF Good, Shape, StateSet
<1>3. /\ p.data # << >> /\ d \in DataSet /\ d.node \in DOMAIN s.nodes /\ d.node # 0
      /\ ~s.nodes[d.node].finished
  BY NodeRead
<1>4. /\ m \in Nat \ {0} /\ DOMAIN p.data = 1 .. m /\ d = p.data[m] /\ m \in DOMAIN p.data
      /\ p.data \in Seq(DataSet)
  BY <1>1, <1>3, InmostData
<1>5. t.ps = SetInmost(s.ps, q) /\ q \in ParseScopeSet /\ q.data = Outer(p.data)
  BY DEF NodeDone
<1>6. /\ Len(t.ps) = n /\ t.ps[n] = q /\ DOMAIN t.ps = 1 .. n
      /\ \A k \in 1 .. n - 1 : t.ps[k] = s.ps[k]
  <2>1. /\ Len(SetInmost(s.ps, q)) = Len(s.ps) /\ SetInmost(s.ps, q)[Len(s.ps)] = q
        /\ DOMAIN SetInmost(s.ps, q) = DOMAIN s.ps
        /\ \A k \in 1 .. Len(s.ps) - 1 : SetInmost(s.ps, q)[k] = s.ps[k]
    BY <1>1, <1>2, <1>5, ReplacedScope
  <2> QED BY <1>1, <1>5, <2>1
<1>7. /\ Len(q.data) = m - 1 /\ DOMAIN q.data = 1 .. m - 1
      /\ \A i \in 1 .. m - 1 : q.data[i] = p.data[i]
  BY <1>3, <1>4, <1>5, StackOfSeq
<1>8. ASSUME NEW k \in 1 .. n, NEW i \in DOMAIN s.ps[k].data, s.ps[k].data[i].node = d.node
      PROVE  k = n /\ i = m
  <2>1. n \in DOMAIN s.ps /\ k \in DOMAIN s.ps /\ m \in DOMAIN s.ps[n].data /\ s.ps[n].data[m] = d
    BY <1>1, <1>4
  <2>2. Alone(s)
    BY DEF Good
  <2> QED BY <1>3, <1>8, <2>1, <2>2 DEF Alone
<1> QED BY <1>1, <1>3, <1>4, <1>6, <1>7, <1>8

LEMMA NodeDoneShape ==
  ASSUME NEW s, NEW Q, Good(s, Q), Inmost(s.rules) = "node", NEW t, NEW q, NEW B, NodeDone(s, t, q, B)
  PROVE  /\ Shape(t) /\ \A k : CountIn(t.rules, k, Openers) = CountIn(s.rules, k, Openers)
<1> DEFINE n == Len(s.ps)
           o == t.rules
           m == Len(Inmost(s.ps).data)
<1>1. /\ n \in Nat \ {0} /\ Len(t.ps) = n /\ t.ps[n] = q /\ (\A k \in 1 .. n - 1 : t.ps[k] = s.ps[k])
      /\ m \in Nat \ {0} /\ Len(q.data) = m - 1 /\ Inmost(s.ps) = s.ps[n]
  BY NodeDoneStacks
<1>2. /\ s.rules \in Seq(RuleNames) /\ Grammar(s.rules) /\ n = Top(s.rules)
      /\ Len(s.scopes) = n /\ \A k \in 1 .. n : Len(s.ps[k].data) = CountIn(s.rules, k, Holding)
  BY DEF Good, Shape, StateSet
<1>3. t \in StateSet /\ o = Outer(s.rules) /\ t.scopes = s.scopes
  BY DEF NodeDone
<1>4. o \in Seq(RuleNames) /\ Grammar(o) /\ s.rules = Append(o, "node") /\ "node" \in RuleNames
  BY <1>2, <1>3, GrammarPop
<1> HIDE DEF o, m, n
<1>5. Top(o) = n
  BY <1>2, <1>4, TopPush DEF Scoped
<1>6. \A k : CountIn(o, k, Openers) = CountIn(s.rules, k, Openers)
  <2> SUFFICES ASSUME NEW k PROVE CountIn(o, k, Openers) = CountIn(s.rules, k, Openers)
    OBVIOUS
  <2>1. CountIn(Append(o, "node"), k, Openers) = CountIn(o, k, Openers) + 0 /\ CountIn(o, k, Openers) \in Nat
    BY <1>4, CountPush DEF Openers
  <2> QED BY <1>4, <2>1
<1>7. ASSUME NEW k \in 1 .. n PROVE Len(t.ps[k].data) = CountIn(o, k, Holding)
  <2>1. n = Top(Append(o, "node")) /\ "node" \in Holding
    BY <1>2, <1>4 DEF Holding
  <2>2. CASE k = n
    <3>1. CountIn(Append(o, "node"), k, Holding) = CountIn(o, k, Holding) + 1 /\ CountIn(o, k, Holding) \in Nat
      BY <1>4, <2>1, <2>2, CountPush
    <3>2. CountIn(s.rules, n, Holding) = m
      BY <1>1, <1>2 DEF m
    <3> QED BY <1>1, <1>4, <2>2, <3>1, <3>2
  <2>3. CASE k # n
    <3>1. CountIn(Append(o, "node"), k, Holding) = CountIn(o, k, Holding) + 0 /\ CountIn(o, k, Holding) \in Nat
      BY <1>4, <2>1, <2>3, CountPush
    <3>2. t.ps[k] = s.ps[k] /\ Len(s.ps[k].data) = CountIn(s.rules, k, Holding)
      BY <1>1, <1>2, <2>3
    <3> QED BY <1>4, <3>1, <3>2
  <2> QED BY <2>2, <2>3
<1> QED BY <1>1, <1>2, <1>3, <1>4, <1>5, <1>6, <1>7 DEF Shape, n, o

LEMMA NodeDoneOutside ==
  ASSUME NEW s, NEW Q, Good(s, Q), Inmost(s.rules) = "node", NEW t, NEW q, NEW B, NodeDone(s, t, q, B),
         NEW k \in 1 .. Len(s.ps) - 1, NEW R, Q \subseteq R
  PROVE  GoodScope(t, R, k)
<1> DEFINE n == Len(s.ps)
           d == Inmost(Inmost(s.ps).data)
           a == s.ps[k]
           defs == s.scopes[k].defs
<1>1. /\ n \in Nat \ {0} /\ t.ps[k] = a /\ k \in 1 .. n /\ k # n
      /\ \A i \in DOMAIN a.data : a.data[i].node # d.node
  BY NodeDoneStacks
<1>2. /\ t.scopes = s.scopes /\ DOMAIN s.nodes \subseteq DOMAIN t.nodes
      /\ \A x \in DOMAIN s.nodes \ {d.node} : t.nodes[x].finished = s.nodes[x].finished
  BY DEF NodeDone
<1>3. CountIn(t.rules, k, Openers) = CountIn(s.rules, k, Openers)
  BY NodeDoneShape
<1>4. /\ ScopeNodes(a, CountIn(s.rules, k, Openers), s.nodes) /\ ScopeNames(defs, a, s.nodes)
      /\ ScopeBodies(a, s.nodes) /\ ScopeSaid(a)
      /\ Calm(Q) => ScopeCurrent(defs, a, s.nodes)
  BY <1>1 DEF Good, GoodScope
<1> HIDE DEF a, d
<1>5. ScopeNodes(a, CountIn(s.rules, k, Openers), t.nodes)
  BY <1>1, <1>2, <1>4 DEF ScopeNodes
<1>6. ScopeNames(defs, a, t.nodes)
  BY <1>2, <1>4 DEF ScopeNames
<1>7. ScopeBodies(a, t.nodes)
  BY <1>2, <1>4 DEF ScopeBodies
<1>8. ASSUME Calm(R) PROVE ScopeCurrent(defs, a, t.nodes)
  <2>1. ScopeCurrent(defs, a, s.nodes)
    BY <1>4, <1>8 DEF Calm
  <2> SUFFICES ASSUME NEW name \in DOMAIN defs
               PROVE  /\ t.nodes[defs[name]].finished => name \in DOMAIN a.names /\ a.names[name] = defs[name]
                      /\ ~t.nodes[defs[name]].finished =>
                           \E i \in DOMAIN a.data : a.data[i].node = defs[name] /\ a.data[i].name = name
                      /\ \A i \in DOMAIN a.data : a.data[i].name = name => a.data[i].node = defs[name]
    BY DEF ScopeCurrent
  <2>2. /\ s.nodes[defs[name]].finished => name \in DOMAIN a.names /\ a.names[name] = defs[name]
        /\ ~s.nodes[defs[name]].finished =>
             \E i \in DOMAIN a.data : a.data[i].node = defs[name] /\ a.data[i].name = name
        /\ \A i \in DOMAIN a.data : a.data[i].name = name => a.data[i].node = defs[name]
    BY <2>1 DEF ScopeCurrent
  <2>3. defs[name] \in DOMAIN s.nodes
    BY <1>4 DEF ScopeNames
  <2>4. ~s.nodes[d.node].finished
    BY NodeDoneStacks DEF d
  <2>5. defs[name] # d.node
    BY <1>1, <2>2, <2>4
  <2>6. t.nodes[defs[name]].finished = s.nodes[defs[name]].finished
    BY <1>2, <2>3, <2>5
  <2> QED BY <2>2, <2>6
<1> QED BY <1>1, <1>2, <1>3, <1>4, <1>5, <1>6, <1>7, <1>8 DEF GoodScope

LEMMA NodeDoneInmost ==
  ASSUME NEW s, NEW Q, Good(s, Q), Inmost(s.rules) = "node", NEW t, NEW q, NEW B, NodeDone(s, t, q, B),
         NEW R, Q \subseteq R, Calm(R) => B \cap DOMAIN Inmost(s.ps).names = {}
  PROVE  GoodScope(t, R, Len(s.ps))
<1> DEFINE n == Len(s.ps)
           p == Inmost(s.ps)
           m == Len(p.data)
           d == Inmost(p.data)
           defs == s.scopes[n].defs
           c == CountIn(s.rules, n, Openers)
<1>1. /\ n \in Nat \ {0} /\ p = s.ps[n] /\ t.ps[n] = q /\ n \in 1 .. n
      /\ m \in Nat \ {0} /\ DOMAIN p.data = 1 .. m /\ d = p.data[m]
      /\ DOMAIN q.data = 1 .. m - 1 /\ \A i \in 1 .. m - 1 : q.data[i] = p.data[i]
  BY NodeDoneStacks
<1>2. /\ d.node \in DOMAIN s.nodes /\ d.node # 0 /\ ~s.nodes[d.node].finished /\ d \in DataSet
      /\ \A i \in DOMAIN p.data : p.data[i].node = d.node => i = m
  <2>1. \A k \in 1 .. n : \A i \in DOMAIN s.ps[k].data : s.ps[k].data[i].node = d.node => k = n /\ i = m
    BY NodeDoneStacks
  <2>2. d.node \in DOMAIN s.nodes /\ d.node # 0 /\ ~s.nodes[d.node].finished /\ d \in DataSet
    BY NodeDoneStacks
  <2> HIDE DEF n, p, m, d
  <2> QED BY ONLY <1>1, <2>1, <2>2
<1>3. /\ t.scopes = s.scopes /\ q.isMap = Targets(p, d) /\ q.said = p.said /\ q.bodies = p.bodies
      /\ DOMAIN q.names = DOMAIN p.names \cup B \cup ({d.name} \ {Anonymous})
      /\ d.name # Anonymous => q.names[d.name] = d.node
      /\ \A z \in DOMAIN p.names \ (B \cup {d.name}) : q.names[z] = p.names[z]
      /\ \A z \in B \ {d.name} : q.names[z] \in DOMAIN t.nodes
  BY DEF NodeDone
<1>4. /\ DOMAIN s.nodes \subseteq DOMAIN t.nodes /\ t.nodes[d.node].finished
      /\ \A x \in DOMAIN s.nodes \ {d.node} : t.nodes[x].finished = s.nodes[x].finished
  BY DEF NodeDone
<1>5. CountIn(t.rules, n, Openers) = c
  BY NodeDoneShape
<1>6. /\ ScopeNodes(p, c, s.nodes) /\ ScopeNames(defs, p, s.nodes)
      /\ ScopeBodies(p, s.nodes) /\ ScopeSaid(p)
      /\ Calm(Q) => ScopeCurrent(defs, p, s.nodes)
  BY <1>1 DEF Good, GoodScope
<1>7. Anonymous \notin DOMAIN defs
  <2>1. n \in 1 .. Len(s.scopes) /\ s.scopes \in Seq(ScopeSet)
    BY <1>1 DEF Good, Shape, StateSet
  <2>2. s.scopes[n] \in ScopeSet
    BY <2>1, ElementOfSeq
  <2>3. defs \in Maps(Names, Nat)
    BY <2>2 DEF ScopeSet
  <2>4. DOMAIN defs \subseteq Names
    BY <2>3, MapIs
  <2> QED BY <2>4, ParseAssumption
<1>8. \A i \in 1 .. m - 1 : i \in DOMAIN p.data /\ q.data[i] = p.data[i] /\ p.data[i].node # d.node
  BY <1>1, <1>2
<1> HIDE DEF n, p, d, m, defs, c
<1>9. ScopeNodes(q, c, t.nodes)
  <2> SUFFICES ASSUME NEW i \in 1 .. m - 1
               PROVE  IF i <= c THEN q.data[i].node = 0 /\ q.data[i].name = Anonymous /\ q.data[i].isMap = {}
                      ELSE q.data[i].node \in DOMAIN t.nodes /\ ~t.nodes[q.data[i].node].finished
    BY <1>1 DEF ScopeNodes
  <2>1. IF i <= c THEN p.data[i].node = 0 /\ p.data[i].name = Anonymous /\ p.data[i].isMap = {}
        ELSE p.data[i].node \in DOMAIN s.nodes /\ ~s.nodes[p.data[i].node].finished
    BY <1>6, <1>8 DEF ScopeNodes
  <2> QED BY <1>4, <1>8, <2>1
<1>10. ScopeNames(defs, q, t.nodes)
  <2>1. ASSUME NEW name \in DOMAIN defs
        PROVE  defs[name] \in DOMAIN t.nodes /\ (name \in DOMAIN q.names \/ InProgress(q, name))
    <3>1. defs[name] \in DOMAIN s.nodes /\ (name \in DOMAIN p.names \/ InProgress(p, name))
      BY <1>6 DEF ScopeNames
    <3>2. ASSUME InProgress(p, name) PROVE name \in DOMAIN q.names \/ InProgress(q, name)
      <4>1. PICK i \in DOMAIN p.data : p.data[i].name = name
        BY <3>2 DEF InProgress
      <4>2. CASE i = m
        BY <1>1, <1>3, <1>7, <4>1, <4>2
      <4>3. CASE i # m
        <5>1. i \in 1 .. m - 1 /\ q.data[i].name = name
          BY <1>1, <1>8, <4>1, <4>3
        <5> QED BY <1>1, <5>1 DEF InProgress
      <4> QED BY <4>2, <4>3
    <3> QED BY <1>3, <1>4, <3>1, <3>2
  <2>2. ASSUME NEW z \in DOMAIN q.names PROVE q.names[z] \in DOMAIN t.nodes
    <3>1. CASE z = d.name /\ d.name # Anonymous
      BY <1>2, <1>3, <1>4, <3>1
    <3>2. CASE z \in B \ {d.name}
      BY <1>3, <3>2
    <3>3. CASE z \in DOMAIN p.names \ (B \cup {d.name})
      BY <1>3, <1>4, <1>6, <3>3 DEF ScopeNames
    <3>4. Anonymous \notin DOMAIN q.names
      <4>1. q \in ParseScopeSet
        BY DEF NodeDone
      <4>2. DOMAIN q.names \subseteq Names
        BY <4>1, MapIs DEF ParseScopeSet, FiniteMaps
      <4> QED BY <4>2, ParseAssumption
    <3> QED BY <1>3, <3>1, <3>2, <3>3, <3>4
  <2>3. \A i \in DOMAIN q.data : q.data[i].name # Anonymous => q.data[i].name \in DOMAIN defs
    BY <1>1, <1>6, <1>8 DEF ScopeNames
  <2> QED BY <2>1, <2>2, <2>3 DEF ScopeNames
<1>11. ScopeBodies(q, t.nodes)
  BY <1>3, <1>4, <1>6 DEF ScopeBodies
<1>12. ScopeSaid(q)
  <2>1. SaidOf(p, m) = {<<d.node, x[1], x[2]>> : x \in d.isMap}
    BY <1>1 DEF SaidOf
  <2>2. q.isMap = p.isMap \cup SaidOf(p, m)
    BY <1>3, <2>1 DEF Targets
  <2>3. \A i \in 1 .. m - 1 : SaidOf(q, i) = SaidOf(p, i)
    BY <1>8 DEF SaidOf
  <2>4. DOMAIN p.data = DOMAIN q.data \cup {m}
    BY <1>1
  <2>5. UNION {SaidOf(p, i) : i \in DOMAIN p.data} =
          (UNION {SaidOf(q, i) : i \in DOMAIN q.data}) \cup SaidOf(p, m)
    <3>1. \A i \in DOMAIN q.data : SaidOf(q, i) = SaidOf(p, i)
      BY <1>1, <2>3
    <3> QED BY <2>4, <3>1
  <2>6. p.said = p.isMap \cup UNION {SaidOf(p, i) : i \in DOMAIN p.data}
    BY <1>6 DEF ScopeSaid
  <2> QED BY <1>3, <2>2, <2>5, <2>6 DEF ScopeSaid
<1>13. ASSUME Calm(R) PROVE ScopeCurrent(defs, q, t.nodes)
  <2>1. ScopeCurrent(defs, p, s.nodes) /\ B \cap DOMAIN p.names = {}
    BY <1>6, <1>13 DEF Calm, p
  <2> SUFFICES ASSUME NEW name \in DOMAIN defs
               PROVE  /\ t.nodes[defs[name]].finished => name \in DOMAIN q.names /\ q.names[name] = defs[name]
                      /\ ~t.nodes[defs[name]].finished =>
                           \E i \in DOMAIN q.data : q.data[i].node = defs[name] /\ q.data[i].name = name
                      /\ \A i \in DOMAIN q.data : q.data[i].name = name => q.data[i].node = defs[name]
    BY DEF ScopeCurrent
  <2>2. /\ s.nodes[defs[name]].finished => name \in DOMAIN p.names /\ p.names[name] = defs[name]
        /\ ~s.nodes[defs[name]].finished =>
             \E i \in DOMAIN p.data : p.data[i].node = defs[name] /\ p.data[i].name = name
        /\ \A i \in DOMAIN p.data : p.data[i].name = name => p.data[i].node = defs[name]
    BY <2>1 DEF ScopeCurrent
  <2>3. defs[name] \in DOMAIN s.nodes
    BY <1>6 DEF ScopeNames
  <2>4. \A i \in DOMAIN q.data : q.data[i].name = name => q.data[i].node = defs[name]
    BY <1>1, <1>8, <2>2
  <2>5. CASE defs[name] = d.node
    <3>1. PICK i \in DOMAIN p.data : p.data[i].node = defs[name] /\ p.data[i].name = name
      BY <1>2, <2>2, <2>5
    <3>2. d.name = name /\ name # Anonymous
      BY <1>1, <1>2, <1>7, <2>5, <3>1
    <3> QED BY <1>3, <1>4, <2>4, <2>5, <3>2
  <2>6. CASE defs[name] # d.node
    <3>1. t.nodes[defs[name]].finished = s.nodes[defs[name]].finished
      BY <1>4, <2>3, <2>6
    <3>2. ASSUME s.nodes[defs[name]].finished
          PROVE  name \in DOMAIN q.names /\ q.names[name] = defs[name]
      <4>1. name \in DOMAIN p.names /\ p.names[name] = defs[name] /\ name \notin B
        BY <2>1, <2>2, <3>2
      <4>2. name # d.name
        <5>1. d.name = name => d.node = defs[name]
          BY <1>1, <2>2
        <5> QED BY <2>6, <5>1
      <4> QED BY <1>3, <4>1, <4>2
    <3>3. ASSUME ~s.nodes[defs[name]].finished
          PROVE  \E i \in DOMAIN q.data : q.data[i].node = defs[name] /\ q.data[i].name = name
      <4>1. PICK i \in DOMAIN p.data : p.data[i].node = defs[name] /\ p.data[i].name = name
        BY <2>2, <3>3
      <4>2. i # m
        BY <1>1, <2>6, <4>1
      <4>3. i \in DOMAIN q.data /\ q.data[i] = p.data[i]
        BY <1>1, <4>2
      <4> QED BY <4>1, <4>3
    <3> QED BY <2>4, <3>1, <3>2, <3>3
  <2> QED BY <2>5, <2>6
<1>14. t.ps[n] = q /\ t.scopes[n].defs = defs
  BY <1>1, <1>3 DEF defs
<1>15. GoodScope(t, R, n)
  BY <1>5, <1>9, <1>10, <1>11, <1>12, <1>13, <1>14 DEF GoodScope
<1> QED BY <1>15 DEF n

LEMMA NodeDoneIsGood ==
  ASSUME NEW s, NEW Q, Good(s, Q), Inmost(s.rules) = "node", NEW t, NEW q, NEW B, NodeDone(s, t, q, B),
         NEW R, Q \subseteq R, Calm(R) => B \cap DOMAIN Inmost(s.ps).names = {}
  PROVE  Good(t, R)
<1> DEFINE n == Len(s.ps)
<1>1. n \in Nat \ {0} /\ DOMAIN t.ps = 1 .. n /\ Len(t.ps) = n /\ DOMAIN s.ps = 1 .. n
  BY NodeDoneStacks
<1>2. Shape(t)
  BY NodeDoneShape
<1>3. ASSUME NEW k \in 1 .. n PROVE GoodScope(t, R, k)
  <2>1. CASE k = n
    BY <2>1, NodeDoneInmost
  <2>2. CASE k \in 1 .. n - 1
    BY <2>2, NodeDoneOutside
  <2> QED BY <1>1, <2>1, <2>2
<1>4. Alone(t)
  <2>1. ASSUME NEW k \in 1 .. n, NEW i \in DOMAIN t.ps[k].data
        PROVE  i \in DOMAIN s.ps[k].data /\ t.ps[k].data[i] = s.ps[k].data[i]
    <3>1. /\ t.ps[n] = q /\ \A h \in 1 .. n - 1 : t.ps[h] = s.ps[h]
          /\ Len(s.ps[n].data) \in Nat \ {0} /\ DOMAIN s.ps[n].data = 1 .. Len(s.ps[n].data)
          /\ DOMAIN q.data = 1 .. Len(s.ps[n].data) - 1
          /\ \A j \in 1 .. Len(s.ps[n].data) - 1 : q.data[j] = s.ps[n].data[j]
      BY NodeDoneStacks
    <3>2. CASE k = n
      <4>1. i \in DOMAIN q.data /\ t.ps[k].data = q.data
        BY <3>1, <3>2
      <4>2. i \in DOMAIN s.ps[n].data /\ q.data[i] = s.ps[n].data[i]
        BY <3>1, <4>1
      <4> QED BY <3>2, <4>1, <4>2
    <3>3. CASE k \in 1 .. n - 1
      <4>1. t.ps[k] = s.ps[k]
        BY <3>1, <3>3
      <4> QED BY <4>1
    <3> QED BY <1>1, <3>2, <3>3
  <2>2. Alone(s)
    BY DEF Good
  <2> SUFFICES ASSUME NEW k \in 1 .. n, NEW h \in 1 .. n, NEW i \in DOMAIN t.ps[k].data,
                      NEW j \in DOMAIN t.ps[h].data,
                      t.ps[k].data[i].node = t.ps[h].data[j].node, t.ps[k].data[i].node # 0
               PROVE  k = h /\ i = j
    BY <1>1 DEF Alone
  <2>3. /\ i \in DOMAIN s.ps[k].data /\ t.ps[k].data[i] = s.ps[k].data[i]
        /\ j \in DOMAIN s.ps[h].data /\ t.ps[h].data[j] = s.ps[h].data[j]
    BY <2>1
  <2> QED BY <1>1, <2>2, <2>3 DEF Alone
<1> QED BY <1>1, <1>2, <1>3, <1>4 DEF Good

\* An instance keeps the root's nodes.
LEMMA ClonedRoot ==
  ASSUME NEW s, RootNodes(s), NEW q, NEW M, NEW B, Cloned(Inmost(s.ps), q, s.nodes, M, B),
         NEW x \in StateSet, x.ps = SetInmost(s.ps, q), x.nodes = M
  PROVE  RootNodes(x)
<1>1. /\ s \in StateSet /\ s.ps # << >> /\ s.ps \in Seq(ParseScopeSet)
      /\ \A i \in DOMAIN s.ps[1].data : s.ps[1].data[i].node \in DOMAIN s.nodes
  BY DEF RootNodes, StateSet
<1>2. q \in ParseScopeSet /\ q = [Inmost(s.ps) EXCEPT !.names = q.names] /\ DOMAIN s.nodes \subseteq DOMAIN M
  BY DEF Cloned
<1>3. Inmost(s.ps) = s.ps[Len(s.ps)] /\ Len(s.ps) \in Nat \ {0} /\ Inmost(s.ps) \in ParseScopeSet
  BY <1>1, StackOfSeq
<1>4. q.data = s.ps[Len(s.ps)].data
  BY <1>2, <1>3 DEF ParseScopeSet
<1>5. /\ x.ps # << >> /\ x.ps[Len(s.ps)] = q
      /\ \A k \in 1 .. Len(s.ps) - 1 : x.ps[k] = s.ps[k]
  <2>1. /\ SetInmost(s.ps, q) # << >> /\ SetInmost(s.ps, q)[Len(s.ps)] = q
        /\ \A k \in 1 .. Len(s.ps) - 1 : SetInmost(s.ps, q)[k] = s.ps[k]
    BY <1>1, <1>2, ReplacedScope
  <2> QED BY <2>1
<1>6. x.ps[1].data = s.ps[1].data
  <2>1. CASE Len(s.ps) = 1
    BY <1>4, <1>5, <2>1
  <2>2. CASE Len(s.ps) # 1
    <3> DEFINE n == Len(s.ps)
    <3>0. n \in Nat \ {0} /\ n # 1
      BY <1>3, <2>2
    <3> HIDE DEF n
    <3>1. 1 \in 1 .. n - 1
      BY <3>0
    <3> QED BY <1>5, <3>1 DEF n
  <2> QED BY <2>1, <2>2
<1> QED BY <1>1, <1>2, <1>5, <1>6 DEF RootNodes

LEMMA ValuesAreNodes ==
  ASSUME NEW d \in DataSet
  PROVE  UNION {Range(d.values[f]) : f \in DOMAIN d.values} \subseteq Nat
<1>1. d.values \in Maps(Text, Seq(Nat))
  BY DEF DataSet
<1>2. \A f \in DOMAIN d.values : d.values[f] \in Seq(Nat)
  BY <1>1, MapIs
<1>3. ASSUME NEW v \in Seq(Nat) PROVE Range(v) \subseteq Nat
  BY LenProperties, ElementOfSeq DEF Range
<1> QED BY <1>2, <1>3

\* What the node's own values are: a Script's are its own, too.
Own(s) ==
  LET d == Inmost(Inmost(s.ps).data)
      values == UNION {Range(d.values[f]) : f \in DOMAIN d.values}
  IN IF s.nodes[d.node].type = Script /\ SELF \in values
     THEN (values \ {SELF}) \cup {d.node} ELSE values
Closed(p) ==
  [p EXCEPT !.data = Outer(@),
            !.names = IF Inmost(p.data).name = Anonymous THEN @ ELSE Named(@, Inmost(p.data)),
            !.isMap = Targets(p, Inmost(p.data))]
Stored(s) ==
  LET p == Inmost(s.ps)
      d == Inmost(p.data)
      node == [s.nodes[d.node] EXCEPT !.finished = TRUE, !.children = Own(s)]
  IN [s EXCEPT !.ps = SetInmost(@, Closed(p)), !.nodes[d.node] = node]

LEMMA FinishedIs ==
  ASSUME NEW s \in StateSet, s.fault = "parsing"
  PROVE  LET p == Inmost(s.ps)
             d == Inmost(p.data)
         IN \/ Finished(s) = [s EXCEPT !.fault = "children"] /\ (p.children = << >> \/ p.data = << >>)
            \/ /\ Finished(s) = [s EXCEPT !.fault = "exception"] /\ ~Creatable(s.nodes[d.node], d)
               /\ p.children # << >> /\ p.data # << >>
            \/ /\ Finished(s) = AddChild(Stored(s), d.node) /\ Creatable(s.nodes[d.node], d)
               /\ p.children # << >> /\ p.data # << >>
<1> DEFINE p == Inmost(s.ps)
           d == Inmost(p.data)
           finished == [p EXCEPT !.data = Outer(@),
                                 !.names = IF d.name = Anonymous THEN @ ELSE Named(@, d),
                                 !.isMap = Targets(p, d)]
           node == [s.nodes[d.node] EXCEPT !.finished = TRUE, !.children = Own(s)]
           next == [s EXCEPT !.ps = SetInmost(@, finished), !.nodes[d.node] = node]
<1>1. Finished(s) = IF s.fault # "parsing" THEN s
                    ELSE IF p.children = << >> \/ p.data = << >> THEN [s EXCEPT !.fault = "children"]
                    ELSE IF ~Creatable(s.nodes[d.node], d) THEN [s EXCEPT !.fault = "exception"]
                    ELSE AddChild(next, d.node)
  BY DEF Finished, Own
<1>2. finished = Closed(p)
  BY DEF Closed
<1>3. next = Stored(s)
  BY <1>2 DEF Stored
<1> HIDE DEF next
<1> QED BY <1>1, <1>3

LEMMA ClosedIs ==
  ASSUME NEW p \in ParseScopeSet, p.data # << >>
  PROVE  LET d == Inmost(p.data)
             q == Closed(p)
         IN /\ q \in ParseScopeSet /\ q.data = Outer(p.data) /\ q.isMap = Targets(p, d)
            /\ q.said = p.said /\ q.bodies = p.bodies /\ q.children = p.children
            /\ q.type = p.type /\ q.routes = p.routes
            /\ DOMAIN q.names = DOMAIN p.names \cup ({d.name} \ {Anonymous})
            /\ d.name # Anonymous => q.names[d.name] = d.node
            /\ \A z \in DOMAIN p.names \ {d.name} : q.names[z] = p.names[z]
<1> DEFINE d == Inmost(p.data)
           names == IF d.name = Anonymous THEN p.names ELSE Named(p.names, d)
           q == [p EXCEPT !.data = Outer(@), !.names = names, !.isMap = Targets(p, d)]
<1>1. d \in DataSet /\ p.data \in Seq(DataSet)
  BY InmostData
<1>2. d.node \in Nat /\ d.name \in Names \cup {Anonymous} /\ d.isMap \subseteq STRING \X STRING
  BY <1>1 DEF DataSet
<1>3. p.names \in FiniteMaps(Names, Nat) /\ p.isMap \subseteq Nat \X STRING \X STRING
  BY DEF ParseScopeSet
<1>4. Outer(p.data) \in Seq(DataSet)
  BY <1>1, StackOfSeq
<1>5. Closed(p) = q
  BY DEF Closed
<1>6. Anonymous \notin DOMAIN p.names
  <2>1. DOMAIN p.names \subseteq Names
    BY <1>3, MapIs DEF FiniteMaps
  <2> QED BY <2>1, ParseAssumption
<1> HIDE DEF d
<1>7. /\ names \in FiniteMaps(Names, Nat)
      /\ DOMAIN names = DOMAIN p.names \cup ({d.name} \ {Anonymous})
      /\ d.name # Anonymous => names[d.name] = d.node
      /\ \A z \in DOMAIN p.names \ {d.name} : names[z] = p.names[z]
  <2>1. CASE d.name = Anonymous
    BY <1>3, <2>1
  <2>2. CASE d.name # Anonymous
    <3>1. d.name \in Names /\ names = With(p.names, d.name, d.node) /\ p.names \in Maps(Names, Nat)
      BY <1>2, <1>3, <2>2 DEF Named, FiniteMaps
    <3>2. /\ DOMAIN With(p.names, d.name, d.node) = DOMAIN p.names \cup {d.name}
          /\ With(p.names, d.name, d.node)[d.name] = d.node
          /\ \A z \in DOMAIN p.names : z # d.name => With(p.names, d.name, d.node)[z] = p.names[z]
          /\ With(p.names, d.name, d.node) \in FiniteMaps(Names, Nat)
      <4> DEFINE f == p.names
                 x == d.name
                 y == d.node
      <4>1. f \in Maps(Names, Nat) /\ f \in FiniteMaps(Names, Nat) /\ x \in Names /\ y \in Nat
        BY <1>2, <1>3, <3>1
      <4> HIDE DEF f, x, y
      <4>2. /\ DOMAIN With(f, x, y) = DOMAIN f \cup {x} /\ With(f, x, y)[x] = y
            /\ \A z \in DOMAIN f : z # x => With(f, x, y)[z] = f[z]
        BY DEF With
      <4>3. With(f, x, y) \in FiniteMaps(Names, Nat)
        BY <4>1, WithMap
      <4> QED BY <4>2, <4>3 DEF f, x, y
    <3> HIDE DEF names
    <3> QED BY <2>2, <3>1, <3>2
  <2> QED BY <2>1, <2>2
<1>8. Targets(p, d) \subseteq Nat \X STRING \X STRING
  <2>1. \A m \in d.isMap : <<d.node, m[1], m[2]>> \in Nat \X STRING \X STRING
    BY <1>2
  <2> QED BY <1>3, <2>1 DEF Targets
<1> HIDE DEF names
<1>9. /\ q \in ParseScopeSet /\ q.data = Outer(p.data) /\ q.names = names /\ q.isMap = Targets(p, d)
      /\ q.said = p.said /\ q.bodies = p.bodies /\ q.children = p.children
      /\ q.type = p.type /\ q.routes = p.routes
  BY <1>4, <1>7, <1>8 DEF ParseScopeSet
<1> HIDE DEF q
<1> QED BY <1>5, <1>7, <1>9 DEF d

LEMMA StoredIs ==
  ASSUME NEW s \in StateSet, s.ps # << >>, Inmost(s.ps).data # << >>,
         Inmost(Inmost(s.ps).data).node \in DOMAIN s.nodes
  PROVE  LET p == Inmost(s.ps)
             d == Inmost(p.data)
             t == Stored(s)
         IN /\ t \in StateSet /\ t.ps = SetInmost(s.ps, Closed(p)) /\ t.rules = s.rules
            /\ t.scopes = s.scopes /\ t.fault = s.fault /\ DOMAIN t.nodes = DOMAIN s.nodes
            /\ t.nodes[d.node].finished /\ \A n \in DOMAIN s.nodes \ {d.node} : t.nodes[n] = s.nodes[n]
<1> DEFINE p == Inmost(s.ps)
           d == Inmost(p.data)
           node == [s.nodes[d.node] EXCEPT !.finished = TRUE, !.children = Own(s)]
           all == [s.nodes EXCEPT ![d.node] = node]
           t == [s EXCEPT !.ps = SetInmost(@, Closed(p)), !.nodes = all]
<1>1. p \in ParseScopeSet /\ s.nodes \in Seq(NodeSet)
  BY StackOfSeq DEF StateSet
<1>2. d \in DataSet
  BY <1>1, InmostData
<1>3. SetInmost(s.ps, Closed(p)) \in Seq(ParseScopeSet)
  <2>1. Closed(p) \in ParseScopeSet
    BY <1>1, ClosedIs
  <2> QED BY <2>1, ReplacedScope DEF StateSet
<1>4. Own(s) \subseteq Nat
  <2>1. UNION {Range(d.values[f]) : f \in DOMAIN d.values} \subseteq Nat /\ d.node \in Nat
    BY <1>2, ValuesAreNodes DEF DataSet
  <2> QED BY <2>1 DEF Own
<1>5. s.nodes[d.node] \in NodeSet
  BY <1>1, LenProperties, ElementOfSeq
<1> HIDE DEF d
<1>6. node \in NodeSet /\ node.finished
  BY <1>4, <1>5 DEF NodeSet
<1>7. d.node \in DOMAIN s.nodes
  BY DEF d
<1> HIDE DEF node
<1>8. /\ all \in Seq(NodeSet) /\ DOMAIN all = DOMAIN s.nodes /\ all[d.node] = node
      /\ \A n \in DOMAIN s.nodes \ {d.node} : all[n] = s.nodes[n]
  <2>1. /\ DOMAIN all = DOMAIN s.nodes /\ all[d.node] = node
        /\ \A n \in DOMAIN s.nodes \ {d.node} : all[n] = s.nodes[n]
    BY <1>7
  <2>2. all \in Seq(NodeSet)
    <3>1. Len(s.nodes) \in Nat /\ DOMAIN s.nodes = 1 .. Len(s.nodes)
      BY <1>1, LenProperties
    <3>2. \A n \in 1 .. Len(s.nodes) : s.nodes[n] \in NodeSet
      BY <1>1, ElementOfSeq
    <3> HIDE DEF all
    <3>3. \A n \in 1 .. Len(s.nodes) : all[n] \in NodeSet
      BY <1>6, <2>1, <3>1, <3>2
    <3>4. all = [n \in 1 .. Len(s.nodes) |-> all[n]]
      BY <2>1, <3>1 DEF all
    <3>5. all \in [1 .. Len(s.nodes) -> NodeSet]
      BY <3>3, <3>4
    <3> QED BY <3>1, <3>5
  <2> QED BY <2>1, <2>2
<1>9. Stored(s) = t
  BY DEF Stored, node, all, d
<1> HIDE DEF all
<1>10. /\ t \in StateSet /\ t.ps = SetInmost(s.ps, Closed(p)) /\ t.rules = s.rules
       /\ t.scopes = s.scopes /\ t.fault = s.fault /\ t.nodes = all
  BY <1>3, <1>8 DEF StateSet
<1> HIDE DEF t
<1> QED BY <1>6, <1>8, <1>9, <1>10 DEF d

(* The end of a node: it is created and stored, after the clones of its    *)
(* body if it is an instance, which may take names of the scope only if    *)
(* that is noted.                                                          *)
LEMMA NodeFinishIsFine ==
  ASSUME NEW h, NEW Q, Good(h, Q), h.fault = "parsing", Inmost(h.rules) = "node", NEW R, Q \subseteq R,
         LET p == Inmost(h.ps)
         IN Calm(R) => DOMAIN BodyNames(h, h.nodes[Inmost(p.data).node].type) \cap DOMAIN p.names = {}
  PROVE  Fine(NodeFinish([h EXCEPT !.rules = Outer(@)]), R)
<1> DEFINE s == [h EXCEPT !.rules = Outer(@)]
           p == Inmost(h.ps)
           d == Inmost(p.data)
           type == h.nodes[d.node].type
           B == DOMAIN BodyNames(h, type)
<1>1. /\ h \in StateSet /\ h.ps # << >> /\ p \in ParseScopeSet /\ h.rules \in Seq(RuleNames)
      /\ Grammar(h.rules) /\ h.ps \in Seq(ParseScopeSet)
  BY GoodInmost DEF StateSet
<1>2. Outer(h.rules) \in Seq(RuleNames)
  BY <1>1, GrammarPop
<1>3. /\ s \in StateSet /\ s.rules = Outer(h.rules) /\ s.scopes = h.scopes /\ s.ps = h.ps
      /\ s.nodes = h.nodes /\ s.fault = "parsing"
  BY <1>1, <1>2 DEF StateSet
<1>4. /\ p.data # << >> /\ d \in DataSet /\ d.node \in DOMAIN h.nodes
      /\ \A n \in DOMAIN h.nodes : n = d.node \/ n # d.node
  BY NodeRead
<1>5. \A k \in DOMAIN h.ps : ScopeBodies(h.ps[k], h.nodes)
  <2>1. DOMAIN h.ps = 1 .. Len(h.ps)
    BY <1>1, LenProperties
  <2> QED BY <2>1 DEF Good, GoodScope
<1> HIDE DEF s
<1>6. BodyNames(s, type) = BodyNames(h, type)
  <2> HIDE DEF type
  <2> QED BY <1>3 DEF BodyNames
<1>7. PICK q, M : /\ Instance(s, type) = [s EXCEPT !.ps = SetInmost(@, q), !.nodes = M]
                  /\ Cloned(Inmost(s.ps), q, s.nodes, M, DOMAIN BodyNames(s, type))
  BY <1>1, <1>3, <1>5, InstanceIs
<1> DEFINE x == [s EXCEPT !.ps = SetInmost(@, q), !.nodes = M]
<1>8. Cloned(p, q, h.nodes, M, B)
  BY <1>3, <1>6, <1>7
<1>9. /\ q \in ParseScopeSet /\ q = [p EXCEPT !.names = q.names] /\ M \in Seq(NodeSet)
      /\ DOMAIN q.names = DOMAIN p.names \cup B /\ DOMAIN h.nodes \subseteq DOMAIN M
      /\ \A z \in DOMAIN p.names \ B : q.names[z] = p.names[z]
      /\ \A z \in B : q.names[z] \in DOMAIN M \ DOMAIN h.nodes
      /\ \A n \in DOMAIN h.nodes : M[n] = h.nodes[n]
  BY <1>8 DEF Cloned
<1>10. Instantiated(s) = x
  BY <1>3, <1>4, <1>7 DEF Instantiated
<1> HIDE DEF B, p, d, type
<1>11. /\ q.data = p.data /\ q.isMap = p.isMap /\ q.said = p.said /\ q.bodies = p.bodies
       /\ q.children = p.children
  <2>1. p \in ParseScopeSet
    BY <1>1
  <2> QED BY <1>9, <2>1 DEF ParseScopeSet
<1>12. /\ SetInmost(h.ps, q) \in Seq(ParseScopeSet) /\ SetInmost(h.ps, q) # << >>
       /\ Inmost(SetInmost(h.ps, q)) = q
  BY <1>1, <1>9, ReplacedScope
<1>13. /\ x \in StateSet /\ x.ps = SetInmost(h.ps, q) /\ x.nodes = M /\ x.rules = Outer(h.rules)
       /\ x.scopes = h.scopes /\ x.fault = "parsing"
  BY <1>3, <1>9, <1>12 DEF StateSet
<1> HIDE DEF x
<1>14. Inmost(x.ps) = q /\ x.ps # << >> /\ Inmost(q.data) = d
  BY <1>11, <1>12, <1>13 DEF d
<1>15. NodeFinish(s) = Finished(x)
  BY <1>10 DEF NodeFinish
<1>16. RootNodes(x)
  <2>1. RootNodes(h)
    BY RootIsKnown
  <2> QED BY <1>8, <1>13, <2>1, ClonedRoot DEF p
<1>17. Fine([x EXCEPT !.fault = "children"], R) /\ Fine([x EXCEPT !.fault = "exception"], R)
  BY <1>13, <1>16, FailsFine, ThrowsFine
<1> DEFINE y == Stored(x)
           c == Closed(q)
<1>18. /\ y \in StateSet /\ y.ps = SetInmost(x.ps, c) /\ y.rules = x.rules
       /\ y.scopes = x.scopes /\ y.fault = x.fault /\ DOMAIN y.nodes = DOMAIN x.nodes
       /\ y.nodes[d.node].finished /\ \A n \in DOMAIN x.nodes \ {d.node} : y.nodes[n] = x.nodes[n]
  <2>1. Inmost(x.ps).data # << >> /\ Inmost(Inmost(x.ps).data) = d /\ d.node \in DOMAIN x.nodes
    BY <1>4, <1>9, <1>11, <1>13, <1>14 DEF p, d
  <2> QED BY <1>13, <1>14, <2>1, StoredIs
<1>19. /\ c \in ParseScopeSet /\ c.data = Outer(q.data) /\ c.isMap = Targets(q, d)
       /\ c.said = q.said /\ c.bodies = q.bodies
       /\ DOMAIN c.names = DOMAIN q.names \cup ({d.name} \ {Anonymous})
       /\ d.name # Anonymous => c.names[d.name] = d.node
       /\ \A z \in DOMAIN q.names \ {d.name} : c.names[z] = q.names[z]
  <2>1. q.data # << >>
    BY <1>4, <1>11
  <2> QED BY <1>9, <1>14, <2>1, ClosedIs
<1>20. y.ps = SetInmost(h.ps, c)
  <2>1. SetInmost(SetInmost(h.ps, q), c) = SetInmost(h.ps, c)
    BY <1>1, <1>9, ReplacedTwice
  <2> QED BY <1>13, <1>18, <2>1
<1> HIDE DEF y, c
<1>21. NodeDone(h, y, c, B)
  <2>1. y \in StateSet /\ y.rules = Outer(h.rules) /\ y.scopes = h.scopes
    BY <1>13, <1>18
  <2>2. c.data = Outer(p.data) /\ c.isMap = Targets(p, d) /\ c.said = p.said /\ c.bodies = p.bodies
    BY <1>11, <1>19 DEF Targets
  <2>3. DOMAIN c.names = DOMAIN p.names \cup B \cup ({d.name} \ {Anonymous})
    BY <1>9, <1>19
  <2>4. \A z \in DOMAIN p.names \ (B \cup {d.name}) : c.names[z] = p.names[z]
    BY <1>9, <1>19
  <2>5. \A z \in B \ {d.name} : c.names[z] \in DOMAIN y.nodes
    BY <1>9, <1>13, <1>18, <1>19
  <2>6. DOMAIN h.nodes \subseteq DOMAIN y.nodes /\ y.nodes[d.node].finished
    BY <1>9, <1>13, <1>18
  <2>7. \A n \in DOMAIN h.nodes \ {d.node} : y.nodes[n].finished = h.nodes[n].finished
    BY <1>9, <1>13, <1>18
  <2> QED BY <1>19, <1>20, <2>1, <2>2, <2>3, <2>4, <2>5, <2>6, <2>7 DEF NodeDone, p, d
<1>22. Calm(R) => B \cap DOMAIN Inmost(h.ps).names = {}
  BY DEF B, p, d, type
<1>23. Good(y, R)
  BY <1>21, <1>22, NodeDoneIsGood
<1>24. Fine(y, R)
  BY <1>13, <1>18, <1>23 DEF Fine
<1>25. Fine(AddChild(y, d.node), R)
  <2>1. d.node \in Nat
    BY <1>4 DEF DataSet
  <2> QED BY <1>24, <2>1, AddChildIsFine
<1>26. \/ Finished(x) = [x EXCEPT !.fault = "children"]
       \/ Finished(x) = [x EXCEPT !.fault = "exception"]
       \/ Finished(x) = AddChild(Stored(x), Inmost(Inmost(x.ps).data).node)
  BY <1>13, FinishedIs
<1>27. Finished(x) = AddChild(Stored(x), Inmost(Inmost(x.ps).data).node) => Finished(x) = AddChild(y, d.node)
  BY <1>14 DEF y
<1>28. Fine(Finished(x), R)
  BY <1>17, <1>25, <1>26, <1>27
<1> QED BY <1>15, <1>28 DEF s

-----------------------------------------------------------------------------
(* A new scope: of a PROTO, or of the default value of one of its fields.  *)

LEMMA PushScope ==
  ASSUME NEW s, NEW Q, Good(s, Q), NEW x \in Openers, Inmost(s.rules) \in Callers[x],
         NEW e \in DataSet, e.node = 0, e.name = Anonymous, e.isMap = {},
         NEW q \in ParseScopeSet, q.data = << e >>, q.names = << >>, q.said = {}, q.isMap = {},
         q.bodies = << >>, NEW g \in ScopeSet, g.defs = << >>,
         NEW t \in StateSet, t.rules = Append(s.rules, x), t.scopes = Append(s.scopes, g),
         t.ps = Append(s.ps, q), t.nodes = s.nodes
  PROVE  Good(t, Q)
<1> DEFINE n == Len(s.ps)
<1>1. /\ n \in Nat \ {0} /\ DOMAIN s.ps = 1 .. n /\ n = Top(s.rules) /\ Len(s.scopes) = n
  BY Shapes DEF Good
<1>2. /\ s.ps \in Seq(ParseScopeSet) /\ s.scopes \in Seq(ScopeSet) /\ s.rules \in Seq(RuleNames)
      /\ Grammar(s.rules)
  BY DEF Good, Shape, StateSet
<1>3. x \in RuleNames /\ x \in Scoped /\ x \in Holding
  BY DEF Openers, RuleNames, Scoped, Holding
<1>4. Grammar(t.rules) /\ Top(t.rules) = n + 1 /\ t.rules \in Seq(RuleNames)
  BY <1>1, <1>2, <1>3, GrammarPush, TopPush, Pushed
<1>5. ASSUME NEW k \in 1 .. n, NEW S PROVE CountIn(t.rules, k, S) = CountIn(s.rules, k, S)
  <2>1. CountIn(s.rules, k, S) \in Nat
    BY <1>2, <1>3, CountPush
  <2>2. k # Top(Append(s.rules, x))
    BY <1>1, <1>4
  <2>3. CountIn(Append(s.rules, x), k, S) = CountIn(s.rules, k, S) + 0
    BY <1>2, <1>3, <2>2, CountPush
  <2> QED BY <2>1, <2>3
<1>6. ASSUME NEW S, x \in S PROVE CountIn(t.rules, n + 1, S) = 1
  <2>1. CountIn(s.rules, n + 1, S) = 0
    <3>1. n + 1 \in Nat /\ n + 1 > Top(s.rules)
      BY <1>1
    <3> HIDE DEF n
    <3> QED BY <1>2, <3>1, CountAbove
  <2>2. n + 1 = Top(Append(s.rules, x))
    BY <1>4
  <2> HIDE DEF n
  <2>3. CountIn(Append(s.rules, x), n + 1, S) = CountIn(s.rules, n + 1, S) + 1
    BY <1>2, <1>3, <1>6, <2>2, CountPush
  <2> QED BY <2>1, <2>3
<1>7. /\ Len(t.ps) = n + 1 /\ DOMAIN t.ps = 1 .. n + 1 /\ t.ps[n + 1] = q
      /\ \A k \in 1 .. n : t.ps[k] = s.ps[k]
  BY <1>2, Pushed
<1>8. Len(t.scopes) = n + 1 /\ t.scopes[n + 1] = g /\ \A k \in 1 .. n : t.scopes[k] = s.scopes[k]
  BY <1>1, <1>2, Pushed
<1>9. Len(q.data) = 1 /\ DOMAIN q.data = {1} /\ q.data[1] = e
  BY DEF ParseScopeSet
<1> HIDE DEF n
<1>10. Shape(t)
  <2>1. ASSUME NEW k \in 1 .. n + 1 PROVE Len(t.ps[k].data) = CountIn(t.rules, k, Holding)
    <3>1. CASE k = n + 1
      BY <1>3, <1>6, <1>7, <1>9, <3>1
    <3>2. CASE k \in 1 .. n
      <4>1. Len(s.ps[k].data) = CountIn(s.rules, k, Holding)
        BY <3>2 DEF Good, Shape, n
      <4> QED BY <1>5, <1>7, <3>2, <4>1
    <3> QED BY <1>1, <3>1, <3>2
  <2> QED BY <1>4, <1>7, <1>8, <2>1 DEF Shape
<1>11. ASSUME NEW k \in 1 .. n + 1 PROVE GoodScope(t, Q, k)
  <2>1. CASE k = n + 1
    <3>1. CountIn(t.rules, k, Openers) = 1
      BY <1>6, <2>1
    <3>2. t.ps[k] = q /\ t.scopes[k].defs = << >>
      BY <1>7, <1>8, <2>1
    <3>3. ScopeNodes(q, 1, t.nodes)
      BY <1>9 DEF ScopeNodes
    <3>4. ScopeNames(<< >>, q, t.nodes) /\ ScopeCurrent(<< >>, q, t.nodes)
      BY <1>9 DEF ScopeNames, ScopeCurrent
    <3>5. ScopeBodies(q, t.nodes)
      BY DEF ScopeBodies
    <3>6. ScopeSaid(q)
      <4>1. SaidOf(q, 1) = {}
        BY <1>9 DEF SaidOf
      <4>2. UNION {SaidOf(q, i) : i \in DOMAIN q.data} = {}
        BY <1>9, <4>1
      <4> QED BY <4>2 DEF ScopeSaid
    <3> QED BY <3>1, <3>2, <3>3, <3>4, <3>5, <3>6 DEF GoodScope
  <2>2. CASE k \in 1 .. n
    <3>1. GoodScope(s, Q, k)
      BY <2>2 DEF Good, n
    <3>2. /\ t.ps[k] = s.ps[k] /\ t.scopes[k] = s.scopes[k] /\ t.nodes = s.nodes
          /\ CountIn(t.rules, k, Openers) = CountIn(s.rules, k, Openers)
      BY <1>5, <1>7, <1>8, <2>2
    <3> QED BY <3>1, <3>2 DEF GoodScope
  <2> QED BY <1>1, <2>1, <2>2
<1>12. Alone(t)
  <2>1. \A k \in DOMAIN t.ps : (k \in DOMAIN s.ps /\ t.ps[k] = s.ps[k]) \/ k = n + 1
    BY <1>1, <1>7
  <2>2. \A i \in DOMAIN t.ps[n + 1].data : t.ps[n + 1].data[i].node = 0
    BY <1>7, <1>9
  <2>3. Alone(s)
    BY DEF Good
  <2> SUFFICES ASSUME NEW k \in DOMAIN t.ps, NEW h \in DOMAIN t.ps, NEW i \in DOMAIN t.ps[k].data,
                      NEW j \in DOMAIN t.ps[h].data,
                      t.ps[k].data[i].node = t.ps[h].data[j].node, t.ps[k].data[i].node # 0
               PROVE  k = h /\ i = j
    BY DEF Alone
  <2>4. k # n + 1 /\ h # n + 1
    BY <2>2
  <2>5. k \in DOMAIN s.ps /\ t.ps[k] = s.ps[k] /\ h \in DOMAIN s.ps /\ t.ps[h] = s.ps[h]
    BY <2>1, <2>4
  <2> QED BY <2>3, <2>5 DEF Alone
<1> QED BY <1>7, <1>10, <1>11, <1>12 DEF Good

LEMMA NoScopeIs ==
  /\ NoScope \in ScopeSet /\ NoScope.defs = << >>
  /\ [NoScope EXCEPT !.proto = TRUE] \in ScopeSet /\ [NoScope EXCEPT !.proto = TRUE].defs = << >>
<1>1. << >> \in Maps(Names, Nat) /\ << >> \in Maps(TypeIds, SUBSET Interface)
  BY EmptyMap
<1> QED BY <1>1 DEF NoScope, ScopeSet

LEMMA NoParseScopeIs ==
  ASSUME NEW type \in Text, NEW data \in Seq(DataSet), NEW children \in Seq(Seq(Nat))
  PROVE  LET q == [NoParseScope EXCEPT !.type = type, !.data = data, !.children = children]
         IN /\ q \in ParseScopeSet /\ q.data = data /\ q.names = << >> /\ q.said = {}
            /\ q.isMap = {} /\ q.bodies = << >> /\ q.children = children
<1>1. << >> \in FiniteMaps(Names, Nat) /\ << >> \in Maps(Text, FiniteMaps(Names, Nat))
  BY EmptyMap
<1>2. << >> \in Seq(RouteSet)
  BY EmptySeq
<1> QED BY <1>1, <1>2 DEF NoParseScope, ParseScopeSet

\* The parse scopes of a PROTO, and of a default value.
LEMMA OpenedScopes ==
  /\ \A type \in Text, data \in Seq(DataSet) :
       LET q == [NoParseScope EXCEPT !.type = type, !.data = data]
       IN /\ q \in ParseScopeSet /\ q.data = data /\ q.names = << >> /\ q.said = {}
          /\ q.isMap = {} /\ q.bodies = << >>
  /\ \A data \in Seq(DataSet), children \in Seq(Seq(Nat)) :
       LET q == [NoParseScope EXCEPT !.data = data, !.children = children]
       IN /\ q \in ParseScopeSet /\ q.data = data /\ q.names = << >> /\ q.said = {}
          /\ q.isMap = {} /\ q.bodies = << >>
<1>1. << >> \in FiniteMaps(Names, Nat) /\ << >> \in Maps(Text, FiniteMaps(Names, Nat))
  BY EmptyMap
<1>2. << >> \in Seq(RouteSet) /\ << >> \in Seq(Seq(Nat)) /\ "" \in Text
  BY EmptySeq DEF Text
<1> QED BY <1>1, <1>2 DEF NoParseScope, ParseScopeSet

LEMMA NoDataIs ==
  ASSUME NEW n \in Nat, NEW name \in Names \cup {Anonymous}
  PROVE  /\ NodeData(n, name) \in DataSet /\ NodeData(n, name).node = n
         /\ NodeData(n, name).name = name /\ NodeData(n, name).isMap = {}
<1>1. << >> \in Maps(Text, Seq(Nat))
  BY EmptyMap
<1> QED BY <1>1 DEF NodeData, DataSet

-----------------------------------------------------------------------------
(* A node starts.                                                          *)

LEMMA PushNode ==
  ASSUME NEW q \in Seq(RuleNames), Grammar(q), Inmost(q) \in Callers["node"]
  PROVE  LET r == Append(q, "node")
         IN /\ r \in Seq(RuleNames) /\ Grammar(r) /\ Top(r) = Top(q)
            /\ \A k : CountIn(r, k, Openers) = CountIn(q, k, Openers)
            /\ \A k : CountIn(r, k, Holding) \in Nat /\ CountIn(q, k, Holding) \in Nat
            /\ \A k : CountIn(r, k, Holding) = CountIn(q, k, Holding) + IF k = Top(q) THEN 1 ELSE 0
<1> DEFINE r == Append(q, "node")
<1>1. "node" \in RuleNames /\ "node" \notin Scoped /\ "node" \in Holding /\ "node" \notin Openers
  BY DEF RuleNames, Scoped, Holding, Openers
<1>2. r \in Seq(RuleNames) /\ Grammar(r)
  BY <1>1, Pushed, GrammarPush
<1>3. Top(r) = Top(q)
  BY <1>1, TopPush
<1>4. \A k : CountIn(r, k, Openers) = CountIn(q, k, Openers)
  BY <1>1, CountPush
<1>5. \A k : CountIn(r, k, Holding) \in Nat /\ CountIn(q, k, Holding) \in Nat
  BY <1>2, OpenersHold
<1>6. ASSUME NEW k PROVE CountIn(r, k, Holding) = CountIn(q, k, Holding) + IF k = Top(q) THEN 1 ELSE 0
  <2>1. CountIn(r, k, Holding) =
          CountIn(q, k, Holding) + IF k = Top(r) /\ "node" \in Holding THEN 1 ELSE 0
    BY <1>1, CountPush
  <2> QED BY <1>1, <1>3, <2>1
<1> QED BY <1>2, <1>3, <1>4, <1>5, <1>6

\* The state t after the start of the node x, with a name or without, in the innermost scope.
Started(s, t, x, name, defs, q) ==
  /\ t \in StateSet /\ t.rules = Append(s.rules, "node") /\ t.ps = SetInmost(s.ps, q)
  /\ q \in ParseScopeSet /\ q.data = Append(Inmost(s.ps).data, NodeData(x, name))
  /\ q.names = Inmost(s.ps).names /\ q.said = Inmost(s.ps).said /\ q.isMap = Inmost(s.ps).isMap
  /\ q.bodies = Inmost(s.ps).bodies
  /\ x = Len(s.nodes) + 1 /\ DOMAIN t.nodes = 1 .. x /\ ~t.nodes[x].finished
  /\ \A n \in DOMAIN s.nodes : t.nodes[n] = s.nodes[n]
  /\ Len(t.scopes) = Len(s.scopes)
  /\ \A k \in 1 .. Len(s.scopes) - 1 : t.scopes[k] = s.scopes[k]
  /\ t.scopes[Len(s.scopes)].defs = defs
  /\ defs = IF name = Anonymous THEN Inmost(s.scopes).defs
            ELSE With(Inmost(s.scopes).defs, name, x)

LEMMA NodeStartIsGood ==
  ASSUME NEW s, NEW Q, Good(s, Q), Inmost(s.rules) \in Callers["node"],
         NEW t, NEW x, NEW name \in Names \cup {Anonymous}, NEW defs, NEW q,
         Started(s, t, x, name, defs, q), NEW R, Q \subseteq R,
         (Calm(R) /\ name # Anonymous) => \A e \in Range(Inmost(s.ps).data) : e.name # name
  PROVE  Good(t, R)
<1> DEFINE n == Len(s.ps)
           p == Inmost(s.ps)
           m == Len(p.data)
           c == CountIn(s.rules, n, Openers)
           old == s.scopes[n].defs
<1>1. /\ n \in Nat \ {0} /\ DOMAIN s.ps = 1 .. n /\ p = s.ps[n] /\ s.ps # << >>
      /\ p \in ParseScopeSet /\ n = Top(s.rules) /\ Len(s.scopes) = n /\ n \in 1 .. n
      /\ p.data \in Seq(DataSet) /\ m \in Nat /\ DOMAIN p.data = 1 .. m
      /\ Inmost(s.scopes) = s.scopes[n] /\ s.scopes[n] \in ScopeSet
  BY Shapes DEF Good
<1>2. /\ s.ps \in Seq(ParseScopeSet) /\ s.rules \in Seq(RuleNames) /\ Grammar(s.rules)
      /\ s.nodes \in Seq(NodeSet)
  BY DEF Good, Shape, StateSet
<1>3. /\ t \in StateSet /\ t.rules = Append(s.rules, "node") /\ t.ps = SetInmost(s.ps, q)
      /\ q \in ParseScopeSet /\ q.data = Append(p.data, NodeData(x, name))
      /\ q.names = p.names /\ q.said = p.said /\ q.isMap = p.isMap /\ q.bodies = p.bodies
      /\ x = Len(s.nodes) + 1 /\ DOMAIN t.nodes = 1 .. x /\ ~t.nodes[x].finished
      /\ \A y \in DOMAIN s.nodes : t.nodes[y] = s.nodes[y]
      /\ Len(t.scopes) = n /\ \A k \in 1 .. n - 1 : t.scopes[k] = s.scopes[k]
      /\ t.scopes[n].defs = defs
      /\ defs = IF name = Anonymous THEN old ELSE With(old, name, x)
  BY <1>1 DEF Started
<1>4. DOMAIN s.nodes = 1 .. Len(s.nodes) /\ Len(s.nodes) \in Nat
  BY <1>2, LenProperties
<1>5. /\ x \in DOMAIN t.nodes /\ x \notin DOMAIN s.nodes /\ x \in Nat /\ x # 0
      /\ DOMAIN s.nodes \subseteq DOMAIN t.nodes
  BY <1>3, <1>4
<1>6. SameNodes(s.nodes, t.nodes)
  BY <1>3, <1>5 DEF SameNodes
<1>7. /\ Len(t.ps) = n /\ DOMAIN t.ps = 1 .. n /\ t.ps[n] = q
      /\ \A k \in 1 .. n - 1 : t.ps[k] = s.ps[k]
  <2>1. /\ Len(SetInmost(s.ps, q)) = Len(s.ps) /\ SetInmost(s.ps, q)[Len(s.ps)] = q
        /\ DOMAIN SetInmost(s.ps, q) = DOMAIN s.ps
        /\ \A k \in 1 .. Len(s.ps) - 1 : SetInmost(s.ps, q)[k] = s.ps[k]
    BY <1>1, <1>2, <1>3, ReplacedScope
  <2> QED BY <1>1, <1>3, <2>1
<1> DEFINE e == NodeData(x, name)
<1>8. e \in DataSet /\ e.node = x /\ e.name = name /\ e.isMap = {}
  BY <1>5, NoDataIs
<1> HIDE DEF e
<1>9. /\ Len(q.data) = m + 1 /\ DOMAIN q.data = 1 .. m + 1 /\ q.data[m + 1] = e
      /\ \A i \in 1 .. m : q.data[i] = p.data[i]
  <2>1. /\ Len(Append(p.data, e)) = Len(p.data) + 1 /\ DOMAIN Append(p.data, e) = 1 .. Len(p.data) + 1
        /\ Append(p.data, e)[Len(p.data) + 1] = e
        /\ \A k \in 1 .. Len(p.data) : Append(p.data, e)[k] = p.data[k]
    BY <1>1, <1>8, Pushed
  <2> QED BY <1>3, <2>1 DEF e
<1>10. /\ t.rules \in Seq(RuleNames) /\ Grammar(t.rules) /\ Top(t.rules) = n
       /\ \A k : CountIn(t.rules, k, Openers) = CountIn(s.rules, k, Openers)
       /\ \A k : CountIn(s.rules, k, Holding) \in Nat
       /\ \A k : CountIn(t.rules, k, Holding) = CountIn(s.rules, k, Holding) + IF k = n THEN 1 ELSE 0
  BY <1>1, <1>2, <1>3, PushNode
<1>11. Len(p.data) = CountIn(s.rules, n, Holding) /\ c \in Nat /\ c <= m
  <2>1. Len(p.data) = CountIn(s.rules, n, Holding)
    BY <1>1 DEF Good, Shape
  <2>2. c \in Nat /\ c <= CountIn(s.rules, n, Holding)
    BY <1>2, OpenersHold
  <2> QED BY <2>1, <2>2
<1>12. /\ ScopeNodes(p, c, s.nodes) /\ ScopeNames(old, p, s.nodes) /\ ScopeBodies(p, s.nodes)
       /\ ScopeSaid(p)
       /\ Calm(Q) => ScopeCurrent(old, p, s.nodes)
  BY <1>1 DEF Good, GoodScope
<1>13. \A k \in 1 .. n - 1 : GoodScope(s, Q, k)
  BY <1>1 DEF Good
<1>14. /\ Anonymous \notin DOMAIN old /\ Anonymous \notin Names
       /\ name # Anonymous => /\ DOMAIN defs = DOMAIN old \cup {name} /\ defs[name] = x
                              /\ \A z \in DOMAIN old : z # name => defs[z] = old[z]
  <2>1. old \in Maps(Names, Nat)
    BY <1>1 DEF ScopeSet
  <2>2. DOMAIN old \subseteq Names
    BY <2>1, MapIs
  <2>3. name # Anonymous => defs = With(old, name, x)
    BY <1>3
  <2> HIDE DEF old
  <2>4. /\ DOMAIN With(old, name, x) = DOMAIN old \cup {name} /\ With(old, name, x)[name] = x
        /\ \A z \in DOMAIN old : z # name => With(old, name, x)[z] = old[z]
    BY DEF With
  <2> QED BY <2>2, <2>3, <2>4, ParseAssumption
<1>15. \A k \in 1 .. n : \A i \in DOMAIN s.ps[k].data : s.ps[k].data[i].node # x
  <2> SUFFICES ASSUME NEW k \in 1 .. n, NEW i \in DOMAIN s.ps[k].data
               PROVE  s.ps[k].data[i].node # x
    OBVIOUS
  <2>1. ScopeNodes(s.ps[k], CountIn(s.rules, k, Openers), s.nodes)
    BY DEF Good, GoodScope
  <2>2. s.ps[k].data[i].node = 0 \/ s.ps[k].data[i].node \in DOMAIN s.nodes
    BY <2>1 DEF ScopeNodes
  <2> QED BY <1>5, <2>2
<1> DEFINE o == Len(s.nodes)
<1> HIDE DEF n, p, m, c, old
<1>16. Shape(t)
  <2>1. ASSUME NEW k \in 1 .. n PROVE Len(t.ps[k].data) = CountIn(t.rules, k, Holding)
    <3>1. CASE k = n
      BY <1>1, <1>7, <1>9, <1>10, <1>11, <3>1
    <3>2. CASE k # n
      <4>1. CountIn(t.rules, k, Holding) = CountIn(s.rules, k, Holding) + 0
        BY <1>10, <3>2
      <4>2. Len(s.ps[k].data) = CountIn(s.rules, k, Holding)
        BY DEF Good, Shape, n
      <4>3. k \in 1 .. n - 1
        BY <1>1, <3>2
      <4> QED BY <1>7, <1>10, <4>1, <4>2, <4>3
    <3> QED BY <3>1, <3>2
  <2> QED BY <1>3, <1>7, <1>10, <2>1 DEF Shape
<1>17. ASSUME NEW k \in 1 .. n - 1 PROVE GoodScope(t, R, k)
  <2>1. /\ t.ps[k] = s.ps[k] /\ t.scopes[k] = s.scopes[k] /\ SameHolders(s.ps[k], s.ps[k])
        /\ CountIn(t.rules, k, Openers) = CountIn(s.rules, k, Openers)
    BY <1>3, <1>7, <1>10, HoldersAreSame
  <2>2. /\ ScopeNodes(s.ps[k], CountIn(s.rules, k, Openers), s.nodes)
        /\ ScopeNames(s.scopes[k].defs, s.ps[k], s.nodes)
        /\ ScopeBodies(s.ps[k], s.nodes) /\ ScopeSaid(s.ps[k])
        /\ Calm(Q) => ScopeCurrent(s.scopes[k].defs, s.ps[k], s.nodes)
    BY <1>13 DEF GoodScope
  <2>3. ScopeNodes(s.ps[k], CountIn(s.rules, k, Openers), t.nodes)
    BY <1>6, <2>1, <2>2, QuietScope
  <2>4. ScopeNames(s.scopes[k].defs, s.ps[k], t.nodes)
    BY <1>6, <2>1, <2>2, QuietScope
  <2>5. Calm(R) => ScopeCurrent(s.scopes[k].defs, s.ps[k], t.nodes)
    <3>1. Calm(R) => Calm(Q)
      BY DEF Calm
    <3> QED BY <1>6, <2>1, <2>2, <3>1, QuietScope
  <2>6. ScopeBodies(s.ps[k], t.nodes)
    BY <1>6, <2>2, BodiesStay
  <2> QED BY <2>1, <2>2, <2>3, <2>4, <2>5, <2>6 DEF GoodScope
<1>18. ScopeNodes(q, c, t.nodes)
  <2> SUFFICES ASSUME NEW i \in 1 .. m + 1
               PROVE  IF i <= c THEN q.data[i].node = 0 /\ q.data[i].name = Anonymous /\ q.data[i].isMap = {}
                      ELSE q.data[i].node \in DOMAIN t.nodes /\ ~t.nodes[q.data[i].node].finished
    BY <1>9 DEF ScopeNodes
  <2>1. CASE i = m + 1
    <3>1. ~(i <= c) /\ q.data[i] = e
      BY <1>1, <1>9, <1>11, <2>1
    <3> QED BY <1>3, <1>5, <1>8, <3>1
  <2>2. CASE i \in 1 .. m
    <3>1. IF i <= c THEN p.data[i].node = 0 /\ p.data[i].name = Anonymous /\ p.data[i].isMap = {}
          ELSE p.data[i].node \in DOMAIN s.nodes /\ ~s.nodes[p.data[i].node].finished
      BY <1>1, <1>12, <2>2 DEF ScopeNodes
    <3>2. q.data[i] = p.data[i] /\ (p.data[i].node \in DOMAIN s.nodes =>
            /\ p.data[i].node \in DOMAIN t.nodes
            /\ t.nodes[p.data[i].node].finished = s.nodes[p.data[i].node].finished)
      BY <1>3, <1>5, <1>9, <2>2
    <3> QED BY ONLY <3>1, <3>2
  <2> QED BY <1>1, <2>1, <2>2
<1>19. \A z : InProgress(q, z) <=> (InProgress(p, z) \/ z = name)
  <2> SUFFICES ASSUME NEW z PROVE InProgress(q, z) <=> (InProgress(p, z) \/ z = name)
    OBVIOUS
  <2>1. DOMAIN q.data = DOMAIN p.data \cup {m + 1}
    BY <1>1, <1>9
  <2> QED BY <1>1, <1>8, <1>9, <2>1 DEF InProgress
<1>20. ScopeNames(defs, q, t.nodes)
  <2>1. \A z \in DOMAIN defs : (z = name /\ name # Anonymous) \/ (z \in DOMAIN old /\ defs[z] = old[z])
    BY <1>3, <1>14
  <2>2. ASSUME NEW z \in DOMAIN defs
        PROVE  defs[z] \in DOMAIN t.nodes /\ (z \in DOMAIN q.names \/ InProgress(q, z))
    <3>1. CASE z = name /\ name # Anonymous
      BY <1>5, <1>14, <1>19, <3>1
    <3>2. CASE z \in DOMAIN old /\ defs[z] = old[z]
      BY <1>3, <1>5, <1>12, <1>19, <3>2 DEF ScopeNames
    <3> QED BY <2>1, <3>1, <3>2
  <2>3. \A z \in DOMAIN q.names : q.names[z] \in DOMAIN t.nodes
    BY <1>3, <1>5, <1>12 DEF ScopeNames
  <2>4. ASSUME NEW i \in DOMAIN q.data, q.data[i].name # Anonymous PROVE q.data[i].name \in DOMAIN defs
    <3>1. CASE i = m + 1
      BY <1>8, <1>9, <1>14, <2>4, <3>1
    <3>2. CASE i \in 1 .. m
      <4>1. q.data[i].name \in DOMAIN old
        BY <1>1, <1>9, <1>12, <2>4, <3>2 DEF ScopeNames
      <4> QED BY <1>3, <1>14, <4>1
    <3> QED BY <1>1, <1>9, <3>1, <3>2
  <2> QED BY <2>2, <2>3, <2>4 DEF ScopeNames
<1>21. ScopeBodies(q, t.nodes)
  BY <1>3, <1>6, <1>12, BodiesStay
<1>22. ScopeSaid(q)
  <2>1. SaidOf(q, m + 1) = {}
    BY <1>8, <1>9 DEF SaidOf
  <2>2. \A i \in DOMAIN p.data : SaidOf(q, i) = SaidOf(p, i)
    BY <1>1, <1>9 DEF SaidOf
  <2>3. DOMAIN q.data = DOMAIN p.data \cup {m + 1}
    BY <1>1, <1>9
  <2>4. UNION {SaidOf(q, i) : i \in DOMAIN q.data} = UNION {SaidOf(p, i) : i \in DOMAIN p.data}
    BY <2>1, <2>2, <2>3
  <2>5. p.said = p.isMap \cup UNION {SaidOf(p, i) : i \in DOMAIN p.data}
    BY <1>12 DEF ScopeSaid
  <2>6. q.said = p.said /\ q.isMap = p.isMap
    BY <1>3
  <2> QED BY <2>4, <2>5, <2>6 DEF ScopeSaid
<1>23. ASSUME Calm(R) PROVE ScopeCurrent(defs, q, t.nodes)
  <2>0. ScopeCurrent(old, p, s.nodes)
    <3>1. Calm(Q)
      BY <1>23 DEF Calm
    <3> QED BY <1>12, <3>1
  <2>1. name # Anonymous => \A i \in 1 .. m : p.data[i].name # name
    BY <1>1, <1>23 DEF Range, p
  <2> SUFFICES ASSUME NEW z \in DOMAIN defs
               PROVE  /\ t.nodes[defs[z]].finished => z \in DOMAIN q.names /\ q.names[z] = defs[z]
                      /\ ~t.nodes[defs[z]].finished =>
                           \E i \in DOMAIN q.data : q.data[i].node = defs[z] /\ q.data[i].name = z
                      /\ \A i \in DOMAIN q.data : q.data[i].name = z => q.data[i].node = defs[z]
    BY DEF ScopeCurrent
  <2>2. CASE z = name /\ name # Anonymous
    <3>1. defs[z] = x
      BY <1>14, <2>2
    <3>2. m + 1 \in DOMAIN q.data /\ q.data[m + 1].node = x /\ q.data[m + 1].name = z
      BY <1>1, <1>8, <1>9, <2>2
    <3>3. \A i \in DOMAIN q.data : q.data[i].name = z => i = m + 1
      BY <1>1, <1>9, <2>1, <2>2
    <3> QED BY <1>3, <3>1, <3>2, <3>3
  <2>3. CASE ~(z = name /\ name # Anonymous)
    <3>1. z \in DOMAIN old /\ defs[z] = old[z] /\ z # name
      BY <1>3, <1>14, <2>3
    <3>2. /\ s.nodes[old[z]].finished => z \in DOMAIN p.names /\ p.names[z] = old[z]
          /\ ~s.nodes[old[z]].finished =>
               \E i \in DOMAIN p.data : p.data[i].node = old[z] /\ p.data[i].name = z
          /\ \A i \in DOMAIN p.data : p.data[i].name = z => p.data[i].node = old[z]
      BY <2>0, <3>1 DEF ScopeCurrent
    <3>3. t.nodes[old[z]] = s.nodes[old[z]]
      BY <1>3, <1>12, <3>1 DEF ScopeNames
    <3>4. \A i \in DOMAIN p.data : i \in DOMAIN q.data /\ q.data[i] = p.data[i]
      BY <1>1, <1>9
    <3>5. \A i \in DOMAIN q.data : i \in DOMAIN p.data \/ q.data[i].name # z
      BY <1>1, <1>8, <1>9, <3>1
    <3> QED BY <1>3, <3>1, <3>2, <3>3, <3>4, <3>5
  <2> QED BY <2>2, <2>3
<1>24. GoodScope(t, R, n)
  <2>1. t.ps[n] = q /\ t.scopes[n].defs = defs /\ CountIn(t.rules, n, Openers) = c
    BY <1>3, <1>7, <1>10 DEF c
  <2> QED BY <2>1, <1>18, <1>20, <1>21, <1>22, <1>23 DEF GoodScope
<1>25. \A k \in 1 .. n : GoodScope(t, R, k)
  BY <1>1, <1>17, <1>24
<1>26. Alone(t)
  <2>1. ASSUME NEW k \in 1 .. n, NEW i \in DOMAIN t.ps[k].data
        PROVE  \/ k = n /\ i = m + 1 /\ t.ps[k].data[i].node = x
               \/ /\ i \in DOMAIN s.ps[k].data /\ t.ps[k].data[i] = s.ps[k].data[i]
                  /\ t.ps[k].data[i].node # x
    <3>1. CASE k = n
      <4>1. t.ps[k].data = q.data /\ s.ps[k].data = p.data
        BY <1>1, <1>7, <3>1
      <4>2. i \in 1 .. m + 1
        BY <1>9, <4>1
      <4>3. i \in 1 .. m \/ i = m + 1
        BY <1>1, <4>2
      <4>4. i \in 1 .. m => i \in DOMAIN s.ps[k].data /\ t.ps[k].data[i] = s.ps[k].data[i]
        BY <1>1, <1>9, <4>1
      <4>5. i = m + 1 => t.ps[k].data[i].node = x
        BY <1>8, <1>9, <4>1
      <4> QED BY <1>15, <3>1, <4>3, <4>4, <4>5
    <3>2. CASE k \in 1 .. n - 1
      <4>1. t.ps[k] = s.ps[k]
        BY <1>7, <3>2
      <4> QED BY <1>15, <4>1
    <3> QED BY <1>1, <3>1, <3>2
  <2>2. Alone(s)
    BY DEF Good
  <2> SUFFICES ASSUME NEW k \in 1 .. n, NEW h \in 1 .. n, NEW i \in DOMAIN t.ps[k].data,
                      NEW j \in DOMAIN t.ps[h].data,
                      t.ps[k].data[i].node = t.ps[h].data[j].node, t.ps[k].data[i].node # 0
               PROVE  k = h /\ i = j
    BY <1>7 DEF Alone
  <2>3. CASE t.ps[k].data[i].node = x
    <3>1. k = n /\ i = m + 1
      BY <2>1, <2>3
    <3>2. t.ps[h].data[j].node = x
      BY <2>3
    <3>3. h = n /\ j = m + 1
      BY <2>1, <3>2
    <3> QED BY <3>1, <3>3
  <2>4. CASE t.ps[k].data[i].node # x
    <3>1. /\ i \in DOMAIN s.ps[k].data /\ t.ps[k].data[i] = s.ps[k].data[i]
          /\ j \in DOMAIN s.ps[h].data /\ t.ps[h].data[j] = s.ps[h].data[j]
      BY <2>1, <2>4
    <3> QED BY <1>1, <2>2, <3>1 DEF Alone
  <2> QED BY <2>3, <2>4
<1> QED BY <1>7, <1>16, <1>25, <1>26 DEF Good

-----------------------------------------------------------------------------
(* The other steps. *)

LEMMA GoodGrows ==
  ASSUME NEW s, NEW Q, NEW R, Q \subseteq R
  PROVE  /\ Good(s, Q) => Good(s, R)
         /\ Fine(s, Q) => Fine(s, R)
<1>1. Calm(R) => Calm(Q)
  BY DEF Calm
<1>2. \A k : GoodScope(s, Q, k) => GoodScope(s, R, k)
  BY <1>1 DEF GoodScope
<1>3. Good(s, Q) => Good(s, R)
  BY <1>2 DEF Good
<1> QED BY <1>3 DEF Fine

LEMMA AddTypeIsFine ==
  ASSUME NEW s, NEW Q, Fine(s, Q), NEW type \in Text, NEW I \in SUBSET Interface
  PROVE  Fine(AddType(s, type, I), Q)
<1> DEFINE scope == Inmost(s.scopes)
           g == [scope EXCEPT !.types = With(@, type, I)]
           t == [s EXCEPT !.scopes = SetInmost(@, g)]
           known == type \in UNION {DOMAIN s.scopes[i].types : i \in DOMAIN s.scopes}
<1>0. AddType(s, type, I) = Unless(known, "type", s, t)
  BY DEF AddType
<1>1. CASE s.fault # "parsing"
  BY <1>0, <1>1 DEF Unless
<1>2. CASE s.fault = "parsing" /\ known
  <2>1. s \in StateSet
    BY <1>2 DEF Fine, Good, Shape
  <2>2. AddType(s, type, I) = [s EXCEPT !.fault = "type"]
    BY <1>0, <1>2 DEF Unless
  <2>3. Fine([s EXCEPT !.fault = "type"], Q)
    BY <2>1, FailsFine
  <2> QED BY <2>2, <2>3
<1>3. CASE s.fault = "parsing" /\ ~known
  <2>1. Good(s, Q)
    BY <1>3 DEF Fine
  <2>2. /\ scope \in ScopeSet /\ s.scopes # << >> /\ scope = s.scopes[Len(s.scopes)]
        /\ Len(s.ps) \in Nat \ {0} /\ Len(s.scopes) = Len(s.ps)
    BY <2>1, Shapes DEF Good
  <2>3. s \in StateSet /\ s.scopes \in Seq(ScopeSet) /\ SameRules(s.rules, s.rules)
    BY <2>1, GoodInmost DEF StateSet
  <2>4. With(scope.types, type, I) \in Maps(TypeIds, SUBSET Interface)
    <3>1. scope.types \in Maps(TypeIds, SUBSET Interface) /\ type \in TypeIds
      BY <2>2 DEF ScopeSet, TypeIds
    <3> QED BY <3>1, WithMap
  <2>5. g \in ScopeSet /\ g.defs = scope.defs
    BY <2>2, <2>4 DEF ScopeSet
  <2> HIDE DEF g
  <2>6. /\ SetInmost(s.scopes, g) \in Seq(ScopeSet) /\ Len(SetInmost(s.scopes, g)) = Len(s.scopes)
        /\ SetInmost(s.scopes, g)[Len(s.scopes)] = g
        /\ \A k \in 1 .. Len(s.scopes) - 1 : SetInmost(s.scopes, g)[k] = s.scopes[k]
    BY <2>2, <2>3, <2>5, ReplacedNames
  <2>7. /\ t \in StateSet /\ t.rules = s.rules /\ t.ps = s.ps /\ t.nodes = s.nodes
        /\ t.scopes = SetInmost(s.scopes, g) /\ t.fault = "parsing"
    BY <1>3, <2>3, <2>6 DEF StateSet
  <2>8. AddType(s, type, I) = t
    BY <1>0, <1>3 DEF Unless
  <2> HIDE DEF t
  <2>9. \A k \in 1 .. Len(s.ps) : t.scopes[k].defs = s.scopes[k].defs
    <3> SUFFICES ASSUME NEW k \in 1 .. Len(s.ps) PROVE t.scopes[k].defs = s.scopes[k].defs
      OBVIOUS
    <3>1. k = Len(s.scopes) \/ k \in 1 .. Len(s.scopes) - 1
      BY <2>2
    <3> QED BY <2>2, <2>5, <2>6, <2>7, <3>1
  <2>10. SameNodes(s.nodes, t.nodes)
    BY <2>7, NodesAreSame
  <2>11. Good(t, Q)
    BY <2>1, <2>3, <2>6, <2>7, <2>9, <2>10, QuietOutside
  <2> QED BY <2>7, <2>8, <2>11 DEF Fine
<1> QED BY <1>1, <1>2, <1>3

\* The node_data of a PROTO's interfaces is for no node.
LEMMA InterfacesData ==
  ASSUME NEW s, NEW Q, Good(s, Q), Inmost(s.rules) \in Openers
  PROVE  LET p == Inmost(s.ps)
             d == Inmost(p.data)
         IN /\ Len(p.data) = 1 /\ p.data # << >> /\ DOMAIN p.data = {1} /\ d = p.data[1]
            /\ d \in DataSet /\ d.node = 0 /\ d.name = Anonymous /\ d.isMap = {}
<1> DEFINE p == Inmost(s.ps)
           d == Inmost(p.data)
           n == Len(s.ps)
<1>1. /\ p \in ParseScopeSet /\ n \in 1 .. n /\ p = s.ps[n] /\ Len(p.data) = 1
      /\ CountIn(s.rules, n, Openers) = 1
  BY Shapes DEF Good
<1>2. p.data # << >>
  <2>1. Len(<< >>) = 0
    OBVIOUS
  <2> HIDE DEF p
  <2> QED BY <1>1, <2>1
<1>3. d \in DataSet /\ d = p.data[1] /\ DOMAIN p.data = {1}
  <2>1. d \in DataSet /\ d = p.data[Len(p.data)] /\ DOMAIN p.data = 1 .. Len(p.data)
    BY <1>1, <1>2, InmostData
  <2> QED BY <1>1, <2>1
<1>4. ScopeNodes(p, 1, s.nodes)
  BY <1>1 DEF Good, GoodScope
<1>5. d.node = 0 /\ d.name = Anonymous /\ d.isMap = {}
  BY <1>3, <1>4 DEF ScopeNodes
<1> QED BY <1>1, <1>2, <1>3, <1>5

LEMMA ReplaceInterfaces ==
  ASSUME NEW q \in Seq(RuleNames), Grammar(q), Inmost(q) = "interfaces"
  PROVE  LET r == SetInmost(q, "first")
         IN /\ r \in Seq(RuleNames) /\ Grammar(r) /\ Top(r) = Top(q)
            /\ CountIn(r, Top(q), Holding) = 0 /\ CountIn(r, Top(q), Openers) = 0
            /\ \A k : k # Top(q) => \A S : CountIn(r, k, S) = CountIn(q, k, S)
<1> DEFINE o == Outer(q)
           r == Append(o, "first")
<1>1. /\ o \in Seq(RuleNames) /\ Grammar(o) /\ Inmost(o) \in Callers["interfaces"]
      /\ q = Append(o, "interfaces") /\ "first" \in RuleNames /\ "interfaces" \in RuleNames
  BY GrammarPop DEF RuleNames
<1> HIDE DEF o
<1>2. r \in Seq(RuleNames) /\ Inmost(r) = "first"
  BY <1>1, Pushed
<1>3. Inmost(o) \in Callers["first"]
  BY <1>1 DEF Callers
<1>4. Grammar(r)
  BY <1>1, <1>3, GrammarPush
<1>5. Top(r) = Top(o) + 1 /\ Top(q) = Top(o) + 1
  BY <1>1, TopPush DEF Scoped
<1>6. ASSUME NEW k, k # Top(q), NEW S PROVE CountIn(r, k, S) = CountIn(q, k, S)
  <2>1. CountIn(r, k, S) = CountIn(o, k, S) + 0
    BY <1>1, <1>5, <1>6, CountPush
  <2>2. CountIn(Append(o, "interfaces"), k, S) = CountIn(o, k, S) + 0
    BY <1>1, <1>5, <1>6, CountPush
  <2> QED BY <2>1, <2>2, <1>1
<1> HIDE DEF r
<1>7. CountIn(r, Top(r), Holding) = 0 /\ CountIn(r, Top(r), Openers) = 0
  <2>1. \A S : CountIn(r, Top(r), S) = IF "first" \in S THEN 1 ELSE 0
    BY <1>2, <1>4, CountsInmost DEF Scoped
  <2>2. "first" \notin Holding /\ "first" \notin Openers
    BY DEF Holding, Openers
  <2> QED BY <2>1, <2>2
<1> QED BY <1>2, <1>4, <1>5, <1>6, <1>7 DEF SetInmost, r, o

\* A PROTO's interfaces end.
LEMMA ProtoBodyIsGood ==
  ASSUME NEW s, NEW Q, Good(s, Q), Inmost(s.rules) = "interfaces",
         NEW q \in ParseScopeSet, q.data = << >>, q.names = Inmost(s.ps).names,
         q.said = Inmost(s.ps).said, q.isMap = Inmost(s.ps).isMap, q.bodies = Inmost(s.ps).bodies,
         NEW t \in StateSet, t.rules = SetInmost(s.rules, "first"), t.ps = SetInmost(s.ps, q),
         t.scopes = s.scopes, t.nodes = s.nodes
  PROVE  Good(t, Q)
<1> DEFINE n == Len(s.ps)
           p == Inmost(s.ps)
           defs == s.scopes[n].defs
<1>1. /\ n \in Nat \ {0} /\ DOMAIN s.ps = 1 .. n /\ p = s.ps[n] /\ s.ps # << >>
      /\ n = Top(s.rules) /\ Len(s.scopes) = n /\ n \in 1 .. n
      /\ s.scopes[n] \in ScopeSet
  BY Shapes DEF Good
<1>2. s.ps \in Seq(ParseScopeSet) /\ s.rules \in Seq(RuleNames) /\ Grammar(s.rules)
  BY DEF Good, Shape, StateSet
<1>3. /\ DOMAIN p.data = {1} /\ p.data[1].node = 0 /\ p.data[1].name = Anonymous
      /\ p.data[1].isMap = {}
  BY InterfacesData DEF Openers
<1>4. /\ t.rules \in Seq(RuleNames) /\ Grammar(t.rules) /\ Top(t.rules) = n
      /\ CountIn(t.rules, n, Holding) = 0 /\ CountIn(t.rules, n, Openers) = 0
      /\ \A k : k # n => \A S : CountIn(t.rules, k, S) = CountIn(s.rules, k, S)
  BY <1>1, <1>2, ReplaceInterfaces
<1>5. /\ Len(t.ps) = n /\ DOMAIN t.ps = 1 .. n /\ t.ps[n] = q
      /\ \A k \in 1 .. n - 1 : t.ps[k] = s.ps[k]
  <2>1. /\ Len(SetInmost(s.ps, q)) = Len(s.ps) /\ SetInmost(s.ps, q)[Len(s.ps)] = q
        /\ DOMAIN SetInmost(s.ps, q) = DOMAIN s.ps
        /\ \A k \in 1 .. Len(s.ps) - 1 : SetInmost(s.ps, q)[k] = s.ps[k]
    BY <1>1, <1>2, ReplacedScope
  <2> QED BY <1>1, <2>1
<1>6. Len(q.data) = 0 /\ DOMAIN q.data = {}
  OBVIOUS
<1>7. /\ ScopeNames(defs, p, s.nodes) /\ ScopeBodies(p, s.nodes) /\ ScopeSaid(p)
      /\ Calm(Q) => ScopeCurrent(defs, p, s.nodes)
  BY <1>1 DEF Good, GoodScope
<1>8. Anonymous \notin DOMAIN defs
  <2>1. defs \in Maps(Names, Nat)
    BY <1>1 DEF ScopeSet
  <2> QED BY <2>1, MapIs, ParseAssumption
<1> HIDE DEF n, p, defs
<1>9. Shape(t)
  <2>1. ASSUME NEW k \in 1 .. n PROVE Len(t.ps[k].data) = CountIn(t.rules, k, Holding)
    <3>1. CASE k = n
      BY <1>4, <1>5, <1>6, <3>1
    <3>2. CASE k # n
      <4>1. k \in 1 .. n - 1
        BY <1>1, <3>2
      <4>2. Len(s.ps[k].data) = CountIn(s.rules, k, Holding)
        BY DEF Good, Shape, n
      <4> QED BY <1>4, <1>5, <3>2, <4>1, <4>2
    <3> QED BY <3>1, <3>2
  <2> QED BY <1>1, <1>4, <1>5, <2>1 DEF Shape
<1>10. ASSUME NEW k \in 1 .. n PROVE GoodScope(t, Q, k)
  <2>1. CASE k = n
    <3>1. t.ps[k] = q /\ t.scopes[k].defs = defs /\ t.nodes = s.nodes
      BY <1>5, <2>1 DEF defs
    <3>2. ScopeNodes(q, CountIn(t.rules, k, Openers), s.nodes)
      BY <1>6 DEF ScopeNodes
    <3>3. \A z \in DOMAIN defs : ~InProgress(p, z)
      BY <1>3, <1>8 DEF InProgress
    <3>4. ScopeNames(defs, q, s.nodes)
      BY <1>6, <1>7, <3>3 DEF ScopeNames, p
    <3>5. ScopeBodies(q, s.nodes)
      BY <1>7 DEF ScopeBodies, p
    <3>6. ScopeSaid(q)
      <4>1. SaidOf(p, 1) = {}
        BY <1>3 DEF SaidOf
      <4>2. UNION {SaidOf(p, i) : i \in DOMAIN p.data} = {}
        BY <1>3, <4>1
      <4>3. UNION {SaidOf(q, i) : i \in DOMAIN q.data} = {}
        BY <1>6
      <4>4. p.said = p.isMap \cup UNION {SaidOf(p, i) : i \in DOMAIN p.data}
        BY <1>7 DEF ScopeSaid
      <4>5. q.said = q.isMap
        BY <4>2, <4>4 DEF p
      <4> QED BY <4>3, <4>5 DEF ScopeSaid
    <3>7. ASSUME Calm(Q) PROVE ScopeCurrent(defs, q, s.nodes)
      <4>1. ScopeCurrent(defs, p, s.nodes)
        BY <1>7, <3>7
      <4> SUFFICES ASSUME NEW z \in DOMAIN defs
                   PROVE  /\ s.nodes[defs[z]].finished => z \in DOMAIN q.names /\ q.names[z] = defs[z]
                          /\ ~s.nodes[defs[z]].finished =>
                               \E i \in DOMAIN q.data : q.data[i].node = defs[z] /\ q.data[i].name = z
                          /\ \A i \in DOMAIN q.data : q.data[i].name = z => q.data[i].node = defs[z]
        BY DEF ScopeCurrent
      <4>2. /\ s.nodes[defs[z]].finished => z \in DOMAIN p.names /\ p.names[z] = defs[z]
            /\ ~s.nodes[defs[z]].finished =>
                 \E i \in DOMAIN p.data : p.data[i].node = defs[z] /\ p.data[i].name = z
        BY <4>1 DEF ScopeCurrent
      <4>3. ~\E i \in DOMAIN p.data : p.data[i].name = z
        BY <3>3 DEF InProgress
      <4> QED BY <1>6, <4>2, <4>3 DEF p
    <3> QED BY <3>1, <3>2, <3>4, <3>5, <3>6, <3>7 DEF GoodScope
  <2>2. CASE k # n
    <3>1. GoodScope(s, Q, k)
      BY DEF Good, n
    <3>2. k \in 1 .. n - 1
      BY <1>1, <2>2
    <3>3. /\ t.ps[k] = s.ps[k] /\ t.scopes[k] = s.scopes[k] /\ t.nodes = s.nodes
          /\ CountIn(t.rules, k, Openers) = CountIn(s.rules, k, Openers)
      BY <1>4, <1>5, <2>2, <3>2
    <3> QED BY <3>1, <3>3 DEF GoodScope
  <2> QED BY <2>1, <2>2
<1>11. Alone(t)
  <2>1. \A k \in DOMAIN t.ps : \A i \in DOMAIN t.ps[k].data : k \in DOMAIN s.ps /\ t.ps[k] = s.ps[k]
    <3> SUFFICES ASSUME NEW k \in 1 .. n, NEW i \in DOMAIN t.ps[k].data
                 PROVE  k \in DOMAIN s.ps /\ t.ps[k] = s.ps[k]
      BY <1>5
    <3>1. k # n
      BY <1>5, <1>6
    <3>2. k \in 1 .. n - 1
      BY <1>1, <3>1
    <3> QED BY <1>1, <1>5, <3>2
  <2>2. Alone(s)
    BY DEF Good
  <2> QED BY <2>1, <2>2 DEF Alone
<1> QED BY <1>5, <1>9, <1>10, <1>11 DEF Good

\* A step in the innermost scope that may add the body of a PROTO.
LEMMA BodiesStep ==
  ASSUME NEW s, NEW Q, Good(s, Q), NEW q \in ParseScopeSet,
         SameHolders(Inmost(s.ps), q), ScopeSaid(q), ScopeBodies(q, s.nodes)
  PROVE  Good([s EXCEPT !.ps = SetInmost(@, q)], Q)
<1> DEFINE t == [s EXCEPT !.ps = SetInmost(@, q)]
           n == Len(s.ps)
<1>1. /\ s \in StateSet /\ s.ps # << >> /\ SameRules(s.rules, s.rules)
  BY GoodInmost
<1>2. t \in StateSet
  BY <1>1, InnermostScope
<1>3. t.ps = SetInmost(s.ps, q) /\ t.rules = s.rules /\ t.scopes = s.scopes /\ t.nodes = s.nodes
  BY <1>1 DEF StateSet
<1> HIDE DEF t
<1>4. SameNodes(s.nodes, t.nodes)
  BY <1>3, NodesAreSame
<1>5. /\ n \in Nat \ {0} /\ Inmost(s.ps) = s.ps[n] /\ s.ps \in Seq(ParseScopeSet)
  BY Shapes DEF Good, Shape, StateSet
<1>6. /\ Len(t.ps) = n /\ t.ps[n] = q /\ \A k \in 1 .. n - 1 : t.ps[k] = s.ps[k]
  <2>1. /\ Len(SetInmost(s.ps, q)) = Len(s.ps) /\ SetInmost(s.ps, q)[Len(s.ps)] = q
        /\ \A k \in 1 .. Len(s.ps) - 1 : SetInmost(s.ps, q)[k] = s.ps[k]
    BY <1>1, <1>5, ReplacedScope
  <2> QED BY <1>3, <2>1
<1>7. ASSUME NEW k \in 1 .. n
      PROVE  SameHolders(s.ps[k], t.ps[k]) /\ ScopeSaid(t.ps[k]) /\ ScopeBodies(t.ps[k], t.nodes)
  <2>1. CASE k = n
    BY <1>3, <1>5, <1>6, <2>1
  <2>2. CASE k \in 1 .. n - 1
    <3>1. ScopeSaid(s.ps[k]) /\ ScopeBodies(s.ps[k], s.nodes)
      BY DEF Good, GoodScope
    <3> QED BY <1>3, <1>6, <2>2, <3>1, HoldersAreSame
  <2> QED BY <1>5, <2>1, <2>2
<1>8. Quiet(s, t)
  BY <1>1, <1>2, <1>3, <1>4, <1>6, <1>7 DEF Quiet
<1>9. Good(t, Q)
  BY <1>8, QuietIsGood
<1> QED BY <1>9 DEF t

\* A PROTO is defined.
LEMMA ProtoEndIsFine ==
  ASSUME NEW h, NEW Q, Good(h, Q), h.fault = "parsing", Inmost(h.rules) = "body"
  PROVE  LET p == Inmost(h.ps)
             s == [h EXCEPT !.rules = Outer(@), !.scopes = Outer(@), !.ps = Outer(@)]
             around == Inmost(s.ps)
             defined == [s EXCEPT !.ps = SetInmost(@, [around EXCEPT !.bodies =
                                                         With(@, p.type, p.names)])]
         IN /\ p.isMap = p.said /\ Good(s, Q) /\ Good(defined, Q)
            /\ Fine(AddType(defined, p.type, Inmost(h.scopes).declared), Q)
<1> DEFINE p == Inmost(h.ps)
           n == Len(h.ps)
           s == [h EXCEPT !.rules = Outer(@), !.scopes = Outer(@), !.ps = Outer(@)]
           around == Inmost(s.ps)
           bodies == With(around.bodies, p.type, p.names)
           q == [around EXCEPT !.bodies = bodies]
           defined == [s EXCEPT !.ps = SetInmost(@, q)]
<1>1. /\ h.ps # << >> /\ h.scopes # << >> /\ h.rules # << >> /\ p \in ParseScopeSet /\ p = h.ps[n]
      /\ n \in 1 .. n /\ p.data = << >> /\ Inmost(h.scopes) \in ScopeSet
  BY Shapes DEF Good
<1>2. h \in StateSet
  BY GoodInmost
<1>3. /\ Outer(h.rules) \in Seq(RuleNames) /\ Outer(h.scopes) \in Seq(ScopeSet)
      /\ Outer(h.ps) \in Seq(ParseScopeSet)
  BY <1>1, <1>2, StackOfSeq DEF StateSet
<1>4. /\ s \in StateSet /\ s.rules = Outer(h.rules) /\ s.scopes = Outer(h.scopes)
      /\ s.ps = Outer(h.ps) /\ s.nodes = h.nodes /\ s.fault = "parsing"
  BY <1>2, <1>3 DEF StateSet
<1> HIDE DEF s
<1>5. Good(s, Q)
  BY <1>4, PopScope DEF Scoped
<1>6. around \in ParseScopeSet /\ ScopeSaid(around) /\ s.ps # << >> /\ around = s.ps[Len(s.ps)]
  BY <1>5, GoodInmost
<1>7. ScopeSaid(p) /\ \A z \in DOMAIN p.names : p.names[z] \in DOMAIN h.nodes
  BY <1>1 DEF Good, GoodScope, ScopeNames
<1>8. p.isMap = p.said
  <2>1. UNION {SaidOf(p, i) : i \in DOMAIN p.data} = {}
    BY <1>1
  <2> QED BY <1>7, <2>1 DEF ScopeSaid
<1>9. /\ around.bodies \in Maps(Text, FiniteMaps(Names, Nat))
      /\ p.type \in Text /\ p.names \in FiniteMaps(Names, Nat)
  BY <1>1, <1>6 DEF ParseScopeSet
<1> HIDE DEF p, around
<1>10. /\ bodies \in Maps(Text, FiniteMaps(Names, Nat)) /\ bodies[p.type] = p.names
       /\ DOMAIN bodies = DOMAIN around.bodies \cup {p.type}
       /\ \A z \in DOMAIN around.bodies : z # p.type => bodies[z] = around.bodies[z]
  <2> DEFINE f == around.bodies
             x == p.type
             y == p.names
  <2>1. f \in Maps(Text, FiniteMaps(Names, Nat)) /\ x \in Text /\ y \in FiniteMaps(Names, Nat)
    BY <1>9
  <2> HIDE DEF f, x, y
  <2>2. With(f, x, y) \in Maps(Text, FiniteMaps(Names, Nat))
    BY <2>1, WithMap
  <2>3. /\ DOMAIN With(f, x, y) = DOMAIN f \cup {x} /\ With(f, x, y)[x] = y
        /\ \A z \in DOMAIN f : z # x => With(f, x, y)[z] = f[z]
    BY DEF With
  <2> QED BY <2>2, <2>3 DEF f, x, y
<1> HIDE DEF bodies
<1>11. /\ q \in ParseScopeSet /\ q.data = around.data /\ q.names = around.names
       /\ q.said = around.said /\ q.isMap = around.isMap /\ q.bodies = bodies
  BY <1>6, <1>10 DEF ParseScopeSet
<1> HIDE DEF q
<1>12. SameHolders(around, q)
  BY <1>11 DEF SameHolders
<1>13. ScopeSaid(q)
  <2>1. \A i : SaidOf(q, i) = SaidOf(around, i)
    BY <1>11 DEF SaidOf
  <2> QED BY <1>6, <1>11, <2>1 DEF ScopeSaid
<1>14. ScopeBodies(q, s.nodes)
  <2>1. ScopeBodies(around, s.nodes)
    <3>1. Len(s.ps) \in 1 .. Len(s.ps)
      BY <1>5, GoodInmost
    <3> QED BY <1>5, <1>6, <3>1 DEF Good, GoodScope
  <2> SUFFICES ASSUME NEW type \in DOMAIN q.bodies, NEW z \in DOMAIN q.bodies[type]
               PROVE  q.bodies[type][z] \in DOMAIN s.nodes
    BY DEF ScopeBodies
  <2>2. CASE type = p.type
    <3>1. q.bodies[type] = p.names
      BY <1>10, <1>11, <2>2
    <3> QED BY <1>4, <1>7, <3>1
  <2>3. CASE type # p.type
    <3>1. type \in DOMAIN around.bodies /\ q.bodies[type] = around.bodies[type]
      BY <1>10, <1>11, <2>3
    <3> QED BY <2>1, <3>1 DEF ScopeBodies
  <2> QED BY <2>2, <2>3
<1>15. Good(defined, Q)
  <2>1. SameHolders(Inmost(s.ps), q)
    BY <1>12 DEF around
  <2> QED BY <1>5, <1>11, <1>13, <1>14, <2>1, BodiesStep
<1>16. defined.fault = "parsing"
  BY <1>4 DEF StateSet
<1>17. [around EXCEPT !.bodies = With(@, p.type, p.names)] = q
  BY DEF q, bodies
<1> HIDE DEF defined
<1>18. Fine(defined, Q)
  BY <1>15, <1>16 DEF Fine
<1>19. Inmost(h.scopes).declared \in SUBSET Interface
  BY <1>1 DEF ScopeSet
<1>20. Fine(AddType(defined, p.type, Inmost(h.scopes).declared), Q)
  BY <1>9, <1>18, <1>19, AddTypeIsFine
<1> QED BY <1>5, <1>8, <1>15, <1>17, <1>20 DEF defined, s, p, around

-----------------------------------------------------------------------------
(* Each statement of a file, in a state whose names are as they should be, *)
(* hands on a state that is fine.                                          *)

LEMMA HereIs ==
  /\ Here.rules = rules /\ Here.scopes = scopes /\ Here.ps = ps /\ Here.nodes = nodes
  /\ Here.result = result /\ Here.fault = "parsing"
BY DEF Here

LEMMA HereIsGood ==
  ASSUME NEW Q, Good(Here, Q)
  PROVE  /\ Here \in StateSet /\ rules \in Seq(RuleNames) /\ scopes \in Seq(ScopeSet)
         /\ ps \in Seq(ParseScopeSet) /\ nodes \in Seq(NodeSet) /\ Grammar(rules)
         /\ Rule = Inmost(rules) /\ ps # << >> /\ scopes # << >> /\ rules # << >>
         /\ Inmost(ps) \in ParseScopeSet /\ Inmost(scopes) \in ScopeSet
         /\ Len(ps) \in Nat \ {0} /\ Len(scopes) = Len(ps) /\ Inmost(ps) = ps[Len(ps)]
         /\ Inmost(scopes) = scopes[Len(scopes)] /\ SameRules(rules, rules)
         /\ DOMAIN nodes = 1 .. Len(nodes) /\ Len(nodes) \in Nat
         /\ DOMAIN Inmost(scopes).defs \subseteq Names
         /\ Inmost(scopes).declared \subseteq Interface
         /\ Fine(Here, Q)
<1>1. /\ ps # << >> /\ scopes # << >> /\ rules # << >> /\ Inmost(ps) \in ParseScopeSet
      /\ Inmost(scopes) \in ScopeSet /\ Len(ps) \in Nat \ {0} /\ Len(scopes) = Len(ps)
      /\ Inmost(ps) = ps[Len(ps)] /\ Inmost(scopes) = scopes[Len(scopes)]
  BY HereIs, Shapes DEF Good
<1>2. Here \in StateSet /\ Grammar(rules) /\ SameRules(rules, rules)
  BY HereIs, GoodInmost
<1>3. /\ rules \in Seq(RuleNames) /\ scopes \in Seq(ScopeSet) /\ ps \in Seq(ParseScopeSet)
      /\ nodes \in Seq(NodeSet)
  BY <1>2, HereIs DEF StateSet
<1>4. DOMAIN nodes = 1 .. Len(nodes) /\ Len(nodes) \in Nat
  BY <1>3, LenProperties
<1>5. Inmost(scopes).defs \in Maps(Names, Nat) /\ Inmost(scopes).declared \subseteq Interface
  BY <1>1 DEF ScopeSet
<1>6. DOMAIN Inmost(scopes).defs \subseteq Names
  BY <1>5, MapIs
<1>7. Fine(Here, Q)
  BY HereIs DEF Fine
<1> QED BY <1>1, <1>2, <1>3, <1>4, <1>5, <1>6, <1>7 DEF Rule

LEMMA QuirksGrow ==
  ASSUME NEW C, Oddly(C)
  PROVE  /\ quirks \subseteq quirks'
         /\ \A c \in C : c[2] => c[1] \in quirks'
BY DEF Oddly

LEMMA TypesAreKnown ==
  ASSUME NEW Q, Good(Here, Q), NEW t \in TypesInScope
  PROVE  t \in TypeIds /\ TypeOf(t) \subseteq Interface
<1> DEFINE i == CHOOSE i \in DOMAIN scopes : t \in DOMAIN scopes[i].types
<1>1. i \in DOMAIN scopes /\ t \in DOMAIN scopes[i].types
  BY DEF TypesInScope
<1>2. TypeOf(t) = scopes[i].types[t]
  BY DEF TypeOf
<1> HIDE DEF i
<1>3. scopes[i] \in ScopeSet
  <2>1. scopes \in Seq(ScopeSet)
    BY HereIsGood
  <2> QED BY <1>1, <2>1, LenProperties, ElementOfSeq
<1>4. scopes[i].types \in Maps(TypeIds, SUBSET Interface)
  BY <1>3 DEF ScopeSet
<1> QED BY <1>1, <1>2, <1>4, MapIs

LEMMA NodeStartSteps ==
  ASSUME Good(Here, quirks), NodeStart
  PROVE  \E s : Become(s) /\ Fine(s, quirks')
<1>1. PICK name \in Names \cup {Anonymous}, t \in TypesInScope :
        LET n == Len(nodes) + 1
            scope == Inmost(scopes)
            defs == scope.defs
            p == Inmost(ps)
        IN /\ Become([Here EXCEPT
                !.rules = Append(@, "node"),
                !.scopes = IF name = Anonymous THEN @
                           ELSE SetInmost(@, [scope EXCEPT !.defs = With(@, name, n)]),
                !.ps = SetInmost(@, [p EXCEPT !.data = Append(@, NodeData(n, name))]),
                !.nodes = Append(@, [type |-> t, interfaces |-> TypeOf(t), children |-> {},
                                     finished |-> FALSE, depth |-> Len(ps)])])
           /\ Oddly({<<"renamed", name \in DOMAIN defs /\ nodes[defs[name]].type # t>>,
                     <<"renamed", name \in DOMAIN defs /\ t = Script>>,
                     <<"nested", name # Anonymous /\ \E d \in Range(p.data) : d.name = name>>})
  BY DEF NodeStart
<1> DEFINE n == Len(nodes) + 1
           scope == Inmost(scopes)
           p == Inmost(ps)
           new == [type |-> t, interfaces |-> TypeOf(t), children |-> {}, finished |-> FALSE,
                   depth |-> Len(ps)]
           defs == IF name = Anonymous THEN scope.defs ELSE With(scope.defs, name, n)
           g == [scope EXCEPT !.defs = With(@, name, n)]
           q == [p EXCEPT !.data = Append(@, NodeData(n, name))]
           S == IF name = Anonymous THEN scopes ELSE SetInmost(scopes, g)
           s == [Here EXCEPT !.rules = Append(@, "node"),
                             !.scopes = IF name = Anonymous THEN @ ELSE SetInmost(@, g),
                             !.ps = SetInmost(@, q), !.nodes = Append(@, new)]
<1>2. Become(s)
  BY <1>1
<1>3. /\ quirks \subseteq quirks'
      /\ (name # Anonymous /\ \E d \in Range(p.data) : d.name = name) => "nested" \in quirks'
  <2> DEFINE named == name # Anonymous /\ \E d \in Range(p.data) : d.name = name
             a == name \in DOMAIN scope.defs /\ nodes[scope.defs[name]].type # t
             b == name \in DOMAIN scope.defs /\ t = Script
             C == {<<"renamed", a>>, <<"renamed", b>>, <<"nested", named>>}
  <2>1. Oddly(C)
    BY <1>1
  <2> HIDE DEF a, b, named
  <2>2. <<"nested", named>> \in C /\ <<"nested", named>>[1] = "nested" /\ <<"nested", named>>[2] = named
    OBVIOUS
  <2> HIDE DEF C
  <2>3. quirks \subseteq quirks' /\ (named => "nested" \in quirks')
    BY <2>1, <2>2, QuirksGrow
  <2> QED BY <2>3 DEF named
<1>4. /\ Here \in StateSet /\ rules \in Seq(RuleNames) /\ scopes \in Seq(ScopeSet)
      /\ ps \in Seq(ParseScopeSet) /\ nodes \in Seq(NodeSet) /\ ps # << >> /\ scopes # << >>
      /\ p \in ParseScopeSet /\ scope \in ScopeSet /\ Len(ps) \in Nat /\ Rule = Inmost(rules)
      /\ DOMAIN nodes = 1 .. Len(nodes) /\ Len(nodes) \in Nat /\ n \in Nat
      /\ scope = scopes[Len(scopes)] /\ Len(scopes) \in Nat \ {0}
  BY HereIsGood
<1>5. Rule \in Callers["node"]
  BY DEF NodeStart, Callers, ScopeRules, Listed
<1>6. new \in NodeSet /\ ~new.finished
  BY <1>4, TypesAreKnown DEF NodeSet
<1> HIDE DEF new
<1>7. /\ Append(nodes, new) \in Seq(NodeSet) /\ DOMAIN Append(nodes, new) = 1 .. n
      /\ Append(nodes, new)[n] = new /\ \A k \in DOMAIN nodes : Append(nodes, new)[k] = nodes[k]
  BY <1>4, <1>6, Pushed
<1>8. /\ q \in ParseScopeSet /\ q.data = Append(p.data, NodeData(n, name)) /\ q.names = p.names
      /\ q.said = p.said /\ q.isMap = p.isMap /\ q.bodies = p.bodies
  <2>1. NodeData(n, name) \in DataSet
    BY <1>4, NoDataIs
  <2>2. p.data \in Seq(DataSet)
    BY <1>4 DEF ParseScopeSet
  <2>3. Append(p.data, NodeData(n, name)) \in Seq(DataSet)
    BY <2>1, <2>2, Pushed
  <2> QED BY <1>4, <2>3 DEF ParseScopeSet
<1>9. name # Anonymous => g \in ScopeSet /\ g.defs = With(scope.defs, name, n)
  <2> SUFFICES ASSUME name # Anonymous PROVE g \in ScopeSet /\ g.defs = With(scope.defs, name, n)
    OBVIOUS
  <2>1. scope.defs \in Maps(Names, Nat) /\ name \in Names
    BY <1>4 DEF ScopeSet
  <2>2. With(scope.defs, name, n) \in Maps(Names, Nat)
    <3> DEFINE f == scope.defs
    <3> HIDE DEF f, n
    <3> QED BY <1>4, <2>1, WithMap DEF f
  <2> QED BY <1>4, <2>2 DEF ScopeSet
<1> HIDE DEF g, q
<1>10. /\ S \in Seq(ScopeSet) /\ Len(S) = Len(scopes) /\ S[Len(scopes)].defs = defs
       /\ \A k \in 1 .. Len(scopes) - 1 : S[k] = scopes[k]
  <2>1. CASE name = Anonymous
    BY <1>4, <2>1
  <2>2. CASE name # Anonymous
    <3>1. /\ SetInmost(scopes, g) \in Seq(ScopeSet) /\ Len(SetInmost(scopes, g)) = Len(scopes)
          /\ SetInmost(scopes, g)[Len(scopes)] = g
          /\ \A k \in 1 .. Len(scopes) - 1 : SetInmost(scopes, g)[k] = scopes[k]
      BY <1>4, <1>9, <2>2, ReplacedNames
    <3>2. S = SetInmost(scopes, g) /\ defs = g.defs
      BY <1>9, <2>2
    <3> QED BY <3>1, <3>2
  <2> QED BY <2>1, <2>2
<1>11. SetInmost(ps, q) \in Seq(ParseScopeSet)
  BY <1>4, <1>8, ReplacedScope
<1>12. Append(rules, "node") \in Seq(RuleNames)
  BY <1>4, Pushed DEF RuleNames
<1>13. /\ s \in StateSet /\ s.rules = Append(rules, "node") /\ s.scopes = S
       /\ s.ps = SetInmost(ps, q) /\ s.nodes = Append(nodes, new) /\ s.fault = "parsing"
  <2> HIDE DEF S, n
  <2>1. s = [Here EXCEPT !.rules = Append(rules, "node"), !.scopes = S,
                         !.ps = SetInmost(ps, q), !.nodes = Append(nodes, new)]
    BY HereIs DEF S, n
  <2> HIDE DEF s
  <2> QED BY <1>4, <1>7, <1>10, <1>11, <1>12, <2>1, HereIs DEF StateSet
<1> HIDE DEF s, S, defs
<1>14. Started(Here, s, n, name, defs, q)
  BY <1>6, <1>7, <1>8, <1>10, <1>13, HereIs DEF Started, defs
<1>15. (Calm(quirks') /\ name # Anonymous) => \A e \in Range(p.data) : e.name # name
  BY <1>3 DEF Calm
<1>16. Good(s, quirks')
  BY <1>3, <1>4, <1>5, <1>14, <1>15, HereIs, NodeStartIsGood
<1> QED BY <1>2, <1>13, <1>16 DEF Fine

LEMMA NodeEndSteps ==
  ASSUME Good(Here, quirks), NodeEnd
  PROVE  \E s : Become(s) /\ Fine(s, quirks')
<1> DEFINE p == Inmost(ps)
           type == nodes[Inmost(p.data).node].type
           B == DOMAIN BodyNames(Here, type)
           t == NodeFinish([Here EXCEPT !.rules = Outer(@)])
<1>1. Become(StatementDone(t)) /\ Rule = "node"
  BY DEF NodeEnd
<1>2. Oddly({<<"instance", B \cap DOMAIN p.names # {}>>})
  BY DEF NodeEnd
<1>3. /\ quirks \subseteq quirks'
      /\ B \cap DOMAIN p.names # {} => "instance" \in quirks'
  <2> DEFINE taken == B \cap DOMAIN p.names # {}
             c == <<"instance", taken>>
  <2>1. Oddly({c})
    BY <1>2
  <2> HIDE DEF taken
  <2>2. c[1] = "instance" /\ c[2] = taken
    OBVIOUS
  <2> HIDE DEF c
  <2>3. quirks \subseteq quirks' /\ (taken => "instance" \in quirks')
    BY <2>1, <2>2, QuirksGrow
  <2> QED BY <2>3 DEF taken
<1>4. Calm(quirks') => B \cap DOMAIN p.names = {}
  BY <1>3 DEF Calm
<1>5. Fine(t, quirks')
  <2>1. /\ Inmost(Here.rules) = "node" /\ Here.fault = "parsing" /\ Here.ps = ps
        /\ Here.nodes = nodes
    BY <1>1, HereIs DEF Rule
  <2>2. LET x == Inmost(Here.ps)
        IN Calm(quirks') =>
             DOMAIN BodyNames(Here, Here.nodes[Inmost(x.data).node].type) \cap DOMAIN x.names = {}
    BY <1>4, <2>1
  <2> HIDE DEF t, B, type, p
  <2> QED BY <1>3, <2>1, <2>2, NodeFinishIsFine DEF t
<1> HIDE DEF t
<1>6. Fine(StatementDone(t), quirks')
  BY <1>5, StatementDoneIsFine
<1> QED BY <1>1, <1>6

LEMMA NodeFieldSteps ==
  ASSUME Good(Here, quirks), NodeField
  PROVE  \E s : Become(s) /\ Fine(s, quirks')
<1>1. Rule = "node" /\ Inmost(Here.rules) = "node" /\ Here.nodes = nodes /\ Here.ps = ps /\ Fine(Here, quirks)
  BY HereIs, HereIsGood DEF NodeField, Rule
<1>2. PICK i \in Node.interfaces :
        /\ \/ Become(Value(FieldStart(Here, i), i))
           \/ \E j \in Inmost(scopes).declared : Become(IsMapping(FieldStart(Here, i), i, j))
        /\ Oddly({<<"twice", i.id \in DOMAIN Current.values>>, <<"event", IsEvent(i)>>})
  BY DEF NodeField
<1>3. Node \in NodeSet
  BY <1>1, NodeRead DEF Node, Current
<1>4. i \in Interface
  BY <1>3 DEF NodeSet
<1>5. quirks \subseteq quirks'
  BY <1>2, QuirksGrow
<1> DEFINE t == FieldStart(Here, i)
<1>6. Fine(t, quirks) /\ Follows(Here, t)
  BY <1>1, <1>4, FieldStartIsFine
<1> HIDE DEF t
<1>7. t.fault = "parsing" => Inmost(t.rules) = "node"
  BY <1>1, <1>6 DEF Follows
<1>8. Fine(Value(t, i), quirks)
  BY <1>4, <1>6, <1>7, ValueIsFine
<1>9. \A j \in Inmost(scopes).declared : Fine(IsMapping(t, i, j), quirks)
  <2> SUFFICES ASSUME NEW j \in Inmost(scopes).declared PROVE Fine(IsMapping(t, i, j), quirks)
    OBVIOUS
  <2>1. j \in Interface
    BY HereIsGood
  <2> QED BY <1>4, <1>6, <1>7, <2>1, IsMappingIsFine
<1>10. \A s : Fine(s, quirks) => Fine(s, quirks')
  BY <1>5, GoodGrows
<1>11. Become(Value(t, i)) \/ \E j \in Inmost(scopes).declared : Become(IsMapping(t, i, j))
  BY <1>2 DEF t
<1> QED BY <1>8, <1>9, <1>10, <1>11

\* A Script's node with one more interface.
LEMMA DeclaredIsGood ==
  ASSUME Good(Here, quirks), Rule = "node", NEW i \in Interface
  PROVE  LET s == [Here EXCEPT !.nodes[Current.node].interfaces = @ \cup {i}]
         IN Good(s, quirks) /\ Fine(s, quirks) /\ s.rules = rules
<1> DEFINE n == Current.node
           m == [nodes[n] EXCEPT !.interfaces = @ \cup {i}]
           M == [nodes EXCEPT ![n] = m]
           s == [Here EXCEPT !.nodes[n].interfaces = @ \cup {i}]
<1>1. /\ Here \in StateSet /\ nodes \in Seq(NodeSet) /\ DOMAIN nodes = 1 .. Len(nodes)
      /\ Len(nodes) \in Nat /\ SameRules(rules, rules)
  BY HereIsGood
<1>2. n \in DOMAIN nodes /\ nodes[n] \in NodeSet
  <2>1. Inmost(Here.rules) = "node" /\ Here.nodes = nodes /\ Here.ps = ps
    BY HereIs DEF Rule
  <2> QED BY <2>1, NodeRead DEF Current
<1> HIDE DEF n
<1>3. m \in NodeSet /\ m.finished = nodes[n].finished
  BY <1>2 DEF NodeSet
<1>4. s = [Here EXCEPT !.nodes = M]
  BY HereIs
<1> HIDE DEF m
<1>5. /\ DOMAIN M = DOMAIN nodes /\ M[n] = m /\ \A k \in DOMAIN nodes \ {n} : M[k] = nodes[k]
  BY <1>2
<1> HIDE DEF M
<1>6. M \in Seq(NodeSet)
  <2>1. \A k \in 1 .. Len(nodes) : M[k] \in NodeSet
    BY <1>1, <1>3, <1>5, ElementOfSeq
  <2>2. M = [k \in 1 .. Len(nodes) |-> M[k]]
    BY <1>1, <1>5 DEF M
  <2>3. M \in [1 .. Len(nodes) -> NodeSet]
    BY <2>1, <2>2
  <2> QED BY <1>1, <2>3
<1>7. /\ s \in StateSet /\ s.rules = rules /\ s.scopes = scopes /\ s.ps = ps /\ s.nodes = M
      /\ s.fault = "parsing"
  <2> HIDE DEF s
  <2> QED BY <1>1, <1>4, <1>6, HereIs DEF StateSet
<1>8. SameNodes(nodes, M)
  BY <1>3, <1>5 DEF SameNodes
<1> HIDE DEF s
<1>9. Good(s, quirks)
  BY <1>1, <1>7, <1>8, HereIs, QuietOutside
<1> QED BY <1>7, <1>9 DEF Fine, s, n

LEMMA ScriptInterfaceSteps ==
  ASSUME Good(Here, quirks), ScriptInterface
  PROVE  \E s : Become(s) /\ Fine(s, quirks')
<1>1. PICK i \in Declared :
        LET started == FieldStart([Here EXCEPT !.nodes[Current.node].interfaces = @ \cup {i}], i)
            declared == IF IsEvent(i) /\ HoldsNodes(i) THEN PopChildren(started) ELSE started
        IN \/ /\ Become(IF IsEvent(i) THEN declared ELSE Value(declared, i))
              /\ Oddly({<<"twice", i.id \in DOMAIN Current.values>>})
           \/ \E j \in Inmost(scopes).declared :
                /\ Become(IsMapping(declared, i, j))
                /\ Oddly({<<"twice", i.id \in DOMAIN Current.values>>,
                          <<"script event", IsEvent(i) /\ HoldsNodes(i)>>})
  BY DEF ScriptInterface
<1> DEFINE t == [Here EXCEPT !.nodes[Current.node].interfaces = @ \cup {i}]
           started == FieldStart(t, i)
           popped == PopChildren(started)
           declared == IF IsEvent(i) /\ HoldsNodes(i) THEN popped ELSE started
           value == Value(declared, i)
           own == IF IsEvent(i) THEN declared ELSE value
<1>2. Rule = "node" /\ i \in Interface
  BY ParseAssumption DEF ScriptInterface
<1>3. Good(t, quirks) /\ Fine(t, quirks) /\ t.rules = rules
  BY <1>2, DeclaredIsGood
<1>4. \E C : /\ Oddly(C)
             /\ Become(own) \/ \E j \in Inmost(scopes).declared : Become(IsMapping(declared, i, j))
  BY <1>1
<1> HIDE DEF t
<1>5. Inmost(t.rules) = "node"
  BY <1>2, <1>3 DEF Rule
<1>6. Fine(started, quirks) /\ Follows(t, started)
  BY <1>2, <1>3, <1>5, FieldStartIsFine
<1> HIDE DEF started
<1>7. Fine(popped, quirks) /\ Follows(started, popped)
  BY <1>6, PopChildrenIsFine
<1> HIDE DEF popped
<1>8. Fine(declared, quirks) /\ (declared.fault = "parsing" => Inmost(declared.rules) = "node")
  <2>1. started.fault = "parsing" => Inmost(started.rules) = "node"
    BY <1>5, <1>6 DEF Follows
  <2>2. popped.fault = "parsing" => Inmost(popped.rules) = "node"
    BY <1>7, <2>1 DEF Follows
  <2> QED BY <1>6, <1>7, <2>1, <2>2
<1> HIDE DEF declared
<1>9. Fine(value, quirks)
  BY <1>2, <1>8, ValueIsFine
<1> HIDE DEF value
<1>10. Fine(own, quirks)
  BY <1>8, <1>9
<1> HIDE DEF own
<1>11. \A j \in Inmost(scopes).declared : Fine(IsMapping(declared, i, j), quirks)
  <2> SUFFICES ASSUME NEW j \in Inmost(scopes).declared PROVE Fine(IsMapping(declared, i, j), quirks)
    OBVIOUS
  <2>1. j \in Interface
    BY HereIsGood
  <2> QED BY <1>2, <1>8, <2>1, IsMappingIsFine
<1>12. quirks \subseteq quirks'
  BY <1>4, QuirksGrow
<1>13. \A s : Fine(s, quirks) => Fine(s, quirks')
  BY <1>12, GoodGrows
<1> QED BY <1>4, <1>10, <1>11, <1>13

LEMMA UseSteps ==
  ASSUME Good(Here, quirks), Use
  PROVE  \E s : Become(s) /\ Fine(s, quirks')
<1>1. PICK name \in DOMAIN Inmost(scopes).defs :
        LET p == Inmost(ps)
            enclosing == {i \in DOMAIN p.data : p.data[i].name = name}
            self == Len(p.data) \in enclosing
            found == name \in DOMAIN p.names
        IN /\ \/ Become(Unless(~self /\ ~found, "use", Here,
                               StatementDone(AddChild(Here, IF self THEN SELF ELSE p.names[name]))))
              \/ Become([Here EXCEPT !.fault = "empty"])
           /\ \E C : Oddly(C)
  BY DEF Use
<1> DEFINE p == Inmost(ps)
           self == Len(p.data) \in {i \in DOMAIN p.data : p.data[i].name = name}
           found == name \in DOMAIN p.names
           n == IF self THEN SELF ELSE p.names[name]
           s == StatementDone(AddChild(Here, n))
           t == [Here EXCEPT !.fault = "empty"]
<1>2. Become(Unless(~self /\ ~found, "use", Here, s)) \/ Become(t)
  BY <1>1
<1>3. quirks \subseteq quirks'
  BY <1>1, QuirksGrow
<1>4. Here \in StateSet /\ Fine(Here, quirks) /\ p \in ParseScopeSet /\ Here.fault = "parsing"
  BY HereIs, HereIsGood
<1>0. CASE Become(t)
  <2>1. Fine(t, quirks')
    BY <1>4, FailsFine
  <2> QED BY <1>0, <2>1
<1>5. self \/ found => n \in Nat
  <2>1. SELF \in Nat
    BY DEF SELF
  <2>2. p.names \in Maps(Names, Nat)
    BY <1>4 DEF ParseScopeSet, FiniteMaps
  <2>3. found => p.names[name] \in Nat
    BY <2>2, MapIs
  <2> HIDE DEF self, found
  <2> QED BY <2>1, <2>3
<1> HIDE DEF self, found, n
<1>6. CASE (self \/ found) /\ ~Become(t)
  <2>1. Fine(AddChild(Here, n), quirks)
    BY <1>4, <1>5, <1>6, AddChildIsFine
  <2>2. Fine(s, quirks)
    BY <2>1, StatementDoneIsFine
  <2>3. Fine(s, quirks')
    BY <1>3, <2>2, GoodGrows
  <2>4. Become(s)
    BY <1>2, <1>4, <1>6 DEF Unless
  <2> QED BY <2>3, <2>4
<1>7. CASE ~(self \/ found) /\ ~Become(t)
  <2> DEFINE u == [Here EXCEPT !.fault = "use"]
  <2>1. Become(u)
    BY <1>2, <1>4, <1>7 DEF Unless
  <2>2. Fine(u, quirks')
    BY <1>4, FailsFine
  <2> QED BY <2>1, <2>2
<1> QED BY <1>0, <1>6, <1>7

LEMMA ValueSteps ==
  ASSUME Good(Here, quirks), Null \/ ListStart \/ ListEnd
  PROVE  \E s : Become(s) /\ Fine(s, quirks')
<1>1. /\ Here.rules = rules /\ Here.fault = "parsing" /\ Here \in StateSet
      /\ rules \in Seq(RuleNames) /\ Grammar(rules) /\ Rule = Inmost(rules)
  BY HereIs, HereIsGood
<1>2. quirks' = quirks
  BY DEF Null, ListStart, ListEnd
<1>3. CASE Null \/ ListEnd
  <2>1. Become(ValueDone(Here)) /\ Inmost(Here.rules) \in Listed
    BY <1>1, <1>3 DEF Null, ListEnd, Listed
  <2>2. Fine(ValueDone(Here), quirks)
    BY <1>1, <2>1, ValueDoneIsFine
  <2> QED BY <1>2, <2>1, <2>2
<1>4. CASE ListStart
  <2> DEFINE s == [Here EXCEPT !.rules = SetInmost(@, "list")]
  <2>1. Become(s) /\ Inmost(rules) = "mfnode"
    BY <1>1, <1>4 DEF ListStart
  <2>2. SameRules(rules, SetInmost(rules, "list"))
    BY <1>1, <2>1, ReplaceList
  <2>3. Good([Here EXCEPT !.rules = SetInmost(rules, "list")], quirks)
    BY <1>1, <2>2, RulesStep
  <2>4. s = [Here EXCEPT !.rules = SetInmost(rules, "list")]
    BY <1>1
  <2>5. s.fault = "parsing"
    BY <1>1 DEF StateSet
  <2> HIDE DEF s
  <2>6. Fine(s, quirks)
    BY <2>3, <2>4, <2>5 DEF Fine
  <2> QED BY <1>2, <2>1, <2>6
<1> QED BY <1>3, <1>4

LEMMA RouteSteps ==
  ASSUME Good(Here, quirks), RouteStatement
  PROVE  \E s : Become(s) /\ Fine(s, quirks')
<1> DEFINE p == Inmost(ps)
           defs == Inmost(scopes).defs
<1>1. PICK from \in DOMAIN defs, to \in DOMAIN defs :
        \E i \in nodes[defs[from]].interfaces, j \in nodes[defs[to]].interfaces :
          LET r == [from |-> from, out |-> i.id, to |-> to, in |-> j.id]
          IN Become([Here EXCEPT !.ps = SetInmost(@, [p EXCEPT !.routes = Append(@, r)])])
  BY DEF RouteStatement
<1>2. PICK i \in nodes[defs[from]].interfaces, j \in nodes[defs[to]].interfaces :
        LET r == [from |-> from, out |-> i.id, to |-> to, in |-> j.id]
        IN Become([Here EXCEPT !.ps = SetInmost(@, [p EXCEPT !.routes = Append(@, r)])])
  BY <1>1
<1> DEFINE r == [from |-> from, out |-> i.id, to |-> to, in |-> j.id]
           q == [p EXCEPT !.routes = Append(@, r)]
           s == [Here EXCEPT !.ps = SetInmost(@, q)]
<1>3. Become(s)
  BY <1>2
<1>4. /\ Here \in StateSet /\ p \in ParseScopeSet /\ nodes \in Seq(NodeSet)
      /\ DOMAIN nodes = 1 .. Len(nodes) /\ DOMAIN defs \subseteq Names
  BY HereIsGood
<1>5. Here.ps = ps /\ Here.fault = "parsing" /\ ScopeSaid(p)
  BY HereIs, GoodInmost
<1>6. \A name \in DOMAIN defs : defs[name] \in DOMAIN nodes
  <2>1. Len(Here.ps) \in 1 .. Len(Here.ps)
    BY GoodInmost
  <2>2. ScopeNames(Here.scopes[Len(Here.ps)].defs, Here.ps[Len(Here.ps)], Here.nodes)
    BY <2>1 DEF Good, GoodScope
  <2>3. Here.scopes[Len(Here.ps)].defs = defs /\ Here.nodes = nodes
    BY HereIs, HereIsGood
  <2> QED BY <2>2, <2>3 DEF ScopeNames
<1>7. nodes[defs[from]] \in NodeSet /\ nodes[defs[to]] \in NodeSet
  <2>1. defs[from] \in 1 .. Len(nodes) /\ defs[to] \in 1 .. Len(nodes)
    BY <1>4, <1>6
  <2> QED BY <1>4, <2>1, ElementOfSeq
<1>8. i \in Interface /\ j \in Interface
  BY <1>7 DEF NodeSet
<1>9. r \in RouteSet
  BY <1>4, <1>8 DEF RouteSet, Interface
<1> HIDE DEF r
<1>10. Append(p.routes, r) \in Seq(RouteSet)
  <2>1. p.routes \in Seq(RouteSet)
    BY <1>4 DEF ParseScopeSet
  <2> QED BY <1>9, <2>1, Pushed
<1>11. /\ q \in ParseScopeSet /\ q.data = p.data /\ q.names = p.names /\ q.said = p.said
       /\ q.isMap = p.isMap /\ q.bodies = p.bodies
  BY <1>4, <1>10 DEF ParseScopeSet
<1> HIDE DEF q
<1>12. SameSaid(p, q)
  BY <1>11, SameDatas
<1>13. SameHolders(p, q) /\ ScopeSaid(q)
  BY <1>5, <1>12, SaidStays DEF SameSaid
<1>14. Good(s, quirks)
  <2>1. SameHolders(Inmost(Here.ps), q) /\ q.bodies = Inmost(Here.ps).bodies
    BY <1>5, <1>11, <1>13
  <2> QED BY <1>11, <1>13, <2>1, InmostStep
<1>15. s.fault = "parsing"
  BY <1>4, <1>5 DEF StateSet
<1>16. quirks' = quirks
  BY DEF RouteStatement
<1> HIDE DEF s
<1>17. Fine(s, quirks)
  BY <1>14, <1>15 DEF Fine
<1> QED BY <1>3, <1>16, <1>17

LEMMA ProtoStartSteps ==
  ASSUME Good(Here, quirks), ProtoStart
  PROVE  \E s : Become(s) /\ Fine(s, quirks')
<1>1. PICK type \in TypeNames :
        Become([Here EXCEPT !.rules = Append(@, "interfaces"),
                            !.scopes = Append(@, [NoScope EXCEPT !.proto = TRUE]),
                            !.ps = Append(@, [NoParseScope EXCEPT !.type = type,
                                                !.data = << NodeData(0, Anonymous) >>])])
  BY DEF ProtoStart
<1> DEFINE e == NodeData(0, Anonymous)
           g == [NoScope EXCEPT !.proto = TRUE]
           q == [NoParseScope EXCEPT !.type = type, !.data = << e >>]
           s == [Here EXCEPT !.rules = Append(@, "interfaces"), !.scopes = Append(@, g),
                             !.ps = Append(@, q)]
<1>2. Become(s)
  BY <1>1
<1>3. /\ Here \in StateSet /\ rules \in Seq(RuleNames) /\ scopes \in Seq(ScopeSet)
      /\ ps \in Seq(ParseScopeSet) /\ Rule = Inmost(rules)
  BY HereIsGood
<1>4. e \in DataSet /\ e.node = 0 /\ e.name = Anonymous /\ e.isMap = {}
  BY NoDataIs
<1> HIDE DEF e
<1>5. << e >> \in Seq(DataSet)
  BY <1>4
<1>6. /\ q \in ParseScopeSet /\ q.data = << e >> /\ q.names = << >> /\ q.said = {}
      /\ q.isMap = {} /\ q.bodies = << >>
  <2>1. type \in Text
    BY ParseAssumption DEF Text
  <2> DEFINE data == << e >>
  <2> HIDE DEF data
  <2>2. data \in Seq(DataSet)
    BY <1>5 DEF data
  <2>3. LET x == [NoParseScope EXCEPT !.type = type, !.data = data]
        IN /\ x \in ParseScopeSet /\ x.data = data /\ x.names = << >> /\ x.said = {}
           /\ x.isMap = {} /\ x.bodies = << >>
    BY <2>1, <2>2, OpenedScopes
  <2> QED BY <2>3 DEF data
<1>7. g \in ScopeSet /\ g.defs = << >>
  BY NoScopeIs
<1> HIDE DEF g, q
<1>8. /\ Append(rules, "interfaces") \in Seq(RuleNames) /\ Append(scopes, g) \in Seq(ScopeSet)
      /\ Append(ps, q) \in Seq(ParseScopeSet)
  BY <1>3, <1>6, <1>7, Pushed DEF RuleNames
<1>9. /\ s \in StateSet /\ s.rules = Append(rules, "interfaces") /\ s.scopes = Append(scopes, g)
      /\ s.ps = Append(ps, q) /\ s.nodes = nodes /\ s.fault = "parsing"
  BY <1>3, <1>8, HereIs DEF StateSet
<1> HIDE DEF s
<1>10. "interfaces" \in Openers /\ Inmost(Here.rules) \in Callers["interfaces"]
  BY <1>3, HereIs DEF ProtoStart, Openers, Callers, ScopeRules
<1>11. Good(s, quirks)
  BY <1>4, <1>6, <1>7, <1>9, <1>10, HereIs, PushScope
<1>12. quirks' = quirks
  BY DEF ProtoStart
<1> QED BY <1>2, <1>9, <1>11, <1>12 DEF Fine

LEMMA ProtoBodySteps ==
  ASSUME Good(Here, quirks), ProtoBody
  PROVE  \E s : Become(s) /\ Fine(s, quirks')
<1> DEFINE p == Inmost(ps)
           q == [p EXCEPT !.data = Outer(@), !.children = << << >> >>]
           s == [Here EXCEPT !.rules = SetInmost(@, "first"), !.ps = SetInmost(@, q)]
<1>1. Become(s) /\ Rule = "interfaces" /\ quirks' = quirks
  BY DEF ProtoBody
<1>2. /\ Here \in StateSet /\ rules \in Seq(RuleNames) /\ p \in ParseScopeSet /\ Grammar(rules)
      /\ ps \in Seq(ParseScopeSet) /\ ps # << >> /\ Rule = Inmost(rules) /\ Here.ps = ps
      /\ Here.rules = rules
  BY HereIs, HereIsGood
<1>3. Len(p.data) = 1 /\ p.data # << >>
  <2>1. Inmost(Here.rules) \in Openers
    BY <1>1, <1>2 DEF Openers
  <2> QED BY <1>2, <2>1, InterfacesData
<1>4. Outer(p.data) = << >>
  <2>1. p.data \in Seq(DataSet)
    BY <1>2 DEF ParseScopeSet
  <2>2. Outer(p.data) \in Seq(DataSet) /\ Len(Outer(p.data)) = 0
    BY <1>3, <2>1, StackOfSeq
  <2> QED BY <2>2, EmptySeq
<1>5. << << >> >> \in Seq(Seq(Nat)) /\ << >> \in Seq(DataSet)
  <2>1. << >> \in Seq(Nat) /\ << >> \in Seq(DataSet)
    BY EmptySeq
  <2> QED BY <2>1
<1>6. /\ q \in ParseScopeSet /\ q.data = << >> /\ q.names = p.names /\ q.said = p.said
      /\ q.isMap = p.isMap /\ q.bodies = p.bodies
  BY <1>2, <1>4, <1>5 DEF ParseScopeSet
<1> HIDE DEF q
<1>7. SetInmost(rules, "first") \in Seq(RuleNames) /\ SetInmost(ps, q) \in Seq(ParseScopeSet)
  BY <1>1, <1>2, <1>6, ReplaceInterfaces, ReplacedScope
<1>8. /\ s \in StateSet /\ s.rules = SetInmost(rules, "first") /\ s.ps = SetInmost(ps, q)
      /\ s.scopes = scopes /\ s.nodes = nodes /\ s.fault = "parsing"
  BY <1>2, <1>7, HereIs DEF StateSet
<1> HIDE DEF s
<1>9. Good(s, quirks)
  BY <1>1, <1>2, <1>6, <1>8, HereIs, ProtoBodyIsGood
<1> QED BY <1>1, <1>8, <1>9 DEF Fine

LEMMA ExternprotoSteps ==
  ASSUME Good(Here, quirks), Externproto
  PROVE  \E s : Become(s) /\ Fine(s, quirks')
<1>1. PICK type \in TypeNames : /\ Become(AddType(Here, type, {}))
                                /\ Oddly({<<"typed", type \in TypesInScope>>})
  BY DEF Externproto
<1>2. Fine(Here, quirks) /\ type \in Text /\ {} \in SUBSET Interface
  BY HereIsGood, ParseAssumption DEF Text
<1>3. Fine(AddType(Here, type, {}), quirks)
  BY <1>2, AddTypeIsFine
<1>4. quirks \subseteq quirks'
  BY <1>1, QuirksGrow
<1> QED BY <1>1, <1>3, <1>4, GoodGrows

\* A default value of nodes: a scope for it, and the rule of the value.
LEMMA DefaultValueIsFine ==
  ASSUME NEW s, NEW Q, Good(s, Q), Inmost(s.rules) = "interfaces", s.fault = "parsing",
         NEW value \in Listed
  PROVE  Fine([DefaultStart(s) EXCEPT !.rules = @ \o <<"default", value>>], Q)
<1> DEFINE e == Inmost(Inmost(s.ps).data)
           data == << e >>
           lists == << << >> >>
           q == [NoParseScope EXCEPT !.data = data, !.children = lists]
           u == DefaultStart(s)
           t == [u EXCEPT !.rules = Append(@, "default")]
           r == Append(Append(s.rules, "default"), value)
           v == [u EXCEPT !.rules = @ \o <<"default", value>>]
<1>1. /\ s \in StateSet /\ s.rules \in Seq(RuleNames) /\ s.ps \in Seq(ParseScopeSet)
      /\ s.scopes \in Seq(ScopeSet) /\ Grammar(s.rules)
  BY GoodInmost DEF StateSet
<1>2. e \in DataSet /\ e.node = 0 /\ e.name = Anonymous /\ e.isMap = {}
  BY InterfacesData DEF Openers
<1> HIDE DEF e
<1>3. data \in Seq(DataSet) /\ lists \in Seq(Seq(Nat))
  <2>1. << >> \in Seq(Nat)
    BY EmptySeq
  <2> QED BY <1>2, <2>1
<1>4. u = [s EXCEPT !.ps = Append(@, q), !.scopes = Append(@, NoScope)]
  BY DEF DefaultStart, e
<1>5. data = << e >>
  OBVIOUS
<1> HIDE DEF data, lists
<1>6. /\ q \in ParseScopeSet /\ q.data = data /\ q.names = << >> /\ q.said = {}
      /\ q.isMap = {} /\ q.bodies = << >>
  BY <1>3, OpenedScopes
<1> HIDE DEF q
<1>7. /\ Append(s.rules, "default") \in Seq(RuleNames) /\ Append(s.scopes, NoScope) \in Seq(ScopeSet)
      /\ Append(s.ps, q) \in Seq(ParseScopeSet)
  BY <1>1, <1>6, NoScopeIs, Pushed DEF RuleNames
<1>8. /\ u \in StateSet /\ u.rules = s.rules /\ u.scopes = Append(s.scopes, NoScope)
      /\ u.ps = Append(s.ps, q) /\ u.nodes = s.nodes /\ u.fault = "parsing"
  BY <1>1, <1>4, <1>7 DEF StateSet
<1> HIDE DEF u
<1>9. /\ t \in StateSet /\ t.rules = Append(s.rules, "default") /\ t.scopes = Append(s.scopes, NoScope)
      /\ t.ps = Append(s.ps, q) /\ t.nodes = s.nodes /\ t.fault = "parsing"
  BY <1>7, <1>8 DEF StateSet
<1>10. s.rules \o <<"default", value>> = r
  <2>1. value \in RuleNames /\ "default" \in RuleNames
    BY DEF Listed, RuleNames
  <2> QED BY <1>1, <2>1
<1>11. v = [t EXCEPT !.rules = r]
  <2>1. v = [u EXCEPT !.rules = r]
    BY <1>8, <1>10
  <2> QED BY <1>8, <2>1 DEF StateSet
<1>12. Good(t, Q)
  <2> HIDE DEF t
  <2>1. "default" \in Openers /\ Inmost(s.rules) \in Callers["default"]
    BY DEF Openers, Callers
  <2>2. /\ NoScope \in ScopeSet /\ NoScope.defs = << >>
    BY NoScopeIs
  <2> QED BY <1>2, <1>5, <1>6, <1>9, <2>1, <2>2, PushScope
<1>13. SameRules(t.rules, r)
  <2> DEFINE x == "default"
  <2>4. x \in RuleNames /\ t.rules = Append(s.rules, x)
    BY <1>9 DEF RuleNames
  <2>5. x = "default"
    OBVIOUS
  <2> HIDE DEF t, x
  <2>6. Inmost(Append(s.rules, x)) = x
    BY <1>1, <2>4, Pushed
  <2>1. Inmost(t.rules) = "default"
    BY <2>4, <2>5, <2>6
  <2>2. t.rules \in Seq(RuleNames) /\ Grammar(t.rules)
    BY <1>12, GoodInmost
  <2>3. SameRules(t.rules, Append(t.rules, value))
    BY <2>1, <2>2, PushListed
  <2> QED BY <1>9, <2>3
<1> HIDE DEF t, r
<1>14. Good([t EXCEPT !.rules = r], Q)
  BY <1>12, <1>13, RulesStep
<1>15. [t EXCEPT !.rules = r].fault = "parsing"
  BY <1>9 DEF StateSet
<1>16. Good(v, Q) /\ v.fault = "parsing"
  BY <1>11, <1>14, <1>15
<1> HIDE DEF v
<1>17. Fine(v, Q)
  BY <1>16 DEF Fine
<1> QED BY <1>17 DEF v, u

LEMMA ProtoInterfaceSteps ==
  ASSUME Good(Here, quirks), ProtoInterface
  PROVE  \E s : Become(s) /\ Fine(s, quirks')
<1> DEFINE scope == Inmost(scopes)
           p == Inmost(ps)
           d == Inmost(p.data)
           e(i) == [d EXCEPT !.values = With(@, i.id, << >>), !.current = i]
           g(i) == [scope EXCEPT !.declared = @ \cup {i}]
           s(i) == [Here EXCEPT !.scopes = SetInmost(@, g(i)),
                                !.ps = IF IsEvent(i) THEN @
                                       ELSE SetInmost(@, [p EXCEPT !.data = SetInmost(@, e(i))])]
<1>1. /\ Rule = "interfaces" /\ quirks' = quirks
      /\ \E i \in Declared :
           Become(IF IsEvent(i) \/ ~HoldsNodes(i) THEN s(i)
                  ELSE [DefaultStart(s(i)) EXCEPT !.rules = @ \o <<"default", i.value>>])
  BY DEF ProtoInterface
<1>2. PICK i \in Declared :
           Become(IF IsEvent(i) \/ ~HoldsNodes(i) THEN s(i)
                  ELSE [DefaultStart(s(i)) EXCEPT !.rules = @ \o <<"default", i.value>>])
  BY <1>1
<1>3. /\ i \in Interface /\ i.id \in Text
  BY ParseAssumption DEF Interface, Text
<1>4. /\ Here \in StateSet /\ rules \in Seq(RuleNames) /\ p \in ParseScopeSet /\ Grammar(rules)
      /\ ps \in Seq(ParseScopeSet) /\ ps # << >> /\ Rule = Inmost(rules)
      /\ scopes \in Seq(ScopeSet) /\ scopes # << >> /\ scope \in ScopeSet /\ Len(scopes) = Len(ps)
      /\ Len(ps) \in Nat \ {0} /\ scope = scopes[Len(scopes)] /\ SameRules(rules, rules)
      /\ scope.declared \subseteq Interface
  BY HereIsGood
<1>5. /\ Len(p.data) = 1 /\ p.data # << >> /\ d \in DataSet /\ d.node = 0 /\ d.name = Anonymous
      /\ d.isMap = {} /\ ScopeSaid(p) /\ p.data \in Seq(DataSet)
  <2>1. Inmost(Here.rules) \in Openers
    BY <1>1, <1>4, HereIs DEF Openers
  <2>2. Here.ps = ps
    BY HereIs
  <2>3. ScopeSaid(p)
    BY <2>2, GoodInmost
  <2>4. p.data \in Seq(DataSet)
    BY <1>4 DEF ParseScopeSet
  <2> QED BY <2>1, <2>2, <2>3, <2>4, InterfacesData
<1> DEFINE x == e(i)
           q == [p EXCEPT !.data = SetInmost(@, x)]
           t == s(i)
<1>6. x \in DataSet /\ x.node = 0 /\ x.name = Anonymous /\ x.isMap = {}
  <2>1. << >> \in Seq(Nat)
    BY EmptySeq
  <2>2. d.values \in Maps(Text, Seq(Nat))
    BY <1>5 DEF DataSet
  <2>3. With(d.values, i.id, << >>) \in Maps(Text, Seq(Nat))
    BY <1>3, <2>1, <2>2, WithMap
  <2> QED BY <1>3, <1>5, <2>3 DEF DataSet
<1>7. t = [Here EXCEPT !.scopes = SetInmost(@, g(i)), !.ps = IF IsEvent(i) THEN @ ELSE SetInmost(@, q)]
  OBVIOUS
<1> HIDE DEF x
<1>8. SetInmost(p.data, x) \in Seq(DataSet)
  BY <1>5, <1>6, ReplacedData
<1>9. /\ q \in ParseScopeSet /\ q.data = SetInmost(p.data, x) /\ q.names = p.names
      /\ q.said = p.said /\ q.isMap = p.isMap /\ q.bodies = p.bodies
  BY <1>4, <1>8 DEF ParseScopeSet
<1> HIDE DEF q
<1>10. SameHolders(p, q) /\ ScopeSaid(q)
  <2>1. SameSaid(p, q)
    BY <1>4, <1>5, <1>6, <1>9, SameData
  <2> QED BY <1>5, <2>1, SaidStays DEF SameSaid
<1> DEFINE y == g(i)
           sc == SetInmost(scopes, y)
           h == [Here EXCEPT !.scopes = sc]
<1>11. y \in ScopeSet /\ y.defs = scope.defs
  BY <1>3, <1>4 DEF ScopeSet
<1>12. t = [Here EXCEPT !.scopes = sc, !.ps = IF IsEvent(i) THEN @ ELSE SetInmost(@, q)]
  BY <1>7, HereIs DEF Here
<1> HIDE DEF y, t
<1>13. /\ sc \in Seq(ScopeSet) /\ Len(sc) = Len(scopes)
       /\ \A k \in 1 .. Len(ps) : sc[k].defs = scopes[k].defs
  <2>1. /\ SetInmost(scopes, y) \in Seq(ScopeSet) /\ Len(SetInmost(scopes, y)) = Len(scopes)
        /\ SetInmost(scopes, y)[Len(scopes)] = y
        /\ \A k \in 1 .. Len(scopes) - 1 : SetInmost(scopes, y)[k] = scopes[k]
    BY <1>4, <1>11, ReplacedNames
  <2>2. ASSUME NEW k \in 1 .. Len(ps) PROVE sc[k].defs = scopes[k].defs
    <3>1. CASE k = Len(ps)
      BY <1>4, <1>11, <2>1, <3>1
    <3>2. CASE k # Len(ps)
      <4>1. k \in 1 .. Len(scopes) - 1
        BY <1>4, <3>2
      <4> QED BY <2>1, <4>1
    <3> QED BY <3>1, <3>2
  <2> QED BY <2>1, <2>2
<1> HIDE DEF sc
<1>14. /\ h \in StateSet /\ h.ps = ps /\ h.rules = rules /\ h.nodes = nodes /\ h.scopes = sc
       /\ h.fault = "parsing"
  BY <1>4, <1>13, HereIs DEF StateSet
<1>15. /\ IsEvent(i) => t = h
       /\ ~IsEvent(i) => t = [h EXCEPT !.ps = SetInmost(@, q)]
  BY <1>4, <1>12, HereIs DEF StateSet
<1> HIDE DEF h
<1>16. Good(h, quirks)
  <2>1. SameNodes(Here.nodes, h.nodes)
    BY <1>14, HereIs, NodesAreSame
  <2> QED BY <1>4, <1>13, <1>14, <2>1, HereIs, QuietOutside
<1>17. Good(t, quirks)
  <2>1. Inmost(h.ps) = p
    BY <1>14
  <2>2. CASE IsEvent(i)
    BY <1>15, <1>16, <2>2
  <2>3. CASE ~IsEvent(i)
    <3>1. Good([h EXCEPT !.ps = SetInmost(@, q)], quirks)
      BY <1>9, <1>10, <1>16, <2>1, InmostStep
    <3> QED BY <1>15, <2>3, <3>1
  <2> QED BY <2>2, <2>3
<1>18. t.fault = "parsing" /\ t.rules = rules /\ t \in StateSet
  <2>1. t \in StateSet
    BY <1>17 DEF Good, Shape
  <2>2. CASE IsEvent(i)
    BY <1>14, <1>15, <2>1, <2>2
  <2>3. CASE ~IsEvent(i)
    <3>1. [h EXCEPT !.ps = SetInmost(@, q)].fault = "parsing" /\ [h EXCEPT !.ps = SetInmost(@, q)].rules = rules
      BY <1>14 DEF StateSet
    <3> QED BY <1>15, <2>1, <2>3, <3>1
  <2> QED BY <2>2, <2>3
<1>19. Become(IF IsEvent(i) \/ ~HoldsNodes(i) THEN t
              ELSE [DefaultStart(t) EXCEPT !.rules = @ \o <<"default", i.value>>])
  BY <1>2 DEF t
<1>20. CASE IsEvent(i) \/ ~HoldsNodes(i)
  <2>1. Become(t)
    BY <1>19, <1>20
  <2>2. Fine(t, quirks)
    BY <1>17, <1>18 DEF Fine
  <2> QED BY <1>1, <2>1, <2>2
<1>21. CASE ~(IsEvent(i) \/ ~HoldsNodes(i))
  <2> DEFINE v == [DefaultStart(t) EXCEPT !.rules = @ \o <<"default", i.value>>]
  <2>1. Become(v)
    BY <1>19, <1>21
  <2>2. i.value \in Listed
    BY <1>3, <1>21 DEF HoldsNodes, Listed, Interface
  <2>3. Fine(v, quirks)
    BY <1>1, <1>4, <1>17, <1>18, <2>2, DefaultValueIsFine
  <2> QED BY <1>1, <2>1, <2>3
<1> QED BY <1>20, <1>21

LEMMA ProtoEndSteps ==
  ASSUME Good(Here, quirks), ProtoEnd
  PROVE  /\ \E s : Become(s) /\ Fine(s, quirks')
         /\ \E p \in protos' : /\ p.isMap = p.said
                               /\ protos' = protos \cup {p}
<1> DEFINE p == Inmost(ps)
           s == [Here EXCEPT !.rules = Outer(@), !.scopes = Outer(@), !.ps = Outer(@)]
           around == Inmost(s.ps)
           defined == [s EXCEPT !.ps = SetInmost(@, [around EXCEPT !.bodies =
                                                       With(@, p.type, p.names)])]
           lost == \E r \in Range(p.routes) : ~({r.from, r.to} \subseteq DOMAIN p.names)
           whole == AddType(defined, p.type, Inmost(scopes).declared)
           t == IF Len(p.children) # 1 THEN [Here EXCEPT !.fault = "scene"]
                ELSE IF lost THEN [Here EXCEPT !.fault = "routes"] ELSE whole
           proto == [isMap |-> p.isMap, said |-> p.said]
<1>1. /\ Rule = "body" /\ Become(t) /\ protos' = protos \cup {proto}
      /\ Oddly({<<"typed", p.type \in TypesInScope>>})
  BY DEF ProtoEnd
<1>2. /\ Here \in StateSet /\ Here.fault = "parsing" /\ Inmost(Here.rules) = "body"
      /\ Here.ps = ps /\ Here.scopes = scopes
  BY <1>1, HereIs, HereIsGood
<1>3. p.isMap = p.said /\ Fine(whole, quirks)
  BY <1>2, ProtoEndIsFine
<1>4. Fine([Here EXCEPT !.fault = "scene"], quirks) /\ Fine([Here EXCEPT !.fault = "routes"], quirks)
  BY <1>2, FailsFine
<1> HIDE DEF whole, lost
<1>5. Fine(t, quirks)
  BY <1>3, <1>4
<1> HIDE DEF t
<1>6. quirks \subseteq quirks'
  BY <1>1, QuirksGrow
<1>7. Fine(t, quirks')
  BY <1>5, <1>6, GoodGrows
<1>8. proto.isMap = proto.said /\ proto \in protos'
  BY <1>1, <1>3
<1> QED BY <1>1, <1>7, <1>8

-----------------------------------------------------------------------------
(* The end of the parse.                                                   *)

\* The scene is done, or not made.
LEMMA SceneFinishIs ==
  ASSUME NEW s, DOMAIN s = Fields
  PROVE  LET p == Inmost(s.ps)
             done == [s EXCEPT !.result = Inmost(p.children),
                               !.ps = SetInmost(@, [p EXCEPT !.children = Outer(@)])]
         IN /\ DOMAIN SceneFinish(s) = Fields /\ SceneFinish(s).fault # "parsing"
            /\ (s.fault = "parsing" /\ SceneFinish(s).fault = "exception") =>
                 Len(p.children) = 1 /\ SceneFinish(s) = [done EXCEPT !.fault = "exception"]
<1> DEFINE p == Inmost(s.ps)
           done == [s EXCEPT !.result = Inmost(p.children),
                             !.ps = SetInmost(@, [p EXCEPT !.children = Outer(@)])]
           end == [done EXCEPT !.ps = << >>, !.fault = "done"]
           over == RoutesMade(done, end)
           whole == Unless(Len(s.ps) # 1, "scene", done, over)
<1>1. SceneFinish(s) = Unless(Len(p.children) # 1, "scene", s, whole)
  BY DEF SceneFinish
<1>2. DOMAIN done = Fields /\ done.fault = s.fault
  BY DEF Fields
<1>3. DOMAIN end = Fields /\ end.fault = "done"
  BY <1>2 DEF Fields
<1> DEFINE lost == [done EXCEPT !.fault = "routes"]
           bad == [done EXCEPT !.fault = "exception"]
           left == [done EXCEPT !.fault = "scene"]
           out == [s EXCEPT !.fault = "scene"]
<1>4. /\ DOMAIN lost = Fields /\ lost.fault = "routes" /\ DOMAIN bad = Fields
      /\ bad.fault = "exception" /\ DOMAIN left = Fields /\ left.fault = "scene"
      /\ DOMAIN out = Fields /\ out.fault = "scene"
  BY <1>2, FaultSet
<1> HIDE DEF done, end
<1>5. s.fault = "parsing" => over \in {end, lost, bad}
  BY <1>2, RoutesMadeIs
<1>6. /\ done.fault = "parsing" => whole = IF Len(s.ps) # 1 THEN left ELSE over
  BY DEF Unless
<1> HIDE DEF lost, bad, left, over, whole
<1>7. CASE s.fault # "parsing"
  <2>1. SceneFinish(s) = s
    BY <1>1, <1>7 DEF Unless
  <2> QED BY <1>7, <2>1
<1>8. CASE s.fault = "parsing" /\ Len(p.children) # 1
  <2>1. SceneFinish(s) = out
    BY <1>1, <1>8 DEF Unless
  <2> HIDE DEF out
  <2> QED BY <1>4, <1>8, <2>1
<1>9. CASE s.fault = "parsing" /\ Len(p.children) = 1
  <2>1. SceneFinish(s) = whole
    BY <1>1, <1>9 DEF Unless
  <2>2. whole \in {left, end, lost, bad}
    BY <1>2, <1>5, <1>6, <1>9
  <2>3. DOMAIN SceneFinish(s) = Fields /\ SceneFinish(s).fault # "parsing"
    BY <1>3, <1>4, <2>1, <2>2
  <2>4. SceneFinish(s).fault = "exception" => SceneFinish(s) = bad
    BY <1>3, <1>4, <2>1, <2>2
  <2> QED BY <1>9, <2>3, <2>4 DEF bad, done
<1> QED BY <1>7, <1>8, <1>9

LEMMA NotOnlyOne == \A n \in Nat \ {0} : n # 1 => 1 \in 1 .. n - 1
OBVIOUS
LEMMA OneIsSome == \A q : Len(q) = 1 => q # << >>
OBVIOUS

\* A scene that is not made for an exception leaves the root as it was.
LEMMA SceneFinishIsFine ==
  ASSUME NEW s, NEW Q, Good(s, Q), s.fault = "parsing"
  PROVE  Fine(SceneFinish(s), Q)
<1> DEFINE p == Inmost(s.ps)
           q == [p EXCEPT !.children = Outer(@)]
           done == [s EXCEPT !.result = Inmost(p.children), !.ps = SetInmost(@, q)]
           bad == [done EXCEPT !.fault = "exception"]
<1>1. /\ s \in StateSet /\ p \in ParseScopeSet /\ p = s.ps[Len(s.ps)] /\ s.ps # << >>
      /\ Len(s.ps) \in 1 .. Len(s.ps)
  BY GoodInmost
<1>2. DOMAIN s = Fields
  BY <1>1, StateFields
<1>3. /\ SceneFinish(s).fault # "parsing"
      /\ SceneFinish(s).fault = "exception" => Len(p.children) = 1 /\ SceneFinish(s) = bad
  BY <1>2, SceneFinishIs
<1>4. ASSUME Len(p.children) = 1
      PROVE  RootNodes(bad)
  <2>1. p.children \in Seq(Seq(Nat)) /\ p.children # << >>
    <3>1. p.children \in Seq(Seq(Nat))
      BY <1>1 DEF ParseScopeSet
    <3>2. p.children # << >>
      BY <1>4, OneIsSome
    <3> QED BY <3>1, <3>2
  <2>2. Inmost(p.children) \in Seq(Nat) /\ Outer(p.children) \in Seq(Seq(Nat))
    BY <2>1, StackOfSeq
  <2>3. q \in ParseScopeSet /\ q.data = p.data
    BY <1>1, <2>2 DEF ParseScopeSet
  <2> HIDE DEF q
  <2>4. s.ps \in Seq(ParseScopeSet)
    BY <1>1 DEF StateSet
  <2>5. /\ SetInmost(s.ps, q) \in Seq(ParseScopeSet) /\ SetInmost(s.ps, q) # << >>
        /\ SetInmost(s.ps, q)[Len(s.ps)] = q
        /\ \A k \in 1 .. Len(s.ps) - 1 : SetInmost(s.ps, q)[k] = s.ps[k]
    BY <1>1, <2>3, <2>4, ReplacedScope
  <2>6. bad \in StateSet /\ bad.ps = SetInmost(s.ps, q) /\ bad.nodes = s.nodes
    BY <1>1, <2>2, <2>5 DEF StateSet
  <2> HIDE DEF bad
  <2>7. RootNodes(s)
    BY RootIsKnown
  <2>8. SetInmost(s.ps, q)[1].data = s.ps[1].data
    <3>1. CASE Len(s.ps) = 1
      BY <1>1, <2>3, <2>5, <3>1
    <3>2. CASE Len(s.ps) # 1
      <4>1. Len(s.ps) \in Nat \ {0}
        BY Shapes DEF Good
      <4>2. 1 \in 1 .. Len(s.ps) - 1
        BY <3>2, <4>1, NotOnlyOne
      <4> QED BY <2>5, <4>2
    <3> QED BY <3>1, <3>2
  <2> QED BY <2>5, <2>6, <2>7, <2>8 DEF RootNodes
<1> HIDE DEF bad
<1> QED BY <1>3, <1>4 DEF Fine

-----------------------------------------------------------------------------
(* The destructor: it makes a scene of what there is, whatever that is.    *)

\* A node at the root, and the value that it is in.
Outwards(t) == NodeFinish(SetValue(t))

LEMMA UnlessFields ==
  ASSUME NEW c, NEW f, NEW s, NEW t, DOMAIN s = Fields, DOMAIN t = Fields
  PROVE  DOMAIN Unless(c, f, s, t) = Fields
BY DEF Unless

LEMMA PopChildrenFields ==
  ASSUME NEW s, DOMAIN s = Fields
  PROVE  DOMAIN PopChildren(s) = Fields
BY DEF PopChildren, Unless

LEMMA SetValueFields ==
  ASSUME NEW s, DOMAIN s = Fields
  PROVE  DOMAIN SetValue(s) = Fields
<1> DEFINE p == Inmost(s.ps)
           d == Inmost(p.data)
           list == Inmost(p.children)
           value == IF d.current.value = "sfnode" /\ list # << >> THEN << list[1] >> ELSE list
           set == [s EXCEPT !.ps = SetInmost(@, [p EXCEPT !.data =
                         SetInmost(@, [d EXCEPT !.values = With(@, d.current.id, value)])])]
<1>1. SetValue(s) = Unless(p.children = << >>, "children", s, PopChildren(set))
  BY DEF SetValue
<1>2. DOMAIN set = Fields
  OBVIOUS
<1> HIDE DEF set
<1>3. DOMAIN PopChildren(set) = Fields
  BY <1>2, PopChildrenFields
<1> QED BY <1>1, <1>3, UnlessFields

LEMMA NodeFinishFields ==
  ASSUME NEW s, DOMAIN s = Fields
  PROVE  DOMAIN NodeFinish(s) = Fields
<1> DEFINE t == Instantiated(s)
<1>1. DOMAIN t = Fields
  <2>1. \A type : DOMAIN Instance(s, type) = Fields
    BY DEF Instance
  <2> QED BY <2>1 DEF Instantiated
<1> HIDE DEF t
<1>2. DOMAIN Finished(t) = Fields
  <2>1. ASSUME NEW u, NEW n, DOMAIN u = Fields PROVE DOMAIN AddChild(u, n) = Fields
    BY <2>1 DEF AddChild, Unless
  <2> DEFINE p == Inmost(t.ps)
             d == Inmost(p.data)
             values == UNION {Range(d.values[f]) : f \in DOMAIN d.values}
             own == IF t.nodes[d.node].type = Script /\ SELF \in values
                    THEN (values \ {SELF}) \cup {d.node} ELSE values
             finished == [p EXCEPT !.data = Outer(@),
                                   !.names = IF d.name = Anonymous THEN @ ELSE Named(@, d),
                                   !.isMap = Targets(p, d)]
             node == [t.nodes[d.node] EXCEPT !.finished = TRUE, !.children = own]
             next == [t EXCEPT !.ps = SetInmost(@, finished), !.nodes[d.node] = node]
             none == [t EXCEPT !.fault = "children"]
             bad == [t EXCEPT !.fault = "exception"]
             whole == AddChild(next, d.node)
  <2>2. Finished(t) = IF t.fault # "parsing" THEN t
                      ELSE IF p.children = << >> \/ p.data = << >> THEN none
                      ELSE IF ~Creatable(t.nodes[d.node], d) THEN bad ELSE whole
    BY DEF Finished
  <2>3. DOMAIN next = Fields /\ DOMAIN none = Fields /\ DOMAIN bad = Fields
    BY <1>1
  <2> HIDE DEF next, none, bad
  <2>4. DOMAIN whole = Fields
    BY <2>1, <2>3
  <2> HIDE DEF whole
  <2>5. Finished(t) \in {t, none, bad, whole}
    BY <2>2
  <2> QED BY <1>1, <2>3, <2>4, <2>5
<1> QED BY <1>2 DEF NodeFinish, t

LEMMA OutwardsFields ==
  ASSUME NEW s, DOMAIN s = Fields
  PROVE  DOMAIN Outwards(s) = Fields
BY SetValueFields, NodeFinishFields DEF Outwards

(* The table that the fold over the nodes at the root is defined by: it    *)
(* exists for the sets of up to k of them.                                 *)
Some(N) == CHOOSE n \in N : TRUE
Entry(b, C, N) == IF N = {} THEN b ELSE Outwards(C[N \ {Some(N)}])
Table(b, D, C) == C = [N \in D |-> Entry(b, C, N)]
UpTo(S, k) == {N \in SUBSET S : Cardinality(N) <= k}

LEMMA SomeRemoved ==
  ASSUME NEW S, IsFiniteSet(S), NEW N \in SUBSET S, N # {}
  PROVE  /\ N \ {Some(N)} \in SUBSET S
         /\ Cardinality(N) \in Nat /\ Cardinality(N \ {Some(N)}) \in Nat
         /\ Cardinality(N) = Cardinality(N \ {Some(N)}) + 1
<1>1. Some(N) \in N
  BY DEF Some
<1>2. IsFiniteSet(N)
  BY FS_Subset
<1>3. Cardinality(N \ {Some(N)}) = Cardinality(N) - 1 /\ IsFiniteSet(N \ {Some(N)})
  BY <1>1, <1>2, FS_RemoveElement
<1>4. Cardinality(N) \in Nat /\ Cardinality(N \ {Some(N)}) \in Nat
  BY <1>2, <1>3, FS_CardinalityType
<1> QED BY <1>3, <1>4

LEMMA TablesExist ==
  ASSUME NEW b, NEW S, IsFiniteSet(S), NEW k \in Nat
  PROVE  \E C : Table(b, UpTo(S, k), C)
<1> DEFINE Missing == {i \in Nat : ~ \E C : Table(b, UpTo(S, i), C)}
<1>1. SUFFICES ASSUME Missing # {} PROVE FALSE
  OBVIOUS
<1>2. PICK i \in Missing : \A j \in Missing : i <= j
  BY <1>1, LeastElement
<1>3. CASE i = 0
  <2> DEFINE C == [N \in UpTo(S, 0) |-> b]
  <2>1. ASSUME NEW N \in UpTo(S, 0) PROVE N = {}
    <3>1. IsFiniteSet(N) /\ Cardinality(N) \in Nat
      BY FS_Subset, FS_CardinalityType DEF UpTo
    <3> QED BY <3>1, FS_EmptySet DEF UpTo
  <2>2. C = [N \in UpTo(S, 0) |-> Entry(b, C, N)]
    BY <2>1 DEF Entry
  <2> QED BY <2>2, <1>3, <1>2 DEF Table
<1>4. CASE i # 0
  <2>1. i - 1 \in Nat /\ i - 1 \notin Missing
    BY <1>2, <1>4
  <2>2. PICK C : Table(b, UpTo(S, i - 1), C)
    BY <2>1
  <2> DEFINE D == [N \in UpTo(S, i) |-> Entry(b, C, N)]
  <2>3. ASSUME NEW N \in UpTo(S, i), N # {}
        PROVE  N \ {Some(N)} \in UpTo(S, i - 1) /\ N \ {Some(N)} \in UpTo(S, i)
    <3>1. N \in SUBSET S /\ Cardinality(N) <= i
      BY DEF UpTo
    <3>2. /\ N \ {Some(N)} \in SUBSET S
          /\ Cardinality(N) \in Nat /\ Cardinality(N \ {Some(N)}) \in Nat
          /\ Cardinality(N) = Cardinality(N \ {Some(N)}) + 1
      BY <3>1, <2>3, SomeRemoved
    <3> QED BY <3>1, <3>2, <2>1 DEF UpTo
  <2>4. ASSUME NEW N \in UpTo(S, i - 1) PROVE C[N] = Entry(b, C, N)
    BY <2>2 DEF Table
  <2>5. ASSUME NEW N \in UpTo(S, i) PROVE Entry(b, C, N) = Entry(b, D, N)
    BY <2>3, <2>4 DEF Entry
  <2>6. D = [N \in UpTo(S, i) |-> Entry(b, D, N)]
    BY <2>5
  <2> QED BY <2>6, <1>2 DEF Table
<1> QED BY <1>3, <1>4

\* The state once the nodes at the root are finished is a state.
LEMMA FoldFields ==
  ASSUME NEW b, DOMAIN b = Fields, NEW S, IsFiniteSet(S)
  PROVE  DOMAIN FoldSet(LAMBDA k, t : NodeFinish(SetValue(t)), b, S) = Fields
<1>1. UpTo(S, Cardinality(S)) = SUBSET S /\ Cardinality(S) \in Nat
  BY FS_Subset, FS_CardinalityType DEF UpTo
<1>2. \E D : Table(b, SUBSET S, D)
  <2>1. \E D : Table(b, UpTo(S, Cardinality(S)), D)
    BY <1>1, TablesExist
  <2> QED BY <1>1, <2>1
<1> DEFINE C == CHOOSE D : Table(b, SUBSET S, D)
<1>3. Table(b, SUBSET S, C)
  BY <1>2
<1>4. FoldSet(LAMBDA k, t : NodeFinish(SetValue(t)), b, S) = C[S]
  BY DEF FoldSet, MapThenFoldSet, Table, Entry, Outwards, Some
<1> HIDE DEF C
<1>5. ASSUME NEW N \in SUBSET S PROVE C[N] = Entry(b, C, N)
  BY <1>3 DEF Table
<1> DEFINE Bad == {N \in SUBSET S : DOMAIN C[N] # Fields}
           Sizes == {Cardinality(N) : N \in Bad}
<1>6. Bad = {}
  <2>1. SUFFICES ASSUME Bad # {} PROVE FALSE
    OBVIOUS
  <2>2. Sizes \subseteq Nat /\ Sizes # {}
    BY <2>1, FS_Subset, FS_CardinalityType
  <2>3. PICK m \in Sizes : \A l \in Sizes : m <= l
    BY <2>2, LeastElement
  <2>4. PICK N \in Bad : Cardinality(N) = m
    OBVIOUS
  <2>5. N \in SUBSET S /\ C[N] = Entry(b, C, N) /\ DOMAIN C[N] # Fields
    BY <2>4, <1>5
  <2>6. CASE N = {}
    BY <2>5, <2>6 DEF Entry
  <2>7. CASE N # {}
    <3> DEFINE M == N \ {Some(N)}
    <3>1. M \in SUBSET S /\ Cardinality(M) \in Nat /\ Cardinality(N) = Cardinality(M) + 1
      BY <2>5, <2>7, SomeRemoved
    <3>2. C[N] = Outwards(C[M])
      BY <2>5, <2>7 DEF Entry
    <3>3. M \notin Bad
      <4>1. SUFFICES ASSUME M \in Bad PROVE FALSE
        OBVIOUS
      <4>2. m <= Cardinality(M)
        BY <4>1, <2>3
      <4> QED BY <4>2, <3>1, <2>4
    <3>4. DOMAIN C[M] = Fields
      BY <3>1, <3>3
    <3> HIDE DEF M
    <3>5. DOMAIN Outwards(C[M]) = Fields
      BY <3>4, OutwardsFields
    <3> QED BY <2>5, <3>2, <3>5
  <2> QED BY <2>6, <2>7
<1> QED BY <1>4, <1>6

(* The destructor has the root's scope only.                               *)
Lone(s) ==
  DOMAIN s = Fields /\ \E p, T : s.ps = <<p>> /\ "children" \in DOMAIN p /\ p.children \in Seq(T)

LEMMA OnlyScope ==
  ASSUME NEW p, NEW q
  PROVE  Inmost(<<p>>) = p /\ SetInmost(<<p>>, q) = <<q>> /\ <<p>>[1] = p
<1> DEFINE T == {p, q}
           x == <<p>>
           y == <<q>>
<1>1. x \in Seq(T) /\ y \in Seq(T) /\ Len(x) = 1 /\ Len(y) = 1 /\ x[1] = p /\ y[1] = q
  OBVIOUS
<1>2. q \in T
  OBVIOUS
<1> HIDE DEF x, y, T
<1>3. x # << >>
  BY <1>1, OneIsSome
<1>4. /\ SetInmost(x, q) \in Seq(T) /\ Len(SetInmost(x, q)) = Len(x)
      /\ SetInmost(x, q)[Len(x)] = q
  <2>1. x \in Seq(T) /\ x # << >> /\ q \in T
    BY <1>1, <1>2, <1>3
  <2> QED BY ONLY <2>1, Replaced
<1>5. SetInmost(x, q) = y
  <2>1. \A k \in 1 .. Len(y) : SetInmost(x, q)[k] = y[k]
    BY <1>1, <1>4
  <2> DEFINE z == SetInmost(x, q)
  <2> HIDE DEF z
  <2>2. z \in Seq(T) /\ Len(z) = Len(y) /\ \A k \in 1 .. Len(y) : z[k] = y[k]
    BY <1>1, <1>4, <2>1 DEF z
  <2>3. z = y
    BY <1>1, <2>2, SeqEqual
  <2> QED BY <2>3 DEF z
<1>6. Inmost(x) = p
  BY <1>1 DEF Inmost
<1> QED BY <1>1, <1>5, <1>6 DEF x, y

LEMMA LoneLists ==
  ASSUME NEW s, Lone(s)
  PROVE  Len(s.ps[1].children) \in Nat
<1>1. PICK p, T : s.ps = <<p>> /\ p.children \in Seq(T)
  BY DEF Lone
<1>2. s.ps[1] = p
  BY <1>1, OnlyScope
<1> QED BY <1>1, <1>2, LenProperties

LEMMA LoneInstance ==
  ASSUME NEW s, Lone(s), NEW type
  PROVE  Lone(Instance(s, type))
<1>1. PICK p, T : s.ps = <<p>> /\ "children" \in DOMAIN p /\ p.children \in Seq(T)
  BY DEF Lone
<1> DEFINE t == Instance(s, type)
<1>2. \E names, N : t = [s EXCEPT !.nodes = N, !.ps = SetInmost(@, [Inmost(s.ps) EXCEPT !.names = names])]
  BY DEF Instance
<1>3. PICK names, N : t = [s EXCEPT !.nodes = N, !.ps = SetInmost(@, [Inmost(s.ps) EXCEPT !.names = names])]
  BY <1>2
<1> HIDE DEF t
<1> DEFINE q == [p EXCEPT !.names = names]
<1>4. "children" \in DOMAIN q /\ q.children \in Seq(T)
  BY <1>1
<1>5. DOMAIN s = Fields
  BY DEF Lone
<1>6. t = [s EXCEPT !.nodes = N, !.ps = SetInmost(@, q)]
  BY <1>1, <1>3, OnlyScope
<1> HIDE DEF q
<1>7. t.ps = SetInmost(s.ps, q) /\ DOMAIN t = Fields
  BY <1>5, <1>6 DEF Fields
<1>8. t.ps = <<q>>
  BY <1>1, <1>7, OnlyScope
<1>9. Lone(t)
  BY <1>4, <1>7, <1>8 DEF Lone
<1> QED BY <1>9 DEF t

LEMMA LoneChild ==
  ASSUME NEW s, Lone(s), NEW n
  PROVE  Lone(AddChild(s, n))
<1>1. PICK p, T : s.ps = <<p>> /\ "children" \in DOMAIN p /\ p.children \in Seq(T)
  BY DEF Lone
<1>2. Inmost(s.ps) = p /\ DOMAIN s = Fields
  BY <1>1, OnlyScope DEF Lone
<1> DEFINE x == Append(Inmost(p.children), n)
           q == [p EXCEPT !.children = SetInmost(@, x)]
           none == [s EXCEPT !.fault = "children"]
           next == [s EXCEPT !.ps = SetInmost(@, q)]
<1>3. AddChild(s, n) = IF s.fault # "parsing" THEN s ELSE IF p.children = << >> THEN none ELSE next
  BY <1>2 DEF AddChild, Unless
<1>4. Lone(none)
  <2>1. DOMAIN none = Fields /\ none.ps = <<p>>
    BY <1>1, <1>2 DEF Fields
  <2> HIDE DEF none
  <2> QED BY <1>1, <2>1 DEF Lone
<1>5. ASSUME p.children # << >> PROVE Lone(next)
  <2> HIDE DEF x
  <2> DEFINE U == T \cup {x}
             c == p.children
  <2>1. c \in Seq(U) /\ x \in U /\ c # << >>
    BY <1>1, <1>5
  <2> HIDE DEF U, c
  <2>2. SetInmost(c, x) \in Seq(U)
    BY <2>1, Replaced
  <2>3. q.children = SetInmost(c, x) /\ "children" \in DOMAIN q
    BY <1>1 DEF c
  <2> HIDE DEF q
  <2>4. DOMAIN next = Fields /\ next.ps = SetInmost(s.ps, q)
    BY <1>2 DEF Fields
  <2>5. next.ps = <<q>>
    BY <1>1, <2>4, OnlyScope
  <2> HIDE DEF next
  <2> QED BY <2>2, <2>3, <2>4, <2>5 DEF Lone
<1> HIDE DEF none, next
<1> QED BY <1>3, <1>4, <1>5

LEMMA LoneNodeFinish ==
  ASSUME NEW s, Lone(s)
  PROVE  Lone(NodeFinish(s))
<1> DEFINE t == Instantiated(s)
<1>1. Lone(t)
  BY LoneInstance DEF Instantiated
<1> HIDE DEF t
<1>2. PICK p, T : t.ps = <<p>> /\ "children" \in DOMAIN p /\ p.children \in Seq(T)
  BY <1>1 DEF Lone
<1>3. Inmost(t.ps) = p /\ DOMAIN t = Fields
  BY <1>1, <1>2, OnlyScope DEF Lone
<1> DEFINE d == Inmost(p.data)
           values == UNION {Range(d.values[f]) : f \in DOMAIN d.values}
           own == IF t.nodes[d.node].type = Script /\ SELF \in values
                  THEN (values \ {SELF}) \cup {d.node} ELSE values
           q == [p EXCEPT !.data = Outer(@),
                          !.names = IF d.name = Anonymous THEN @ ELSE Named(@, d),
                          !.isMap = Targets(p, d)]
           node == [t.nodes[d.node] EXCEPT !.finished = TRUE, !.children = own]
           next == [t EXCEPT !.ps = SetInmost(@, q), !.nodes[d.node] = node]
           none == [t EXCEPT !.fault = "children"]
           bad == [t EXCEPT !.fault = "exception"]
           whole == AddChild(next, d.node)
<1>4. Finished(t) = IF t.fault # "parsing" THEN t
                    ELSE IF p.children = << >> \/ p.data = << >> THEN none
                    ELSE IF ~Creatable(t.nodes[d.node], d) THEN bad ELSE whole
  BY <1>3 DEF Finished
<1>5. Lone(none) /\ Lone(bad)
  <2>1. DOMAIN none = Fields /\ none.ps = <<p>> /\ DOMAIN bad = Fields /\ bad.ps = <<p>>
    BY <1>2, <1>3 DEF Fields
  <2> HIDE DEF none, bad
  <2> QED BY <1>2, <2>1 DEF Lone
<1>6. Lone(next)
  <2>1. "children" \in DOMAIN q /\ q.children \in Seq(T)
    BY <1>2
  <2> HIDE DEF q, node
  <2>2. DOMAIN next = Fields /\ next.ps = SetInmost(t.ps, q)
    BY <1>3 DEF Fields
  <2>3. next.ps = <<q>>
    BY <1>2, <2>2, OnlyScope
  <2> HIDE DEF next
  <2> QED BY <2>1, <2>2, <2>3 DEF Lone
<1> HIDE DEF next, none, bad
<1>7. Lone(whole)
  BY <1>6, LoneChild
<1> HIDE DEF whole
<1>8. Finished(t) \in {t, none, bad, whole}
  BY <1>4
<1>9. Lone(Finished(t))
  BY <1>1, <1>5, <1>7, <1>8
<1> QED BY <1>9 DEF NodeFinish, t

\* A parse that broke off is over.
LEMMA RecoveredIsOver ==
  ASSUME NEW s, RootNodes(s)
  PROVE  Recovered(s).fault # "parsing"
<1> DEFINE r == [s EXCEPT !.ps = << @[1] >>, !.fault = "parsing"]
           first == InnermostFinished(r)
<1>1. s \in StateSet /\ s.ps # << >> /\ DOMAIN s = Fields
  BY StateFields DEF RootNodes
<1>2. s.ps[1] \in ParseScopeSet
  <2>1. s.ps \in Seq(ParseScopeSet)
    BY <1>1 DEF StateSet
  <2>2. 1 \in 1 .. Len(s.ps)
    BY <1>1, <2>1, EmptySeq, LenProperties
  <2> QED BY <2>1, <2>2, ElementOfSeq
<1>3. Lone(r)
  <2> DEFINE p == s.ps[1]
  <2>1. "children" \in DOMAIN p /\ p.children \in Seq(Seq(Nat))
    BY <1>2 DEF ParseScopeSet
  <2>2. DOMAIN r = Fields /\ r.ps = <<p>>
    BY <1>1 DEF Fields
  <2> HIDE DEF r, p
  <2> QED BY <2>1, <2>2 DEF Lone
<1> HIDE DEF r
<1>4. Lone(first)
  BY <1>3, LoneNodeFinish DEF InnermostFinished
<1>5. Recovered(s) = Salvaged(first)
  BY DEF Recovered, r
<1> HIDE DEF first
<1>6. DOMAIN first = Fields /\ IsFiniteSet(2 .. Len(first.ps[1].children))
  <2>1. Len(first.ps[1].children) \in Nat
    BY <1>4, LoneLists
  <2> QED BY <1>4, <2>1, FS_Interval DEF Lone
<1> DEFINE S == 2 .. Len(first.ps[1].children)
           fold == FoldSet(LAMBDA k, t : NodeFinish(SetValue(t)), first, S)
           scene == SceneFinish(fold)
           stop == [first EXCEPT !.fault = "terminate"]
           over == [scene EXCEPT !.fault = IF @ \in {"done", "exception"} THEN "invalid" ELSE @]
<1>7. Salvaged(first) = IF first.fault = "exception" THEN stop
                        ELSE IF first.fault # "parsing" THEN first ELSE over
  BY DEF Salvaged
<1>8. DOMAIN fold = Fields
  <2> HIDE DEF S
  <2>1. IsFiniteSet(S)
    BY <1>6 DEF S
  <2> QED BY <1>6, <2>1, FoldFields
<1> HIDE DEF fold
<1>9. DOMAIN scene = Fields /\ scene.fault # "parsing"
  BY <1>8, SceneFinishIs
<1> HIDE DEF scene
<1>10. over.fault # "parsing" /\ stop.fault # "parsing"
  BY <1>6, <1>9 DEF Fields
<1> HIDE DEF over, stop
<1> QED BY <1>5, <1>7, <1>10

(* What a step becomes, as long as the parse goes on.                      *)
LEMMA BecomeKeeps ==
  ASSUME NEW s, NEW Q, Become(s), Fine(s, Q), outcome' = "parsing"
  PROVE  Good(Here', Q)
<1>1. CASE s.fault = "exception"
  <2>1. outcome' = Recovered(s).fault
    BY <1>1 DEF Become, Parsed
  <2>2. Recovered(s).fault # "parsing"
    BY <1>1, RecoveredIsOver DEF Fine
  <2> QED BY <2>1, <2>2
<1>2. CASE s.fault # "exception"
  <2>1. /\ rules' = s.rules /\ scopes' = s.scopes /\ ps' = s.ps
        /\ nodes' = s.nodes /\ result' = s.result /\ s.fault = "parsing"
    BY <1>2 DEF Become, Parsed
  <2>2. Good(s, Q)
    BY <2>1 DEF Fine
  <2>3. s \in StateSet
    BY <2>2 DEF Good, Shape
  <2>4. Here' = [rules |-> s.rules, scopes |-> s.scopes, ps |-> s.ps, nodes |-> s.nodes,
                 result |-> s.result, fault |-> "parsing"]
    BY <2>1 DEF Here
  <2>5. s = [rules |-> s.rules, scopes |-> s.scopes, ps |-> s.ps, nodes |-> s.nodes,
             result |-> s.result, fault |-> s.fault]
    BY <2>3 DEF StateSet
  <2>6. Here' = s
    BY <2>1, <2>4, <2>5
  <2> QED BY <2>2, <2>6
<1> QED BY <1>1, <1>2

-----------------------------------------------------------------------------
(* The parse, from the start of the file.                                  *)

LEMMA FirstRule ==
  LET q == <<"scene">>
  IN /\ q \in Seq(RuleNames) /\ Grammar(q) /\ Top(q) = 1
     /\ CountIn(q, 1, Holding) = 0
<1> DEFINE q == <<"scene">>
           e == << >>
           x == "scene"
<1>1. e \in Seq(RuleNames) /\ x \in RuleNames /\ Append(e, x) = q /\ Len(e) = 0
  BY DEF RuleNames
<1>2. q \in Seq(RuleNames) /\ Len(q) = 1 /\ q[1] = "scene" /\ q # << >>
  BY DEF RuleNames
<1>3. Grammar(q)
  BY <1>2 DEF Grammar
<1>4. x \in Scoped /\ x \notin Holding
  BY DEF Scoped, Holding
<1> HIDE DEF e, x, q
<1>5. Top(e) = 0
  <2>1. 0 \in 0 .. Len(e)
    BY <1>1
  <2>2. ScopeAt(e, 0) = 0
    BY <1>1, <2>1, ScopeAtStep
  <2> QED BY <1>1, <2>2 DEF Top
<1>6. Top(q) = 1
  <2>1. Top(Append(e, x)) = Top(e) + IF x \in Scoped THEN 1 ELSE 0
    BY <1>1, TopPush
  <2> QED BY <1>1, <1>4, <1>5, <2>1
<1>7. CountIn(q, 1, Holding) = 0
  <2> DEFINE k == 1
             S == Holding
  <2>3. k \in Nat /\ k > Top(e)
    BY <1>5
  <2> HIDE DEF k, S
  <2>1. CountIn(Append(e, x), k, S) =
          CountIn(e, k, S) + IF k = Top(Append(e, x)) /\ x \in S THEN 1 ELSE 0
    <3>1. e \in Seq(RuleNames) /\ x \in RuleNames
      BY <1>1
    <3> QED BY ONLY <3>1, CountPush
  <2>2. CountIn(e, k, S) = 0
    BY <1>1, <2>3, CountAbove
  <2> QED BY <1>1, <1>4, <2>1, <2>2 DEF k, S
<1> QED BY <1>2, <1>3, <1>6, <1>7 DEF q

LEMMA RootScopeIs ==
  ASSUME NEW children \in Seq(Seq(Nat))
  PROVE  LET q == [NoParseScope EXCEPT !.children = children]
         IN /\ q \in ParseScopeSet /\ q.data = << >> /\ q.names = << >> /\ q.said = {}
            /\ q.isMap = {} /\ q.bodies = << >>
<1>1. << >> \in FiniteMaps(Names, Nat) /\ << >> \in Maps(Text, FiniteMaps(Names, Nat))
  BY EmptyMap
<1>2. << >> \in Seq(RouteSet) /\ << >> \in Seq(DataSet) /\ "" \in Text
  BY EmptySeq DEF Text
<1> QED BY <1>1, <1>2 DEF NoParseScope, ParseScopeSet

LEMMA ParseStarts == ParseInit => Good(Here, quirks)
<1> SUFFICES ASSUME ParseInit PROVE Good(Here, quirks)
  OBVIOUS
<1> DEFINE g == [NoScope EXCEPT !.types = BuiltIn]
           lists == << << >> >>
           none == << >>
           p == [NoParseScope EXCEPT !.children = lists]
<1>1. /\ Here.rules = <<"scene">> /\ Here.scopes = <<g>> /\ Here.nodes = << >>
      /\ Here.result = << >> /\ Here.fault = "parsing"
      /\ Here.ps = << [NoParseScope EXCEPT !.children = << << >> >>] >>
  BY HereIs DEF ParseInit
<1>2. p = [NoParseScope EXCEPT !.children = << << >> >>]
  OBVIOUS
<1>3. g \in ScopeSet /\ g.defs = << >>
  <2>1. << >> \in Maps(Names, Nat)
    BY EmptyMap
  <2>2. BuiltIn \in Maps(TypeIds, SUBSET Interface)
    <3>1. DOMAIN BuiltIn \subseteq TypeIds
      BY DEF TypeIds
    <3> QED BY <3>1, ParseAssumption, MapIs
  <2> QED BY <2>1, <2>2 DEF NoScope, ScopeSet
<1>4. none \in Seq(DataSet) /\ lists \in Seq(Seq(Nat)) /\ DOMAIN none = {} /\ Len(none) = 0
  <2>1. << >> \in Seq(Nat)
    OBVIOUS
  <2> QED BY <2>1
<1> HIDE DEF g, none, lists
<1>5. /\ p \in ParseScopeSet /\ p.data = none /\ p.names = << >> /\ p.said = {}
      /\ p.isMap = {} /\ p.bodies = << >>
  BY <1>4, RootScopeIs DEF none
<1>6. Here.ps = <<p>>
  BY <1>1, <1>2
<1> HIDE DEF p
<1>7. /\ Here.ps \in Seq(ParseScopeSet) /\ Len(Here.ps) = 1 /\ Here.ps[1] = p
      /\ DOMAIN Here.ps = 1 .. 1
  BY <1>5, <1>6
<1>8. Here.scopes \in Seq(ScopeSet) /\ Len(Here.scopes) = 1 /\ Here.scopes[1] = g
  BY <1>1, <1>3
<1>9. /\ Here.rules \in Seq(RuleNames) /\ Grammar(Here.rules) /\ Top(Here.rules) = 1
      /\ CountIn(Here.rules, 1, Holding) = 0
  BY <1>1, FirstRule
<1>10. Here \in StateSet
  <2>1. Here.nodes \in Seq(NodeSet) /\ Here.result \in Seq(Nat) /\ Here.fault \in Faults
    BY <1>1 DEF Faults
  <2>2. Here = [rules |-> Here.rules, scopes |-> Here.scopes, ps |-> Here.ps,
                nodes |-> Here.nodes, result |-> Here.result, fault |-> Here.fault]
    BY DEF Here
  <2> QED BY <1>7, <1>8, <1>9, <2>1, <2>2 DEF StateSet
<1>11. Shape(Here)
  <2>1. \A k \in 1 .. Len(Here.ps) : k = 1
    BY <1>7
  <2> QED BY <1>4, <1>5, <1>7, <1>8, <1>9, <1>10, <2>1 DEF Shape
<1>12. ASSUME NEW k \in 1 .. Len(Here.ps) PROVE GoodScope(Here, quirks, k)
  <2>1. k = 1 /\ Here.ps[k] = p /\ Here.scopes[k].defs = << >>
    BY <1>3, <1>7, <1>8
  <2>2. DOMAIN p.data = {} /\ DOMAIN p.names = {} /\ DOMAIN p.bodies = {}
    <3>1. DOMAIN << >> = {}
      OBVIOUS
    <3> QED BY <1>4, <1>5, <3>1
  <2>3. ScopeNodes(p, CountIn(Here.rules, k, Openers), Here.nodes) /\ ScopeBodies(p, Here.nodes)
    BY <2>2 DEF ScopeNodes, ScopeBodies
  <2>4. ScopeNames(<< >>, p, Here.nodes) /\ ScopeCurrent(<< >>, p, Here.nodes)
    BY <2>2 DEF ScopeNames, ScopeCurrent
  <2>5. ScopeSaid(p)
    <3>1. UNION {SaidOf(p, i) : i \in DOMAIN p.data} = {}
      BY <2>2
    <3> QED BY <1>5, <3>1 DEF ScopeSaid
  <2> QED BY <2>1, <2>3, <2>4, <2>5 DEF GoodScope
<1>13. Alone(Here)
  <2>1. \A k \in DOMAIN Here.ps : DOMAIN Here.ps[k].data = {}
    BY <1>4, <1>5, <1>7
  <2> QED BY <2>1 DEF Alone
<1> QED BY <1>11, <1>12, <1>13 DEF Good

(* The parse is in order while it goes on, and every PROTO has its ISs.    *)
ParseIsGood ==
  /\ outcome = "parsing" => Good(Here, quirks)
  /\ \A p \in protos : p.isMap = p.said

\* A step that hands its changes over, one after the other, keeps the parse in order.
LEMMA StepKeeps ==
  ASSUME \E s : Become(s) /\ Fine(s, quirks')
  PROVE  outcome' = "parsing" => Good(Here', quirks')
<1> SUFFICES ASSUME outcome' = "parsing" PROVE Good(Here', quirks')
  OBVIOUS
<1>1. PICK s : Become(s) /\ Fine(s, quirks')
  OBVIOUS
<1>2. PICK Q : Q = quirks'
  OBVIOUS
<1>3. Become(s) /\ Fine(s, Q)
  BY <1>1, <1>2
<1>4. Good(Here', Q)
  BY <1>3, BecomeKeeps
<1> QED BY <1>2, <1>4

LEMMA EndSteps ==
  ASSUME Good(Here, quirks), SceneEnd \/ ParseError \/ BodyLeftOpen
  PROVE  \E s : Become(s) /\ Fine(s, quirks')
<1>1. Here \in StateSet /\ Here.fault = "parsing"
  BY HereIs, HereIsGood
<1>2. CASE SceneEnd
  <2>1. Become(SceneFinish(Here)) /\ quirks' = quirks
    BY <1>2 DEF SceneEnd
  <2>2. Fine(SceneFinish(Here), quirks)
    BY <1>1, SceneFinishIsFine
  <2> QED BY <2>1, <2>2
<1>3. CASE ParseError
  <2> DEFINE s == [Here EXCEPT !.fault = "exception"]
  <2>1. Become(s) /\ quirks' = quirks
    BY <1>3 DEF ParseError
  <2>2. RootNodes(Here)
    BY RootIsKnown
  <2>3. Fine(s, quirks)
    BY <2>2, ThrowsFine
  <2> QED BY <2>1, <2>3
<1>4. CASE BodyLeftOpen
  <2>1. Become(SceneFinish(Here)) /\ Oddly({<<"open", TRUE>>})
    BY <1>4 DEF BodyLeftOpen
  <2>2. Fine(SceneFinish(Here), quirks)
    BY <1>1, SceneFinishIsFine
  <2>3. quirks \subseteq quirks'
    BY <2>1, QuirksGrow
  <2>4. Fine(SceneFinish(Here), quirks')
    BY <2>2, <2>3, GoodGrows
  <2> QED BY <2>1, <2>4
<1> QED BY <1>2, <1>3, <1>4

LEMMA ParseSteps ==
  ASSUME Good(Here, quirks), outcome = "parsing", ParseNext
  PROVE  \E s : Become(s) /\ Fine(s, quirks')
<1>1. CASE Statement
  <2>1. CASE NodeStart
    BY <2>1, NodeStartSteps
  <2>2. CASE NodeField
    BY <2>2, NodeFieldSteps
  <2>3. CASE ScriptInterface
    BY <2>3, ScriptInterfaceSteps
  <2>4. CASE Use
    BY <2>4, UseSteps
  <2>5. CASE Null
    BY <2>5, ValueSteps
  <2>6. CASE RouteStatement
    BY <2>6, RouteSteps
  <2>7. CASE ProtoStart
    BY <2>7, ProtoStartSteps
  <2>8. CASE ProtoInterface
    BY <2>8, ProtoInterfaceSteps
  <2>9. CASE Externproto
    BY <2>9, ExternprotoSteps
  <2> QED BY <1>1, <2>1, <2>2, <2>3, <2>4, <2>5, <2>6, <2>7, <2>8, <2>9 DEF Statement
<1>2. CASE Bracket
  <2>1. CASE NodeEnd
    BY <2>1, NodeEndSteps
  <2>2. CASE ListStart \/ ListEnd
    BY <2>2, ValueSteps
  <2>3. CASE ProtoBody
    BY <2>3, ProtoBodySteps
  <2>4. CASE ProtoEnd
    BY <2>4, ProtoEndSteps
  <2> QED BY <1>2, <2>1, <2>2, <2>3, <2>4 DEF Bracket
<1>3. CASE SceneEnd \/ ParseError \/ BodyLeftOpen
  BY <1>3, EndSteps
<1> QED BY <1>1, <1>2, <1>3 DEF ParseNext

LEMMA ProtosKept ==
  ASSUME Good(Here, quirks), ParseNext, \A p \in protos : p.isMap = p.said
  PROVE  \A p \in protos' : p.isMap = p.said
<1>1. CASE ProtoEnd
  BY <1>1, ProtoEndSteps
<1>2. CASE protos' = protos
  BY <1>2
<1>3. ParseNext => ProtoEnd \/ protos' = protos
  BY DEF ParseNext, Statement, Bracket, SceneEnd, ParseError, BodyLeftOpen, NodeStart, NodeEnd,
         NodeField, ScriptInterface, Use, Null, ListStart, ListEnd, RouteStatement, ProtoStart,
         ProtoInterface, ProtoBody, Externproto
<1> QED BY <1>1, <1>2, <1>3

LEMMA ParseIsGoodStep == ParseIsGood /\ [ParseNext]_paVars => ParseIsGood'
<1> SUFFICES ASSUME ParseIsGood, [ParseNext]_paVars PROVE ParseIsGood'
  OBVIOUS
<1>1. CASE ParseNext
  <2>1. outcome = "parsing"
    BY <1>1 DEF ParseNext, Statement, Read, Bracket, SceneEnd, ParseError, BodyLeftOpen
  <2>2. Good(Here, quirks) /\ \A p \in protos : p.isMap = p.said
    BY <2>1 DEF ParseIsGood
  <2>3. \E s : Become(s) /\ Fine(s, quirks')
    BY <1>1, <2>1, <2>2, ParseSteps
  <2>4. outcome' = "parsing" => Good(Here', quirks')
    BY <2>3, StepKeeps
  <2>5. \A p \in protos' : p.isMap = p.said
    BY <1>1, <2>2, ProtosKept
  <2> QED BY <2>4, <2>5 DEF ParseIsGood
<1>2. CASE UNCHANGED paVars
  <2>1. /\ rules' = rules /\ scopes' = scopes /\ ps' = ps /\ nodes' = nodes /\ result' = result
        /\ outcome' = outcome /\ protos' = protos /\ quirks' = quirks
    BY <1>2 DEF paVars, parser
  <2>2. Here' = Here
    BY <2>1 DEF Here
  <2> QED BY <2>1, <2>2 DEF ParseIsGood
<1> QED BY <1>1, <1>2

LEMMA ParseIsInOrder == ParseSpec => []ParseIsGood
<1>1. ParseInit => ParseIsGood
  <2>1. ParseInit => protos = {}
    BY DEF ParseInit
  <2> QED BY <2>1, ParseStarts DEF ParseIsGood
<1> QED BY <1>1, ParseIsGoodStep, PTL DEF ParseSpec

(* The grammar and the actions agree on the node that a name stands for    *)
(* once it is finished (vrml97_grammar.h 1243, parse_vrml.h 1089), and a   *)
(* PROTO that is defined has every IS of its body (parse_vrml.h 886).      *)
THEOREM NamesAgreement == ParseSpec => []NamesAgree
<1>1. ParseIsGood => NamesAgree
  <2> SUFFICES ASSUME ParseIsGood PROVE NamesAgree
    OBVIOUS
  <2>1. ASSUME outcome = "parsing", quirks \cap {"nested", "instance"} = {},
               NEW k \in DOMAIN scopes, NEW name \in DOMAIN scopes[k].defs,
               nodes[scopes[k].defs[name]].finished
        PROVE  ps[k].names[name] = scopes[k].defs[name]
    <3>1. Good(Here, quirks) /\ Calm(quirks)
      BY <2>1 DEF ParseIsGood, Calm
    <3>2. k \in 1 .. Len(Here.ps) /\ Here.scopes = scopes /\ Here.ps = ps /\ Here.nodes = nodes
      BY <2>1, <3>1, HereIs, Shapes DEF Good
    <3>3. ScopeCurrent(Here.scopes[k].defs, Here.ps[k], Here.nodes)
      BY <3>1, <3>2 DEF Good, GoodScope
    <3>4. ScopeCurrent(scopes[k].defs, ps[k], nodes)
      BY <3>2, <3>3
    <3> QED BY <2>1, <3>4 DEF ScopeCurrent
  <2> QED BY <2>1 DEF NamesAgree, ParseIsGood
<1> QED BY <1>1, ParseIsInOrder, PTL
===============================================================================
