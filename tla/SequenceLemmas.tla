--------------------------- MODULE SequenceLemmas ---------------------------
(* Facts about sequences that the proofs of this project cite. *)
EXTENDS SequencesExt, SequenceTheorems, WellFoundedInduction, TLAPS

LessThan == {p \in Nat \X Nat : p[1] < p[2]}

LEMMA LessThanWellFounded == IsWellFoundedOn(LessThan, Nat)
  BY NatLessThanWellFounded DEF OpToRel, LessThan

(* A nonempty set of natural numbers has a least element. *)
LEMMA LeastElement ==
  ASSUME NEW T, T \subseteq Nat, T # {}
  PROVE  \E x \in T : \A y \in T : x <= y
<1>1. PICK x \in T : \A y \in T : ~(<<y, x>> \in LessThan)
  BY LessThanWellFounded, WFMin
<1>2. ASSUME NEW y \in T PROVE x <= y
  <2>1. <<y, x>> \in Nat \X Nat
    OBVIOUS
  <2>2. ~(y < x)
    BY <1>1, <2>1 DEF LessThan
  <2> QED BY <2>2
<1> QED BY <1>2

(* An element of a sequence has a first position in it. *)
LEMMA FirstPosition ==
  ASSUME NEW S, NEW s \in Seq(S), NEW n, \E i \in DOMAIN s : s[i] = n
  PROVE  \E i \in DOMAIN s : s[i] = n /\ \A j \in 1..(i - 1) : s[j] # n
<1> DEFINE T == {i \in 1..Len(s) : s[i] = n}
<1>1. DOMAIN s = 1..Len(s) /\ Len(s) \in Nat
  BY LenProperties
<1>2. T \subseteq Nat /\ T # {}
  BY <1>1
<1>3. PICK x \in T : \A y \in T : x <= y
  BY <1>2, LeastElement
<1>4. \A j \in 1..(x - 1) : s[j] # n
  BY <1>3, <1>1
<1> QED BY <1>3, <1>4, <1>1

(* RemoveAt closes the gap that the removed element leaves. *)
LEMMA RemoveAtProperties ==
  ASSUME NEW S, NEW s \in Seq(S), NEW i \in 1..Len(s)
  PROVE  /\ RemoveAt(s, i) \in Seq(S)
         /\ Len(RemoveAt(s, i)) = Len(s) - 1
         /\ \A j \in 1..(Len(s) - 1) :
              RemoveAt(s, i)[j] = IF j < i THEN s[j] ELSE s[j + 1]
<1> DEFINE a == SubSeq(s, 1, i - 1)
           b == SubSeq(s, i + 1, Len(s))
<1>1. Len(s) \in Nat /\ \A j \in 1..Len(s) : s[j] \in S
  BY LenProperties, ElementOfSeq
<1>2. /\ a \in Seq(S) /\ Len(a) = i - 1
      /\ \A j \in 1..(i - 1) : a[j] = s[j]
  <2>1. \A j \in 1..(i - 1) : s[j] \in S
    BY <1>1
  <2> QED BY <1>1, <2>1, SubSeqProperties
<1>3. /\ b \in Seq(S) /\ Len(b) = Len(s) - i
      /\ \A j \in 1..(Len(s) - i) : b[j] = s[i + j]
  <2>1. \A j \in (i + 1)..Len(s) : s[j] \in S
    BY <1>1
  <2> QED BY <1>1, <2>1, SubSeqProperties
<1> HIDE DEF a, b
<1>4. /\ a \o b \in Seq(S) /\ Len(a \o b) = Len(a) + Len(b)
      /\ \A j \in 1..(Len(a) + Len(b)) :
           (a \o b)[j] = IF j <= Len(a) THEN a[j] ELSE b[j - Len(a)]
  BY <1>2, <1>3, ConcatProperties
<1>5. Len(a) + Len(b) = Len(s) - 1
  BY <1>1, <1>2, <1>3
<1>6. ASSUME NEW j \in 1..(Len(s) - 1)
      PROVE  (a \o b)[j] = IF j < i THEN s[j] ELSE s[j + 1]
  <2>0. (a \o b)[j] = IF j <= Len(a) THEN a[j] ELSE b[j - Len(a)]
    BY <1>4, <1>5
  <2>1. CASE j < i
    <3>1. j <= Len(a) /\ j \in 1..(i - 1)
      BY <2>1, <1>1, <1>2
    <3> QED BY <3>1, <2>0, <2>1, <1>2
  <2>2. CASE ~(j < i)
    <3>1. /\ ~(j <= Len(a))
          /\ j - Len(a) \in 1..(Len(s) - i)
          /\ i + (j - Len(a)) = j + 1
      BY <2>2, <1>1, <1>2
    <3>2. b[j - Len(a)] = s[j + 1]
      BY <3>1, <1>3
    <3> QED BY <3>1, <3>2, <2>0, <2>2
  <2> QED BY <2>1, <2>2
<1> QED BY <1>4, <1>5, <1>6 DEF RemoveAt, a, b

(* Front drops the last element and keeps the others in place. *)
LEMMA FrontProperties ==
  ASSUME NEW S, NEW s \in Seq(S), s # <<>>
  PROVE  /\ Front(s) \in Seq(S)
         /\ Len(Front(s)) = Len(s) - 1
         /\ \A j \in 1..(Len(s) - 1) : Front(s)[j] = s[j]
<1> DEFINE f == SubSeq(s, 1, Len(s) - 1)
<1>1. Len(s) \in Nat \ {0} /\ \A j \in 1..Len(s) : s[j] \in S
  BY LenProperties, ElementOfSeq, EmptySeq
<1>2. \A j \in 1..(Len(s) - 1) : s[j] \in S
  BY <1>1
<1>3. 1 \in Int /\ Len(s) - 1 \in Int
  BY <1>1
<1>4. /\ f \in Seq(S)
      /\ Len(f) = IF 1 <= Len(s) - 1 THEN (Len(s) - 1) - 1 + 1 ELSE 0
      /\ \A j \in 1..((Len(s) - 1) - 1 + 1) : f[j] = s[1 + j - 1]
  BY <1>2, <1>3, SubSeqProperties
<1> HIDE DEF f
<1>5. Len(f) = Len(s) - 1 /\ (Len(s) - 1) - 1 + 1 = Len(s) - 1
  <2>1. ASSUME NEW l \in Nat \ {0}
        PROVE  /\ (l - 1) - 1 + 1 = l - 1
               /\ (IF 1 <= l - 1 THEN (l - 1) - 1 + 1 ELSE 0) = l - 1
    OBVIOUS
  <2> QED BY <1>1, <1>4, <2>1
<1>6. \A j \in 1..(Len(s) - 1) : f[j] = s[j]
  BY <1>1, <1>4, <1>5
<1> QED BY <1>4, <1>5, <1>6 DEF Front, f

(* The last element of a nonempty sequence is one of its elements. *)
LEMMA LastProperties ==
  ASSUME NEW S, NEW s \in Seq(S), s # <<>>
  PROVE  /\ Len(s) \in 1..Len(s)
         /\ Last(s) = s[Len(s)]
         /\ Last(s) \in S
<1>1. Len(s) \in Nat \ {0}
  BY LenProperties, EmptySeq
<1>2. Len(s) \in 1..Len(s)
  BY <1>1
<1>3. s[Len(s)] \in S
  BY <1>2, ElementOfSeq
<1> QED BY <1>2, <1>3 DEF Last
=============================================================================
