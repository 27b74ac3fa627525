--------------------------- MODULE SequenceLemmas ---------------------------
(***************************************************************************)
(* Facts about the operators of the community module SequencesExt that the *)
(* models of queues and lists use, in the form the proofs need.            *)
(***************************************************************************)
EXTENDS Integers, SequencesExt, WellFoundedInduction, TLAPS

\* There is a well-founded relation that contains < on the naturals.
LEMMA LessThanWellFounded ==
    \E R : IsWellFoundedOn(R, Nat) /\ \A x, y \in Nat : x < y => <<x, y>> \in R
<1> DEFINE R == OpToRel(<, Nat)
<1>1. IsWellFoundedOn(R, Nat)
  BY NatLessThanWellFounded, Zenon
<1>2. \A x, y \in Nat : x < y => <<x, y>> \in R
  BY DEF OpToRel
<1> HIDE DEF R
<1> QED BY <1>1, <1>2

\* A non-empty set of naturals has a minimal element for such a relation.
LEMMA MinimalOfNats ==
    ASSUME NEW R, IsWellFoundedOn(R, Nat), NEW S \in SUBSET Nat, S # {}
    PROVE  \E x \in S : \A y \in S : ~(<<y, x>> \in R)
  BY WFMin

\* Every non-empty set of naturals has a least element, and Min yields it.
LEMMA MinOfNats ==
    ASSUME NEW S \in SUBSET Nat, S # {}
    PROVE  Min(S) \in S /\ \A y \in S : Min(S) <= y
<1>1. PICK R : IsWellFoundedOn(R, Nat) /\ \A x, y \in Nat : x < y => <<x, y>> \in R
  BY LessThanWellFounded
<1>2. PICK x \in S : \A y \in S : ~(<<y, x>> \in R)
  BY <1>1, MinimalOfNats
<1>3. ASSUME NEW y \in S PROVE x <= y
  <2>1. x \in Nat /\ y \in Nat
    OBVIOUS
  <2>2. ~(y < x)
    BY <1>1, <1>2, <2>1
  <2> QED BY <2>1, <2>2
<1> QED BY <1>3 DEF Min

\* RemoveAt takes out one position; what stood at any other one is kept.
LEMMA RemoveAtKeeps ==
    ASSUME NEW S, NEW s \in Seq(S), NEW m \in 1..Len(s)
    PROVE  /\ RemoveAt(s, m) \in Seq(S)
           /\ \A i \in 1..Len(s) : i # m => Contains(RemoveAt(s, m), s[i])
<1> DEFINE a == SubSeq(s, 1, m - 1)
           b == SubSeq(s, m + 1, Len(s))
           r == RemoveAt(s, m)
<1>1. a \in Seq(S) /\ Len(a) = m - 1 /\ \A j \in 1..m-1 : a[j] = s[j]
  OBVIOUS
<1>2. b \in Seq(S) /\ Len(b) = Len(s) - m /\ \A j \in 1..Len(s)-m : b[j] = s[m + j]
  OBVIOUS
<1>3. r = a \o b
  BY DEF RemoveAt
<1> HIDE DEF a, b
<1>4. r \in Seq(S) /\ Len(r) = Len(s) - 1
  BY <1>1, <1>2, <1>3
<1> HIDE DEF r
<1>5. ASSUME NEW i \in 1..Len(s), i < m PROVE \E j \in 1..Len(r) : r[j] = s[i]
  <2>1. i \in 1..Len(a) /\ i \in 1..Len(r)
    BY <1>1, <1>4, <1>5
  <2>2. r[i] = a[i]
    BY <1>1, <1>2, <1>3, <2>1
  <2> QED BY <2>1, <2>2, <1>1, <1>5
<1>6. ASSUME NEW i \in 1..Len(s), i > m PROVE \E j \in 1..Len(r) : r[j] = s[i]
  <2>1. i - 1 \in 1..Len(r) /\ i - m \in 1..Len(b)
    BY <1>2, <1>4, <1>6
  <2>2. r[i - 1] = b[i - m]
    BY <1>1, <1>2, <1>3, <2>1, <1>6
  <2>3. b[i - m] = s[i]
    BY <1>2, <2>1
  <2> QED BY <2>1, <2>2, <2>3
<1> QED BY <1>4, <1>5, <1>6 DEF Contains, r

\* RemoveFirst takes out one occurrence of e; every other element is kept.
LEMMA RemoveFirstKeeps ==
    ASSUME NEW S, NEW s \in Seq(S), NEW e
    PROVE  /\ RemoveFirst(s, e) \in Seq(S)
           /\ \A x : x # e /\ Contains(s, x) => Contains(RemoveFirst(s, e), x)
<1>1. CASE \E i \in 1..Len(s) : s[i] = e
  <2> DEFINE I == {i \in 1..Len(s) : s[i] = e}
             m == Min(I)
  <2>1. m \in 1..Len(s) /\ s[m] = e
    <3>1. I \in SUBSET Nat /\ I # {}
      BY <1>1
    <3> HIDE DEF I
    <3>2. m \in I
      BY <3>1, MinOfNats
    <3> QED BY <3>2 DEF I
  <2>2. RemoveFirst(s, e) = RemoveAt(s, m)
    BY <1>1 DEF RemoveFirst, SelectInSeq
  <2> HIDE DEF m
  <2>3. /\ RemoveAt(s, m) \in Seq(S)
        /\ \A i \in 1..Len(s) : i # m => Contains(RemoveAt(s, m), s[i])
    BY <2>1, RemoveAtKeeps
  <2> QED BY <2>1, <2>2, <2>3 DEF Contains
<1>2. CASE ~\E i \in 1..Len(s) : s[i] = e
  BY <1>2 DEF RemoveFirst
<1> QED BY <1>1, <1>2

\* An element appended is contained, and nothing that was is lost.
LEMMA AppendKeeps ==
    ASSUME NEW S, NEW s \in Seq(S), NEW e \in S
    PROVE  /\ Append(s, e) \in Seq(S) /\ Contains(Append(s, e), e)
           /\ \A x : Contains(s, x) => Contains(Append(s, e), x)
<1>1. /\ Append(s, e) \in Seq(S) /\ Len(Append(s, e)) = Len(s) + 1
      /\ Append(s, e)[Len(s) + 1] = e
      /\ \A i \in 1..Len(s) : Append(s, e)[i] = s[i]
  OBVIOUS
<1> QED BY <1>1 DEF Contains

\* A concatenation contains what either part contains.
LEMMA ConcatKeeps ==
    ASSUME NEW S, NEW s \in Seq(S), NEW t \in Seq(S)
    PROVE  /\ s \o t \in Seq(S)
           /\ \A x : Contains(s, x) \/ Contains(t, x) => Contains(s \o t, x)
<1>1. s \o t \in Seq(S) /\ Len(s \o t) = Len(s) + Len(t)
  OBVIOUS
<1>2. \A i \in 1..Len(s) : i \in 1..Len(s \o t) /\ (s \o t)[i] = s[i]
  OBVIOUS
<1>3. \A i \in 1..Len(t) : Len(s) + i \in 1..Len(s \o t) /\ (s \o t)[Len(s) + i] = t[i]
  OBVIOUS
<1> QED BY <1>1, <1>2, <1>3 DEF Contains

\* Taking the head off a queue loses nothing but the head.
LEMMA TailKeeps ==
    ASSUME NEW S, NEW s \in Seq(S), s # << >>
    PROVE  /\ Tail(s) \in Seq(S) /\ Head(s) \in S
           /\ \A x : x # Head(s) /\ Contains(s, x) => Contains(Tail(s), x)
<1>1. /\ Tail(s) \in Seq(S) /\ Head(s) \in S /\ Head(s) = s[1]
      /\ Len(Tail(s)) = Len(s) - 1 /\ Len(s) \in Nat
      /\ \A i \in 1..Len(s) - 1 : Tail(s)[i] = s[i + 1]
  OBVIOUS
<1>2. ASSUME NEW x, x # Head(s), NEW i \in 1..Len(s), s[i] = x
      PROVE  \E j \in 1..Len(Tail(s)) : Tail(s)[j] = x
  <2>1. i # 1 /\ i - 1 \in 1..Len(s) - 1
    BY <1>1, <1>2
  <2>2. Tail(s)[i - 1] = s[i]
    BY <1>1, <2>1
  <2> QED BY <1>1, <1>2, <2>1, <2>2
<1> QED BY <1>1, <1>2 DEF Contains
=============================================================================
