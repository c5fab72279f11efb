---------------------------- MODULE SequenceLemmas ----------------------------
(***************************************************************************)
(* What the operators of the community modules that the models use return. *)
(***************************************************************************)
EXTENDS SequencesExt, Naturals, FiniteSetTheorems, SequenceTheorems,
        WellFoundedInduction, TLAPS

(* A non-empty set of naturals has a least element: the sets of the numbers *)
(* below each of its elements have a minimal one for strict inclusion.      *)
LEMMA LeastExists ==
  ASSUME NEW S \in SUBSET Nat, S # {}
  PROVE  \E x \in S : \A y \in S : x =< y
<1> DEFINE Below(x) == {k \in Nat : k < x}
           B == {Below(x) : x \in S}
<1>1. \A x \in S : Below(x) \in FiniteSubsetsOf(Nat)
  <2> SUFFICES ASSUME NEW x \in S
               PROVE  IsFiniteSet(Below(x))
    BY DEF FiniteSubsetsOf
  <2>1. Below(x) \in SUBSET Nat /\ x \in Nat /\ \A k \in Below(x) : k =< x
    OBVIOUS
  <2> HIDE DEF Below
  <2>. QED
    BY <2>1, FS_BoundedSetOfNaturals
<1>2. B # {} /\ B \subseteq FiniteSubsetsOf(Nat)
  BY <1>1
<1>3. PICK b \in B : \A c \in B : ~ (<<c, b>> \in StrictSubsetOrdering(Nat))
  <2> HIDE DEF B
  <2>. QED
    BY <1>2, WFMin, FS_StrictSubsetOrderingWellFounded
<1>4. PICK x \in S : b = Below(x)
  OBVIOUS
<1>5. ASSUME NEW y \in S
      PROVE  x =< y
  <2>1. ~ (<<Below(y), Below(x)>> \in StrictSubsetOrdering(Nat))
    BY <1>3, <1>4
  <2>2. ~ (Below(y) \subseteq Below(x) /\ Below(y) # Below(x))
    BY <2>1 DEF StrictSubsetOrdering
  <2>3. y < x => Below(y) \subseteq Below(x) /\ y \in Below(x) /\ y \notin Below(y)
    OBVIOUS
  <2>. QED
    BY <2>2, <2>3
<1>. QED
  BY <1>5

(* Min of a non-empty set of naturals is its least element.                 *)
LEMMA MinIsLeast ==
  ASSUME NEW S \in SUBSET Nat, S # {}
  PROVE  /\ Min(S) \in S
         /\ \A x \in S : Min(S) =< x
BY LeastExists DEF Min

(* Max of a non-empty set of naturals up to n is its greatest element.      *)
LEMMA MaxIsGreatest ==
  ASSUME NEW n \in Nat, NEW S \in SUBSET (1..n), S # {}
  PROVE  /\ Max(S) \in S
         /\ \A x \in S : x =< Max(S)
<1> DEFINE R == {r \in 0..n : n - r \in S}
<1>1. \A x \in S : n - x \in R
  <2> SUFFICES ASSUME NEW x \in S
               PROVE  n - x \in 0..n /\ n - (n - x) \in S
    OBVIOUS
  <2>1. x \in 1..n /\ n - (n - x) = x
    OBVIOUS
  <2>. QED
    BY <2>1
<1>2. R \in SUBSET Nat /\ R # {}
  <2>1. PICK x \in S : TRUE
    OBVIOUS
  <2>2. R # {}
    BY <1>1, <2>1
  <2>. QED
    BY <2>2
<1> HIDE DEF R
<1>3. PICK r \in R : \A y \in R : r =< y
  BY <1>2, LeastExists
<1>4. r \in 0..n /\ n - r \in S
  BY DEF R
<1>5. ASSUME NEW y \in S
      PROVE  y =< n - r
  <2>1. r =< n - y /\ y \in 1..n
    BY <1>1, <1>3
  <2>. QED
    BY <1>4, <2>1
<1>6. \A y \in S : n - r >= y
  BY <1>4, <1>5
<1>7. /\ Max(S) \in S
      /\ \A y \in S : Max(S) >= y
  BY <1>4, <1>6 DEF Max
<1>. QED
  BY <1>7

(* The sequence without its last element.                                   *)
LEMMA FrontProperties ==
  ASSUME NEW E, NEW s \in Seq(E), s # <<>>
  PROVE  /\ Front(s) \in Seq(E) /\ Len(Front(s)) = Len(s) - 1
         /\ \A j \in 1..(Len(s) - 1) : Front(s)[j] = s[j]
<1> DEFINE n == Len(s) - 1
<1>1. n \in Nat /\ \A j \in 1..n : s[j] \in E
  OBVIOUS
<1> HIDE DEF n
<1>2. /\ SubSeq(s, 1, n) \in Seq(E)
      /\ Len(SubSeq(s, 1, n)) = n
      /\ \A j \in 1..n : SubSeq(s, 1, n)[j] = s[j]
  BY <1>1, SubSeqProperties
<1>. QED
  BY <1>2 DEF n, Front

(* Removing position i of a sequence closes the gap.                        *)
LEMMA RemoveAtProperties ==
  ASSUME NEW E, NEW s \in Seq(E), NEW i \in 1..Len(s)
  PROVE  /\ RemoveAt(s, i) \in Seq(E)
         /\ Len(RemoveAt(s, i)) = Len(s) - 1
         /\ \A j \in 1..(Len(s) - 1) :
              RemoveAt(s, i)[j] = IF j < i THEN s[j] ELSE s[j+1]
<1> DEFINE a == SubSeq(s, 1, i-1)
           b == SubSeq(s, i+1, Len(s))
<1>1. Len(s) \in Nat
  OBVIOUS
<1>2. /\ a \in Seq(E) /\ Len(a) = i - 1
      /\ \A j \in 1..(i-1) : a[j] = s[j]
  BY <1>1, SubSeqProperties
<1>3. /\ b \in Seq(E) /\ Len(b) = Len(s) - i
      /\ \A j \in 1..(Len(s) - i) : b[j] = s[i + j]
  <2>1. CASE i = Len(s)
    <3>1. b = <<>>
      BY <2>1, <1>1, SubSeqEmpty
    <3>. QED
      BY <2>1, <3>1, <1>1
  <2>2. CASE i # Len(s)
    BY <2>2, <1>1, SubSeqProperties
  <2>. QED
    BY <2>1, <2>2
<1> HIDE DEF a, b
<1>4. /\ a \o b \in Seq(E)
      /\ Len(a \o b) = Len(a) + Len(b)
      /\ \A j \in 1..(Len(a) + Len(b)) :
           (a \o b)[j] = IF j <= Len(a) THEN a[j] ELSE b[j - Len(a)]
  BY <1>2, <1>3, ConcatProperties
<1>5. ASSUME NEW j \in 1..(Len(s) - 1)
      PROVE  (a \o b)[j] = IF j < i THEN s[j] ELSE s[j+1]
  <2>1. CASE j < i
    BY <2>1, <1>1, <1>2, <1>3, <1>4
  <2>2. CASE ~ (j < i)
    <3>1. (a \o b)[j] = b[j - (i - 1)] /\ j - (i - 1) \in 1..(Len(s) - i)
      BY <2>2, <1>1, <1>2, <1>3, <1>4
    <3>2. b[j - (i - 1)] = s[i + (j - (i - 1))]
      BY <3>1, <1>3
    <3>. QED
      BY <2>2, <3>1, <3>2, <1>1
  <2>. QED
    BY <2>1, <2>2
<1>6. RemoveAt(s, i) = a \o b
  BY DEF RemoveAt, a, b
<1>7. Len(a \o b) = Len(s) - 1
  BY <1>1, <1>2, <1>3, <1>4
<1>. QED
  BY <1>4, <1>5, <1>6, <1>7

(* The sequence holds no element twice.                                     *)
Injective(s) == \A i, j \in 1..Len(s) : s[i] = s[j] => i = j

(* RemoveFirst takes e out of an injective sequence and nothing else.       *)
LEMMA RemoveFirstProperties ==
  ASSUME NEW E, NEW s \in Seq(E), NEW e, Injective(s)
  PROVE  /\ RemoveFirst(s, e) \in Seq(E)
         /\ Injective(RemoveFirst(s, e))
         /\ \A x : Contains(RemoveFirst(s, e), x) <=> Contains(s, x) /\ x # e
<1>1. CASE ~ \E i \in 1..Len(s) : s[i] = e
  BY <1>1 DEF RemoveFirst, Contains
<1>2. CASE \E i \in 1..Len(s) : s[i] = e
  <2>1. PICK i \in 1..Len(s) : s[i] = e
    BY <1>2
  <2>2. {k \in 1..Len(s) : s[k] = e} = {i}
    BY <2>1 DEF Injective
  <2>3. Min({i}) = i
    BY DEF Min
  <2>4. RemoveFirst(s, e) = RemoveAt(s, i)
    BY <1>2, <2>2, <2>3 DEF RemoveFirst, SelectInSeq
  <2> DEFINE r == RemoveAt(s, i)
  <2>5. /\ r \in Seq(E) /\ Len(r) = Len(s) - 1
        /\ \A j \in 1..Len(r) : r[j] = IF j < i THEN s[j] ELSE s[j+1]
    BY RemoveAtProperties
  <2>6. Len(s) \in Nat
    OBVIOUS
  <2> HIDE DEF r
  <2>7. Injective(r)
    <3> SUFFICES ASSUME NEW j \in 1..Len(r), NEW k \in 1..Len(r), r[j] = r[k]
                 PROVE  j = k
      BY DEF Injective
    <3>1. PICK j1 \in 1..Len(s) : j1 = (IF j < i THEN j ELSE j+1) /\ r[j] = s[j1]
      BY <2>5, <2>6
    <3>2. PICK k1 \in 1..Len(s) : k1 = (IF k < i THEN k ELSE k+1) /\ r[k] = s[k1]
      BY <2>5, <2>6
    <3>3. j1 = k1
      BY <3>1, <3>2 DEF Injective
    <3>. QED
      BY <3>1, <3>2, <3>3, <2>5, <2>6
  <2>8. ASSUME NEW x
        PROVE  Contains(r, x) <=> Contains(s, x) /\ x # e
    <3>1. ASSUME NEW j \in 1..Len(r), r[j] = x
          PROVE  Contains(s, x) /\ x # e
      <4>1. PICK j1 \in 1..Len(s) : j1 = (IF j < i THEN j ELSE j+1) /\ r[j] = s[j1]
        BY <2>5, <2>6
      <4>2. j1 # i
        BY <4>1, <2>5, <2>6
      <4>. QED
        BY <4>1, <4>2, <3>1, <2>1 DEF Contains, Injective
    <3>2. ASSUME NEW j \in 1..Len(s), s[j] = x, x # e
          PROVE  Contains(r, x)
      <4>1. j # i
        BY <3>2, <2>1
      <4>2. PICK k \in 1..Len(r) : k = (IF j < i THEN j ELSE j-1)
        BY <4>1, <2>5, <2>6
      <4>3. r[k] = s[j]
        BY <4>1, <4>2, <2>5, <2>6
      <4>. QED
        BY <4>3, <3>2 DEF Contains
    <3>. QED
      BY <3>1, <3>2 DEF Contains
  <2>. QED
    BY <2>4, <2>5, <2>7, <2>8 DEF r
<1>. QED
  BY <1>1, <1>2

(* Whatever the sequence, RemoveFirst returns one over the same set.        *)
LEMMA RemoveFirstType ==
  ASSUME NEW E, NEW s \in Seq(E), NEW e
  PROVE  RemoveFirst(s, e) \in Seq(E)
<1> DEFINE I == {k \in 1..Len(s) : s[k] = e}
<1>1. CASE ~ \E i \in 1..Len(s) : s[i] = e
  BY <1>1 DEF RemoveFirst
<1>2. CASE \E i \in 1..Len(s) : s[i] = e
  <2>1. RemoveFirst(s, e) = RemoveAt(s, IF I # {} THEN Min(I) ELSE 0)
    BY <1>2, Zenon DEF RemoveFirst, SelectInSeq
  <2>2. I \in SUBSET Nat /\ I # {} /\ I \subseteq 1..Len(s)
    BY <1>2
  <2> HIDE DEF I
  <2>3. Min(I) \in 1..Len(s)
    BY <2>2, MinIsLeast
  <2>. QED
    BY <2>1, <2>2, <2>3, RemoveAtProperties
<1>. QED
  BY <1>1, <1>2

(* Appending an element that is absent keeps a sequence injective.          *)
LEMMA AppendAbsent ==
  ASSUME NEW E, NEW s \in Seq(E), NEW e \in E
  PROVE  /\ Append(s, e) \in Seq(E)
         /\ \A x : Contains(Append(s, e), x) <=> Contains(s, x) \/ x = e
         /\ Injective(s) /\ ~Contains(s, e) => Injective(Append(s, e))
<1>1. /\ Append(s, e) \in Seq(E) /\ Len(Append(s, e)) = Len(s) + 1
      /\ \A i \in 1..Len(s) : Append(s, e)[i] = s[i]
      /\ Append(s, e)[Len(s) + 1] = e
      /\ Len(s) \in Nat
  OBVIOUS
<1>2. ASSUME NEW x
      PROVE  Contains(Append(s, e), x) <=> Contains(s, x) \/ x = e
  <2>1. Contains(Append(s, e), x) => Contains(s, x) \/ x = e
    BY <1>1 DEF Contains
  <2>2. Contains(s, x) => Contains(Append(s, e), x)
    BY <1>1 DEF Contains
  <2>3. Contains(Append(s, e), e)
    BY <1>1 DEF Contains
  <2>. QED
    BY <2>1, <2>2, <2>3
<1>3. Injective(s) /\ ~Contains(s, e) => Injective(Append(s, e))
  BY <1>1 DEF Injective, Contains
<1>. QED
  BY <1>1, <1>2, <1>3
================================================================================
