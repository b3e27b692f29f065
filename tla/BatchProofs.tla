-------------------------- MODULE BatchProofs --------------------------
(***************************************************************************)
(* What holds of Batch for every list of repositories, every history of    *)
(* each, every number of releases asked for and every concurrency: first   *)
(* the pairs of a history, in every pairing mode, then the batch.          *)
(***************************************************************************)
EXTENDS Batch, SequenceTheorems, FiniteSetTheorems, WellFoundedInduction, TLAPS

-----------------------------------------------------------------------------
(* Numbers and the order of version keys                                   *)

\* Every set of numbers has a least one.
LEMMA LeastNat ==
  ASSUME NEW T, T \subseteq Nat, T # {}
  PROVE  \E x \in T : \A y \in T : ~ (y < x)
<1> DEFINE R == OpToRel(<, Nat)
<1>1. IsWellFoundedOn(R, Nat)
  BY NatLessThanWellFounded
<1>2. R = {ss \in Nat \X Nat : ss[1] < ss[2]}
  BY DEF OpToRel
<1> HIDE DEF R
<1>3. \E x \in T : \A y \in T : ~ (<<y, x>> \in R)
  BY <1>1, WFMin
<1> QED BY <1>2, <1>3

\* Induction over the numbers, on a set.
LEMMA SetInduction ==
  ASSUME NEW S, 0 \in S, \A n \in Nat : n \in S => n + 1 \in S
  PROVE  Nat \subseteq S
<1> SUFFICES ASSUME ~(Nat \subseteq S) PROVE FALSE OBVIOUS
<1>1. PICK x \in Nat \ S : \A y \in Nat \ S : ~ (y < x)
  BY LeastNat
<1>2. x # 0 OBVIOUS
<1>3. x - 1 \in Nat BY <1>2
<1>4. x - 1 \in S BY <1>1, <1>3
<1> QED BY <1>4, <1>3

\* Version keys are compared at the first place where they differ.
LEMMA LessKeys ==
  ASSUME NEW v \in VersionKeys, NEW w \in VersionKeys
  PROVE  Less(v, w) <=> \/ v[1] < w[1]
                        \/ v[1] = w[1] /\ v[2] < w[2]
                        \/ v[1] = w[1] /\ v[2] = w[2] /\ v[3] < w[3]
<1>1. v = <<v[1], v[2], v[3]>> /\ w = <<w[1], w[2], w[3]>>
  BY DEF VersionKeys
<1>2. DOMAIN v = 1..3
  BY <1>1
<1>3. \A i \in 1..3 : i = 1 \/ i = 2 \/ i = 3
  OBVIOUS
<1>4. 1..(1 - 1) = {} /\ 1..(2 - 1) = {1} /\ 1..(3 - 1) = {1, 2}
  OBVIOUS
<1> QED BY <1>2, <1>3, <1>4 DEF Less

\* R is a strict order of S that leaves no two elements incomparable.
IsOrder(S, R) ==
  /\ \A x \in S : <<x, x>> \notin R
  /\ \A x, y, z \in S : <<x, y>> \in R /\ <<y, z>> \in R => <<x, z>> \in R
  /\ \A x, y \in S : x = y \/ <<x, y>> \in R \/ <<y, x>> \in R

LEMMA LessOrder ==
  /\ \A v \in VersionKeys : ~Less(v, v)
  /\ \A u, v, w \in VersionKeys : Less(u, v) /\ Less(v, w) => Less(u, w)
  /\ \A v, w \in VersionKeys : v = w \/ Less(v, w) \/ Less(w, v)
  /\ \A v, w \in VersionKeys : v[1] < w[1] => Less(v, w)
  /\ \A v, w \in VersionKeys : Less(v, w) => v[1] <= w[1]
  /\ \A v \in VersionKeys : v # <<>> /\ v[1] \in Nat
<1>1. \A v \in VersionKeys : v[1] \in Nat /\ v[2] \in Nat /\ v[3] \in Nat
                             /\ v = <<v[1], v[2], v[3]>>
  BY DEF VersionKeys
<1>2. \A v \in VersionKeys : ~Less(v, v)
  BY <1>1, LessKeys
<1>3. ASSUME NEW u \in VersionKeys, NEW v \in VersionKeys, NEW w \in VersionKeys,
             Less(u, v), Less(v, w)
      PROVE  Less(u, w)
  <2>1. /\ u[1] \in Nat /\ u[2] \in Nat /\ u[3] \in Nat
        /\ v[1] \in Nat /\ v[2] \in Nat /\ v[3] \in Nat
        /\ w[1] \in Nat /\ w[2] \in Nat /\ w[3] \in Nat
    BY <1>1
  <2> QED BY <1>3, <2>1, LessKeys
<1>4. ASSUME NEW v \in VersionKeys, NEW w \in VersionKeys, v # w
      PROVE  Less(v, w) \/ Less(w, v)
  <2>1. v[1] # w[1] \/ v[2] # w[2] \/ v[3] # w[3]
    BY <1>1, <1>4
  <2>2. /\ v[1] \in Nat /\ v[2] \in Nat /\ v[3] \in Nat
        /\ w[1] \in Nat /\ w[2] \in Nat /\ w[3] \in Nat
    BY <1>1
  <2> QED BY <2>1, <2>2, LessKeys
<1>5. \A v, w \in VersionKeys : v[1] < w[1] => Less(v, w)
  BY LessKeys
<1>6. \A v, w \in VersionKeys : Less(v, w) => v[1] <= w[1]
  BY <1>1, LessKeys
<1>7. \A v \in VersionKeys : v # <<>>
  <2> SUFFICES ASSUME NEW v \in VersionKeys, v = <<>> PROVE FALSE
    OBVIOUS
  <2>1. v = <<v[1], v[2], v[3]>>
    BY <1>1
  <2>2. Len(v) = 3
    BY <2>1
  <2> QED BY <2>2
<1> QED BY <1>1, <1>2, <1>3, <1>4, <1>5, <1>6, <1>7

-----------------------------------------------------------------------------
(* Sorting                                                                 *)

\* A finite ordered set has a last element.
LEMMA LastExists ==
  ASSUME NEW S, NEW R, IsOrder(S, R), IsFiniteSet(S), S # {}
  PROVE  \E m \in S : \A x \in S \ {m} : <<x, m>> \in R
<1> DEFINE HasLast(T) == \E m \in T : \A x \in T \ {m} : <<x, m>> \in R
           P == {n \in Nat : \A T \in SUBSET S : Cardinality(T) = n + 1 => HasLast(T)}
<1>1. 0 \in P
  <2> SUFFICES ASSUME NEW T \in SUBSET S, Cardinality(T) = 0 + 1 PROVE HasLast(T)
    OBVIOUS
  <2>1. IsFiniteSet(T) /\ Cardinality(T) = 1
    BY FS_Subset
  <2>2. PICK x : T = {x}
    BY <2>1, FS_Singleton
  <2> QED BY <2>2
<1>2. ASSUME NEW n \in Nat, n \in P PROVE n + 1 \in P
  <2> SUFFICES ASSUME NEW T \in SUBSET S, Cardinality(T) = (n + 1) + 1 PROVE HasLast(T)
    OBVIOUS
  <2>1. IsFiniteSet(T) /\ T # {}
    BY FS_Subset, FS_EmptySet
  <2>2. PICK x : x \in T
    BY <2>1
  <2>3. T \ {x} \in SUBSET S /\ Cardinality(T \ {x}) = n + 1
    <3>1. Cardinality(T \ {x}) = Cardinality(T) - 1
      BY <2>1, <2>2, FS_RemoveElement
    <3> QED BY <3>1
  <2>4. PICK m \in T \ {x} : \A y \in (T \ {x}) \ {m} : <<y, m>> \in R
    BY <1>2, <2>3
  <2>5. CASE <<x, m>> \in R
    BY <2>4, <2>5
  <2>6. CASE <<m, x>> \in R
    <3>1. \A y \in T \ {x} : <<y, x>> \in R
      BY <2>2, <2>4, <2>6 DEF IsOrder
    <3> QED BY <2>2, <3>1
  <2> QED BY <2>2, <2>4, <2>5, <2>6 DEF IsOrder
<1> HIDE DEF P
<1>3. Nat \subseteq P
  BY <1>1, <1>2, SetInduction
<1>4. Cardinality(S) \in Nat \ {0}
  BY FS_CardinalityType, FS_EmptySet
<1>5. Cardinality(S) - 1 \in P /\ (Cardinality(S) - 1) + 1 = Cardinality(S)
  BY <1>3, <1>4
<1> QED BY <1>5 DEF P

\* s lists the elements of T, each once, in the order R.
SortsInto(s, T, R) ==
  /\ s \in [1..Cardinality(T) -> T]
  /\ Range(s) = T
  /\ \A i, j \in 1..Cardinality(T) : i < j => <<s[i], s[j]>> \in R

\* A finite ordered set can be sorted, so that Sorted does it.
LEMMA SortedExists ==
  ASSUME NEW S, NEW R, IsOrder(S, R), IsFiniteSet(S)
  PROVE  \E s : SortsInto(s, S, R)
<1> DEFINE P == {n \in Nat : \A T \in SUBSET S : Cardinality(T) = n => \E s : SortsInto(s, T, R)}
<1>1. 0 \in P
  <2> SUFFICES ASSUME NEW T \in SUBSET S, Cardinality(T) = 0 PROVE \E s : SortsInto(s, T, R)
    OBVIOUS
  <2>1. T = {} /\ 1..0 = {}
    BY FS_Subset, FS_EmptySet
  <2> DEFINE s == [i \in 1..0 |-> i]
  <2>2. s \in [1..0 -> T] /\ Range(s) = T
    BY <2>1 DEF Range
  <2> QED BY <2>1, <2>2 DEF SortsInto
<1>2. ASSUME NEW n \in Nat, n \in P PROVE n + 1 \in P
  <2> SUFFICES ASSUME NEW T \in SUBSET S, Cardinality(T) = n + 1 PROVE \E s : SortsInto(s, T, R)
    OBVIOUS
  <2>1. IsFiniteSet(T) /\ T # {} /\ IsOrder(T, R)
    BY FS_Subset, FS_EmptySet DEF IsOrder
  <2>2. PICK m \in T : \A x \in T \ {m} : <<x, m>> \in R
    BY <2>1, LastExists
  <2> DEFINE U == T \ {m}
  <2>3. U \in SUBSET S /\ Cardinality(U) = n
    <3>1. Cardinality(U) = Cardinality(T) - 1
      BY <2>1, <2>2, FS_RemoveElement
    <3> QED BY <3>1
  <2>4. PICK s : SortsInto(s, U, R)
    BY <1>2, <2>3
  <2>5. s \in [1..n -> U] /\ Range(s) = U /\ \A i, j \in 1..n : i < j => <<s[i], s[j]>> \in R
    BY <2>3, <2>4 DEF SortsInto
  <2> DEFINE r == [i \in 1..(n + 1) |-> IF i = n + 1 THEN m ELSE s[i]]
  <2>6. r[n + 1] = m /\ (\A i \in 1..n : r[i] = s[i]) /\ DOMAIN r = 1..(n + 1)
    OBVIOUS
  <2>7. \A i \in 1..(n + 1) : i \in 1..n \/ i = n + 1
    OBVIOUS
  <2>8. r \in [1..(n + 1) -> T]
    BY <2>2, <2>5
  <2> HIDE DEF r
  <2>9. Range(r) = T
    <3>1. \A x \in U : \E i \in 1..n : s[i] = x
      BY <2>5 DEF Range
    <3>2. \A x \in T : \E i \in 1..(n + 1) : r[i] = x
      BY <2>6, <3>1
    <3> QED BY <2>6, <2>8, <3>2 DEF Range
  <2>10. ASSUME NEW i \in 1..(n + 1), NEW j \in 1..(n + 1), i < j
         PROVE  <<r[i], r[j]>> \in R
    <3>1. i \in 1..n /\ r[i] = s[i] /\ s[i] \in U
      BY <2>5, <2>6, <2>10
    <3>2. CASE j = n + 1
      BY <2>2, <2>6, <3>1, <3>2
    <3>3. CASE j \in 1..n
      BY <2>5, <2>6, <2>10, <3>1, <3>3
    <3> QED BY <2>7, <3>2, <3>3
  <2> QED BY <2>8, <2>9, <2>10 DEF SortsInto
<1> HIDE DEF P
<1>3. Nat \subseteq P
  BY <1>1, <1>2, SetInduction
<1>4. Cardinality(S) \in Nat
  BY FS_CardinalityType
<1> QED BY <1>3, <1>4 DEF P

LEMMA SortedLists ==
  ASSUME NEW S, NEW R, IsOrder(S, R), IsFiniteSet(S)
  PROVE  /\ Sorted(S, R) \in Seq(S) /\ Len(Sorted(S, R)) \in Nat
         /\ DOMAIN Sorted(S, R) = 1..Len(Sorted(S, R))
         /\ Range(Sorted(S, R)) = S
         /\ \A i, j \in DOMAIN Sorted(S, R) :
              i < j => <<Sorted(S, R)[i], Sorted(S, R)[j]>> \in R
<1> DEFINE Good(s) == Range(s) = S /\ \A i, j \in DOMAIN s : i < j => <<s[i], s[j]>> \in R
<1>1. \E s \in [1..Cardinality(S) -> S] : Good(s)
  <2>1. PICK s : SortsInto(s, S, R)
    BY SortedExists
  <2>2. DOMAIN s = 1..Cardinality(S)
    BY <2>1 DEF SortsInto
  <2> QED BY <2>1, <2>2 DEF SortsInto
<1>2. Sorted(S, R) = CHOOSE s \in [1..Cardinality(S) -> S] : Good(s)
  BY DEF Sorted
<1> HIDE DEF Good
<1>3. Sorted(S, R) \in [1..Cardinality(S) -> S] /\ Good(Sorted(S, R))
  BY <1>1, <1>2
<1>4. Cardinality(S) \in Nat
  BY FS_CardinalityType
<1>5. /\ Sorted(S, R) \in Seq(S) /\ Len(Sorted(S, R)) = Cardinality(S)
      /\ Len(Sorted(S, R)) \in Nat
  BY <1>3, <1>4
<1> QED BY <1>3, <1>4, <1>5 DEF Good

\* A sorted sequence has no element twice, and its order tells the places.
LEMMA SortedPlaces ==
  ASSUME NEW S, NEW R, IsOrder(S, R), IsFiniteSet(S),
         NEW i \in DOMAIN Sorted(S, R), NEW j \in DOMAIN Sorted(S, R)
  PROVE  /\ Sorted(S, R)[i] \in S
         /\ Sorted(S, R)[i] = Sorted(S, R)[j] <=> i = j
         /\ <<Sorted(S, R)[i], Sorted(S, R)[j]>> \in R <=> i < j
<1> DEFINE s == Sorted(S, R)
<1>1. /\ s \in Seq(S) /\ DOMAIN s = 1..Len(s) /\ Len(s) \in Nat
      /\ \A k, l \in DOMAIN s : k < l => <<s[k], s[l]>> \in R
  BY SortedLists
<1>2. s[i] \in S /\ s[j] \in S
  BY <1>1
<1>3. i = j \/ i < j \/ j < i
  BY <1>1
<1>4. ~(i < i) /\ ~(j < j) /\ (i < j => ~(j < i))
  BY <1>1
<1> HIDE DEF s
<1> QED BY <1>1, <1>2, <1>3, <1>4 DEF IsOrder, s

\* Places of a sequence are finitely many, in the order of the numbers.
LEMMA PlacesOrdered ==
  ASSUME NEW n \in Nat, NEW I \in SUBSET (1..n)
  PROVE  IsOrder(I, Ascends(I)) /\ IsFiniteSet(I)
<1>1. IsFiniteSet(I)
  <2>1. IsFiniteSet(1..n)
    BY FS_Interval
  <2> QED BY <2>1, FS_Subset
<1>2. \A i \in I : i \in Nat
  OBVIOUS
<1>3. \A i, j \in I : <<i, j>> \in Ascends(I) <=> i < j
  BY DEF Ascends
<1> QED BY <1>1, <1>2, <1>3 DEF IsOrder

\* What is picked of s, and in which order.
LEMMA PickedOf ==
  ASSUME NEW T, NEW s \in Seq(T), NEW I \in SUBSET DOMAIN s
  PROVE  /\ Picked(s, I) \in Seq(T)
         /\ Range(Picked(s, I)) = {s[i] : i \in I}
         /\ \A a, b \in DOMAIN Picked(s, I) :
              a < b => \E i, j \in I : i < j /\ Picked(s, I)[a] = s[i] /\ Picked(s, I)[b] = s[j]
<1> DEFINE places == Sorted(I, Ascends(I))
           picked == [k \in DOMAIN places |-> s[places[k]]]
<1>1. Len(s) \in Nat /\ DOMAIN s = 1..Len(s) /\ (\A i \in I : s[i] \in T /\ i \in Nat)
  OBVIOUS
<1>2. IsOrder(I, Ascends(I)) /\ IsFiniteSet(I)
  BY <1>1, PlacesOrdered
<1>3. /\ places \in Seq(I) /\ DOMAIN places = 1..Len(places) /\ Range(places) = I
      /\ \A a, b \in DOMAIN places : a < b => <<places[a], places[b]>> \in Ascends(I)
  BY <1>2, SortedLists
<1>4. Picked(s, I) = picked
  BY DEF Picked
<1> HIDE DEF places
<1>5. \A a \in DOMAIN places : places[a] \in I /\ picked[a] = s[places[a]]
  BY <1>3
<1>6. DOMAIN picked = DOMAIN places
  OBVIOUS
<1>7. Len(places) \in Nat
  BY <1>3
<1>8. picked \in Seq(T)
  BY <1>1, <1>3, <1>5, <1>7
<1> HIDE DEF picked
<1>9. \A i \in I : \E a \in DOMAIN picked : picked[a] = s[i]
  BY <1>3, <1>5, <1>6 DEF Range
<1>10. Range(picked) = {s[i] : i \in I}
  BY <1>5, <1>6, <1>9 DEF Range
<1>11. ASSUME NEW a \in DOMAIN picked, NEW b \in DOMAIN picked, a < b
       PROVE  \E i, j \in I : i < j /\ picked[a] = s[i] /\ picked[b] = s[j]
  <2>1. places[a] < places[b]
    BY <1>3, <1>6, <1>11 DEF Ascends
  <2> QED BY <1>5, <1>6, <2>1
<1> QED BY <1>4, <1>8, <1>10, <1>11

-----------------------------------------------------------------------------
(* Histories                                                               *)

\* Every tag has one place in the list.
LEMMA TagPlaces ==
  ASSUME NEW h, IsHistory(h)
  PROVE  /\ h.tags \in Seq(Range(h.tags)) /\ Len(h.tags) \in Nat
         /\ DOMAIN h.tags = 1..Len(h.tags)
         /\ \A i, j \in DOMAIN h.tags : h.tags[i] = h.tags[j] => i = j
         /\ \A t \in Range(h.tags) : \E i \in DOMAIN h.tags : h.tags[i] = t
         /\ \A i \in DOMAIN h.tags : h.tags[i] \in Range(h.tags)
<1>1. h.tags \in Seq(Range(h.tags)) /\ IsInjective(h.tags)
  BY DEF IsHistory
<1>2. \A i, j \in DOMAIN h.tags : h.tags[i] = h.tags[j] => i = j
  BY <1>1 DEF IsInjective
<1> QED BY <1>1, <1>2 DEF Range

\* The order of the list is a strict order of the tags.
LEMMA ListOrder ==
  ASSUME NEW h, IsHistory(h)
  PROVE  /\ \A s \in Range(h.tags) : ~ListedBefore(h, s, s)
         /\ \A s, t, u \in Range(h.tags) :
              ListedBefore(h, s, t) /\ ListedBefore(h, t, u) => ListedBefore(h, s, u)
         /\ \A s, t \in Range(h.tags) : s = t \/ ListedBefore(h, s, t) \/ ListedBefore(h, t, s)
         /\ \A i, j \in DOMAIN h.tags : ListedBefore(h, h.tags[i], h.tags[j]) <=> i < j
<1> DEFINE s == h.tags
<1>1. /\ Len(s) \in Nat /\ DOMAIN s = 1..Len(s)
      /\ \A i, j \in DOMAIN s : s[i] = s[j] => i = j
      /\ \A t \in Range(s) : \E i \in DOMAIN s : s[i] = t
  BY TagPlaces
<1>2. \A x, y : ListedBefore(h, x, y) <=> \E i, j \in DOMAIN s : i < j /\ s[i] = x /\ s[j] = y
  BY DEF ListedBefore
<1> HIDE DEF s
<1>3. \A i, j \in DOMAIN s : ListedBefore(h, s[i], s[j]) <=> i < j
  BY <1>1, <1>2
<1>4. \A i \in DOMAIN s : ~(i < i)
  BY <1>1
<1>5. \A i, j, k \in DOMAIN s : i < j /\ j < k => i < k
  BY <1>1
<1>6. \A i, j \in DOMAIN s : i = j \/ i < j \/ j < i
  BY <1>1
<1>7. \A x \in Range(s) : ~ListedBefore(h, x, x)
  BY <1>1, <1>3, <1>4
<1>8. \A x, y, z \in Range(s) :
              ListedBefore(h, x, y) /\ ListedBefore(h, y, z) => ListedBefore(h, x, z)
  BY <1>1, <1>3, <1>5
<1>9. \A x, y \in Range(s) : x = y \/ ListedBefore(h, x, y) \/ ListedBefore(h, y, x)
  BY <1>1, <1>3, <1>6
<1> QED BY <1>3, <1>7, <1>8, <1>9 DEF s

\* A version has a key, and its tag is listed.
LEMMA VersionKey ==
  ASSUME NEW h, IsHistory(h), NEW t \in Versioned(h)
  PROVE  h.version[t] \in VersionKeys /\ t \in Range(h.tags)
BY DEF Versioned, IsHistory

LEMMA VersionsFinite ==
  ASSUME NEW h, IsHistory(h), NEW S \in SUBSET Versioned(h)
  PROVE  IsFiniteSet(S)
<1>1. Len(h.tags) \in Nat /\ DOMAIN h.tags = 1..Len(h.tags)
  BY TagPlaces
<1>2. IsFiniteSet(1..Len(h.tags))
  BY <1>1, FS_Interval
<1>3. IsFiniteSet(Range(h.tags))
  <2>1. h.tags \in [1..Len(h.tags) -> Range(h.tags)]
    BY <1>1, TagPlaces
  <2>2. \A t \in Range(h.tags) : \E i \in 1..Len(h.tags) : h.tags[i] = t
    BY <1>1, TagPlaces
  <2>3. h.tags \in Surjection(1..Len(h.tags), Range(h.tags))
    BY <2>1, <2>2 DEF Surjection
  <2> QED BY <1>2, <2>3, FS_Surjection
<1>4. S \subseteq Range(h.tags)
  BY DEF Versioned
<1> QED BY <1>3, <1>4, FS_Subset

\* Versions have a strict order, ascending and descending.
LEMMA VersionsOrdered ==
  ASSUME NEW h, IsHistory(h), NEW S \in SUBSET Versioned(h)
  PROVE  IsOrder(S, OldFirst(h)) /\ IsOrder(S, NewFirst(h))
<1> DEFINE v(t) == h.version[t]
           B(s, t) == ListedBefore(h, s, t)
<1>1. \A t \in S : v(t) \in VersionKeys
  BY VersionKey
<1>2. /\ \A s \in S : ~B(s, s)
      /\ \A s, t, u \in S : B(s, t) /\ B(t, u) => B(s, u)
      /\ \A s, t \in S : s = t \/ B(s, t) \/ B(t, s)
  BY ListOrder, VersionKey
<1>3. \A s, t \in S : /\ <<s, t>> \in OldFirst(h) <=> Less(v(s), v(t)) \/ (v(s) = v(t) /\ B(s, t))
                      /\ <<s, t>> \in NewFirst(h) <=> Less(v(t), v(s)) \/ (v(s) = v(t) /\ B(s, t))
  BY DEF OldFirst, NewFirst
<1>4. /\ \A s \in S : ~Less(v(s), v(s))
      /\ \A s, t, u \in S : Less(v(s), v(t)) /\ Less(v(t), v(u)) => Less(v(s), v(u))
      /\ \A s, t \in S : v(s) = v(t) \/ Less(v(s), v(t)) \/ Less(v(t), v(s))
  BY <1>1, LessOrder
<1> HIDE DEF v, B
<1>5. IsOrder(S, OldFirst(h))
  <2>1. \A x \in S : <<x, x>> \notin OldFirst(h)
    BY <1>2, <1>3, <1>4
  <2>2. \A x, y, z \in S :
          <<x, y>> \in OldFirst(h) /\ <<y, z>> \in OldFirst(h) => <<x, z>> \in OldFirst(h)
    BY <1>2, <1>3, <1>4
  <2>3. \A x, y \in S : x = y \/ <<x, y>> \in OldFirst(h) \/ <<y, x>> \in OldFirst(h)
    BY <1>2, <1>3, <1>4
  <2> QED BY <2>1, <2>2, <2>3 DEF IsOrder
<1>6. IsOrder(S, NewFirst(h))
  <2>1. \A x \in S : <<x, x>> \notin NewFirst(h)
    BY <1>2, <1>3, <1>4
  <2>2. \A x, y, z \in S :
          <<x, y>> \in NewFirst(h) /\ <<y, z>> \in NewFirst(h) => <<x, z>> \in NewFirst(h)
    BY <1>2, <1>3, <1>4
  <2>3. \A x, y \in S : x = y \/ <<x, y>> \in NewFirst(h) \/ <<y, x>> \in NewFirst(h)
    BY <1>2, <1>3, <1>4
  <2> QED BY <2>1, <2>2, <2>3 DEF IsOrder
<1> QED BY <1>5, <1>6

\* The history cut to the tags that are listed is a history.
LEMMA FirstOfSeq ==
  ASSUME NEW T, NEW s \in Seq(T), NEW n \in Nat
  PROVE  /\ FirstOf(s, n) \in Seq(T)
         /\ Len(FirstOf(s, n)) = IF n < Len(s) THEN n ELSE Len(s)
         /\ \A i \in 1..Len(FirstOf(s, n)) : i \in DOMAIN s /\ FirstOf(s, n)[i] = s[i]
BY DEF FirstOf

LEMMA ListedHistory ==
  ASSUME NEW h, IsHistory(h), NEW mode, NEW limit, LimitsAssumption
  PROVE  IsHistory(Listed(h, mode, limit))
<1> DEFINE most == IF limit \notin {NoLimit, 0} \/ mode # "chronological"
                    THEN PerMajorLimit ELSE ChronoLimit
           tags == FirstOf(h.tags, most)
           l == Listed(h, mode, limit)
<1>1. most \in Nat
  BY DEF LimitsAssumption
<1> HIDE DEF most
<1>2. h = [tags |-> h.tags, version |-> h.version, sha |-> h.sha, older |-> h.older,
           recent |-> h.recent]
  BY DEF IsHistory
<1>3. l = [tags |-> tags, version |-> h.version, sha |-> h.sha, older |-> h.older,
           recent |-> h.recent]
  BY <1>2 DEF Listed, most
<1>4. h.tags \in Seq(Range(h.tags)) /\ IsInjective(h.tags)
  BY DEF IsHistory
<1>5. /\ tags \in Seq(Range(h.tags)) /\ Len(tags) <= Len(h.tags)
      /\ \A i \in 1..Len(tags) : i \in DOMAIN h.tags /\ tags[i] = h.tags[i]
  BY <1>1, <1>4, FirstOfSeq
<1> HIDE DEF tags
<1>6. DOMAIN tags = 1..Len(tags) /\ Len(tags) \in Nat
  BY <1>5
<1>7. IsInjective(tags)
  BY <1>4, <1>5, <1>6 DEF IsInjective
<1>8. tags \in Seq(Range(tags))
  <2>1. \A i \in 1..Len(tags) : tags[i] \in Range(tags)
    BY <1>6 DEF Range
  <2> QED BY <1>5, <1>6, <2>1
<1>9. Range(tags) \subseteq Range(h.tags)
  BY <1>5, <1>6 DEF Range
<1>10. \A t \in Range(tags) : h.version[t] \in VersionKeys \cup {<<>>}
  BY <1>9 DEF IsHistory
<1> HIDE DEF l
<1>11. /\ l.tags = tags /\ l.version = h.version /\ l.sha = h.sha /\ l.older = h.older
       /\ l.recent = h.recent
  BY <1>3
<1> QED BY <1>3, <1>7, <1>8, <1>10, <1>11 DEF IsHistory, l

\* A sequence reversed has its places counted from the end.
LEMMA Reversed ==
  ASSUME NEW T, NEW s \in Seq(T)
  PROVE  /\ Reverse(s) \in Seq(T) /\ Len(Reverse(s)) = Len(s)
         /\ \A i \in 1..Len(s) : /\ Len(s) - i + 1 \in 1..Len(s)
                                 /\ Reverse(s)[i] = s[Len(s) - i + 1]
<1>1. Len(s) \in Nat /\ DOMAIN s = 1..Len(s)
  OBVIOUS
<1>2. \A i \in 1..Len(s) : /\ Len(s) - i + 1 \in 1..Len(s)
                           /\ (Len(s) - i) + 1 = Len(s) - i + 1
                           /\ s[Len(s) - i + 1] \in T
  BY <1>1
<1> QED BY <1>1, <1>2 DEF Reverse

-----------------------------------------------------------------------------
(* The default mode                                                        *)

\* In a descending order nothing is followed by a greater version.
LEMMA NewFirstFalls ==
  ASSUME NEW h, IsHistory(h), NEW s \in Versioned(h), NEW t \in Versioned(h),
         <<s, t>> \in NewFirst(h)
  PROVE  ~Less(h.version[s], h.version[t])
<1>1. Less(h.version[t], h.version[s]) \/ h.version[s] = h.version[t]
  BY DEF NewFirst
<1>2. h.version[s] \in VersionKeys /\ h.version[t] \in VersionKeys
  BY VersionKey
<1> QED BY <1>1, <1>2, LessOrder

\* The candidates of a target: all of its stream first, and of each stream the
\* newest first.
LEMMA CandidatesOf ==
  ASSUME NEW h, IsHistory(h), NEW t \in Versioned(h)
  PROVE  LET C == Candidates(h, t)
         IN  /\ Len(C) \in Nat /\ DOMAIN C = 1..Len(C)
             /\ \A i \in DOMAIN C : C[i] \in Older(h, t)
             /\ \A u \in Older(h, t) : \E i \in DOMAIN C : C[i] = u
             /\ \A i, j \in DOMAIN C :
                  i < j => /\ InStream(h, C[j], t) => InStream(h, C[i], t)
                           /\ (InStream(h, C[i], t) <=> InStream(h, C[j], t))
                                => <<C[i], C[j]>> \in NewFirst(h)
<1> DEFINE C == Candidates(h, t)
           same == {s \in Older(h, t) : InStream(h, s, t)}
           other == Older(h, t) \ same
           A == Sorted(same, NewFirst(h))
           B == Sorted(other, NewFirst(h))
<1>1. same \in SUBSET Versioned(h) /\ other \in SUBSET Versioned(h)
  BY DEF Older
<1>2. /\ \A s \in same : s \in Older(h, t) /\ InStream(h, s, t)
      /\ \A s \in other : s \in Older(h, t) /\ ~InStream(h, s, t)
      /\ \A s \in Older(h, t) : s \in same \/ s \in other
  OBVIOUS
<1>3. C = A \o B
  BY DEF Candidates
<1> HIDE DEF same, other
<1>4. /\ IsOrder(same, NewFirst(h)) /\ IsFiniteSet(same)
      /\ IsOrder(other, NewFirst(h)) /\ IsFiniteSet(other)
  BY <1>1, VersionsOrdered, VersionsFinite
<1>5. /\ A \in Seq(same) /\ DOMAIN A = 1..Len(A) /\ Len(A) \in Nat /\ Range(A) = same
      /\ \A i, j \in DOMAIN A : i < j => <<A[i], A[j]>> \in NewFirst(h)
  BY <1>4, SortedLists
<1>6. /\ B \in Seq(other) /\ DOMAIN B = 1..Len(B) /\ Len(B) \in Nat /\ Range(B) = other
      /\ \A i, j \in DOMAIN B : i < j => <<B[i], B[j]>> \in NewFirst(h)
  BY <1>4, SortedLists
<1> HIDE DEF A, B, C
<1>7. /\ Len(C) = Len(A) + Len(B) /\ DOMAIN C = 1..Len(C) /\ Len(C) \in Nat
      /\ \A i \in 1..Len(A) : i \in DOMAIN C /\ C[i] = A[i] /\ C[i] \in same
      /\ \A i \in 1..Len(B) : i + Len(A) \in DOMAIN C /\ C[i + Len(A)] = B[i]
  BY <1>5, <1>6, <1>3
<1>8. \A i \in DOMAIN C : i \in 1..Len(A) \/ (i - Len(A) \in 1..Len(B) /\ i > Len(A)
                                             /\ C[i] = B[i - Len(A)] /\ C[i] \in other)
  BY <1>5, <1>6, <1>3, <1>7
<1>9. \A i \in DOMAIN C : C[i] \in Older(h, t)
  BY <1>2, <1>7, <1>8
<1>10. \A u \in Older(h, t) : \E i \in DOMAIN C : C[i] = u
  <2>1. \A u \in same : \E i \in 1..Len(A) : A[i] = u
    BY <1>5 DEF Range
  <2>2. \A u \in other : \E i \in 1..Len(B) : B[i] = u
    BY <1>6 DEF Range
  <2> QED BY <1>2, <1>7, <2>1, <2>2
<1>11. ASSUME NEW i \in DOMAIN C, NEW j \in DOMAIN C, i < j
       PROVE  /\ InStream(h, C[j], t) => InStream(h, C[i], t)
              /\ (InStream(h, C[i], t) <=> InStream(h, C[j], t))
                   => <<C[i], C[j]>> \in NewFirst(h)
  <2>1. CASE i \in 1..Len(A) /\ j \in 1..Len(A)
    BY <1>5, <1>2, <1>7, <1>11, <2>1
  <2>2. CASE i \in 1..Len(A) /\ j \notin 1..Len(A)
    BY <1>2, <1>7, <1>8, <2>2
  <2>3. CASE i \notin 1..Len(A)
    <3>1. j > Len(A) /\ j \notin 1..Len(A) /\ i > Len(A)
      BY <1>5, <1>7, <1>8, <1>11, <2>3
    <3>2. /\ i - Len(A) \in DOMAIN B /\ j - Len(A) \in DOMAIN B
          /\ C[i] = B[i - Len(A)] /\ C[j] = B[j - Len(A)]
          /\ C[i] \in other /\ C[j] \in other
      BY <1>6, <1>8, <2>3, <3>1
    <3>3. i - Len(A) < j - Len(A)
      BY <1>5, <1>7, <1>11
    <3> QED BY <1>6, <1>2, <3>2, <3>3
  <2> QED BY <2>1, <2>2, <2>3
<1> QED BY <1>7, <1>9, <1>10, <1>11 DEF C

\* The source is the closest version, and every target that has one is found.
LEMMA SourceClosest ==
  ASSUME NEW h, IsHistory(h), NEW t \in Versioned(h), Ancestors(h, t) # {}
  PROVE  Closest(h, SourceOf(h, t), t)
<1> DEFINE C == Candidates(h, t)
           P == Ancestors(h, t)
           First(i) == \A j \in P : i <= j
           s == SourceOf(h, t)
<1>1. /\ Len(C) \in Nat /\ DOMAIN C = 1..Len(C)
      /\ \A i \in DOMAIN C : C[i] \in Older(h, t)
      /\ \A u \in Older(h, t) : \E i \in DOMAIN C : C[i] = u
      /\ \A i, j \in DOMAIN C :
           i < j => /\ InStream(h, C[j], t) => InStream(h, C[i], t)
                    /\ (InStream(h, C[i], t) <=> InStream(h, C[j], t))
                         => <<C[i], C[j]>> \in NewFirst(h)
  BY CandidatesOf
<1>2. P = {i \in DOMAIN C : IsAncestor(h, C[i], t)}
  BY DEF Ancestors
<1>3. s = C[CHOOSE i \in P : First(i)]
  BY DEF SourceOf
<1> HIDE DEF C, P, s
<1>4. \E i \in P : First(i)
  <2>1. P \subseteq Nat /\ P # {}
    BY <1>1, <1>2 DEF P
  <2>2. PICK i \in P : \A j \in P : ~ (j < i)
    BY <2>1, LeastNat
  <2> QED BY <2>1, <2>2
<1> HIDE DEF First
<1>5. PICK i \in P : First(i) /\ s = C[i]
  BY <1>3, <1>4
<1>6. i \in DOMAIN C /\ s \in Older(h, t) /\ IsAncestor(h, s, t)
  BY <1>1, <1>2, <1>5
<1>7. s \in Versioned(h) /\ h.version[s] \in VersionKeys
  BY <1>6, VersionKey DEF Older
<1>8. ASSUME NEW u \in Versioned(h), Less(h.version[u], h.version[t]), h.sha[u] # h.sha[t],
             IsAncestor(h, u, t)
      PROVE  /\ InStream(h, u, t) => InStream(h, s, t)
             /\ (InStream(h, u, t) <=> InStream(h, s, t))
                  => ~Less(h.version[s], h.version[u])
  <2>1. u \in Older(h, t)
    BY <1>8 DEF Older
  <2>2. PICK j \in P : C[j] = u
    BY <1>1, <1>2, <1>8, <2>1
  <2>3. i <= j /\ j \in DOMAIN C
    BY <1>2, <1>5 DEF First
  <2>4. CASE i = j
    BY <1>5, <1>7, <2>2, <2>4, LessOrder
  <2>5. CASE i < j
    <3>1. /\ InStream(h, u, t) => InStream(h, s, t)
          /\ (InStream(h, s, t) <=> InStream(h, u, t)) => <<s, u>> \in NewFirst(h)
      BY <1>1, <1>5, <1>6, <2>2, <2>3, <2>5
    <3>2. <<s, u>> \in NewFirst(h) => ~Less(h.version[s], h.version[u])
      BY <1>7, NewFirstFalls
    <3> QED BY <3>1, <3>2
  <2>6. i = j \/ i < j
    BY <1>1, <1>6, <2>3
  <2> QED BY <2>4, <2>5, <2>6
<1>9. Less(h.version[s], h.version[t]) /\ h.sha[s] # h.sha[t]
  BY <1>6 DEF Older
<1> QED BY <1>6, <1>7, <1>8, <1>9 DEF Closest, s, InStream

LEMMA ClosestFound ==
  ASSUME NEW h, IsHistory(h), NEW t \in Versioned(h), NEW s \in Versioned(h), Closest(h, s, t)
  PROVE  Ancestors(h, t) # {} /\ s # t
<1>1. Less(h.version[s], h.version[t]) /\ h.sha[s] # h.sha[t] /\ IsAncestor(h, s, t)
  BY DEF Closest
<1>2. s \in Older(h, t)
  BY <1>1 DEF Older
<1>3. PICK i \in DOMAIN Candidates(h, t) : Candidates(h, t)[i] = s
  BY <1>2, CandidatesOf
<1>4. i \in Ancestors(h, t)
  BY <1>1, <1>3 DEF Ancestors
<1> QED BY <1>1, <1>4

\* That a source in the stream of its target is preferred decides nothing: the highest of
\* the older ancestors is in that stream if any of them is.
THEOREM HighestIsClosest ==
  \A h : IsHistory(h) =>
    \A t \in Versioned(h) :
      LET Known == {u \in Versioned(h) : /\ Less(h.version[u], h.version[t])
                                         /\ h.sha[u] # h.sha[t] /\ IsAncestor(h, u, t)}
      IN  \A s : Closest(h, s, t)
                   <=> s \in Known /\ \A u \in Known : ~Less(h.version[s], h.version[u])
<1> SUFFICES ASSUME NEW h, IsHistory(h), NEW t \in Versioned(h), NEW s
             PROVE  LET Known == {u \in Versioned(h) : /\ Less(h.version[u], h.version[t])
                                                       /\ h.sha[u] # h.sha[t]
                                                       /\ IsAncestor(h, u, t)}
                    IN  Closest(h, s, t)
                          <=> s \in Known /\ \A u \in Known : ~Less(h.version[s], h.version[u])
  OBVIOUS
<1> DEFINE Known == {u \in Versioned(h) : /\ Less(h.version[u], h.version[t])
                                          /\ h.sha[u] # h.sha[t] /\ IsAncestor(h, u, t)}
           v(u) == h.version[u]
           Same(u) == InStream(h, u, t)
<1>1. Closest(h, s, t) <=> /\ s \in Known
                           /\ \A u \in Known : Same(u) => Same(s)
                           /\ \A u \in Known : Same(u) = Same(s) => ~Less(v(s), v(u))
  BY DEF Closest
<1>2. \A u \in Known : v(u) \in VersionKeys /\ Less(v(u), v(t))
  BY VersionKey
<1>3. v(t) \in VersionKeys
  BY VersionKey
<1>4. \A u : Same(u) <=> v(u)[1] = v(t)[1] /\ v(u)[2] = v(t)[2]
  BY DEF InStream, Stream
<1>5. \A k \in VersionKeys : k[1] \in Nat /\ k[2] \in Nat /\ k[3] \in Nat
  BY DEF VersionKeys
<1> HIDE DEF Known, v, Same
<1>6. ASSUME NEW u \in Known, NEW w \in Known, Same(u), ~Same(w)
      PROVE  Less(v(w), v(u))
  <2>1. v(u) \in VersionKeys /\ v(w) \in VersionKeys /\ Less(v(w), v(t))
    BY <1>2
  <2> QED BY <1>3, <1>4, <1>5, <1>6, <2>1, LessKeys
<1>7. \A u, w \in Known : Less(v(u), v(w)) => ~Less(v(w), v(u))
  BY <1>2, LessOrder
<1>8. ASSUME Closest(h, s, t) PROVE s \in Known /\ \A u \in Known : ~Less(v(s), v(u))
  <2>1. s \in Known /\ (\A u \in Known : Same(u) => Same(s))
    BY <1>1, <1>8
  <2>2. ASSUME NEW u \in Known PROVE ~Less(v(s), v(u))
    <3>1. CASE Same(s) /\ ~Same(u)
      BY <1>6, <1>7, <2>1, <3>1
    <3>2. CASE ~(Same(s) /\ ~Same(u))
      <4>1. Same(u) <=> Same(s)
        BY <2>1, <3>2
      <4>2. Same(u) = Same(s)
        BY <4>1 DEF Same, InStream
      <4> QED BY <1>1, <1>8, <4>2
    <3> QED BY <3>1, <3>2
  <2> QED BY <2>1, <2>2
<1>9. ASSUME s \in Known, \A u \in Known : ~Less(v(s), v(u)) PROVE Closest(h, s, t)
  <2>1. \A u \in Known : Same(u) => Same(s)
    BY <1>6, <1>9
  <2> QED BY <1>1, <1>9, <2>1
<1> QED BY <1>8, <1>9 DEF Known, v

\* What AncestryPairs returns is correct.
LEMMA AncestryPairsCorrect ==
  ASSUME NEW h, IsHistory(h), NEW limit \in {NoLimit} \cup Nat
  PROVE  AncestryCorrect(h, limit, AncestryPairs(h, limit))
<1> DEFINE W == {t \in Versioned(h) : Ancestors(h, t) # {} /\ Dated(h, limit, t)}
           targets == Sorted(W, NewFirst(h))
           found == [i \in DOMAIN targets |-> <<SourceOf(h, targets[i]), targets[i]>>]
           cut == IF limit = NoLimit THEN found ELSE FirstOf(found, limit)
           n == Len(cut)
           pairs == AncestryPairs(h, limit)
           V == Versioned(h)
           Pair(k) == <<SourceOf(h, targets[k]), targets[k]>>
<1>1. IsOrder(W, NewFirst(h)) /\ IsFiniteSet(W)
  BY VersionsOrdered, VersionsFinite
<1>2. /\ targets \in Seq(W) /\ DOMAIN targets = 1..Len(targets) /\ Range(targets) = W
      /\ Len(targets) \in Nat
      /\ \A i, j \in DOMAIN targets : i < j => <<targets[i], targets[j]>> \in NewFirst(h)
  BY <1>1, SortedLists
<1>3. \A t \in W : t \in V /\ Closest(h, SourceOf(h, t), t) /\ SourceOf(h, t) \in V
                   /\ Dated(h, limit, t)
  BY SourceClosest DEF Closest
<1>4. \A t \in V : Dated(h, limit, t) /\ (\E s \in V : Closest(h, s, t)) => t \in W
  BY ClosestFound
<1>5. pairs = Reverse(cut)
  BY DEF AncestryPairs
<1> HIDE DEF W, targets
<1>6. \A k \in 1..Len(targets) : targets[k] \in W /\ Pair(k) \in V \X V
  BY <1>2, <1>3
<1>7. found \in Seq(V \X V) /\ Len(found) = Len(targets)
      /\ \A k \in 1..Len(targets) : found[k] = Pair(k)
  BY <1>2, <1>6
<1> HIDE DEF found, Pair
<1>8. /\ cut \in Seq(V \X V) /\ n \in Nat /\ n <= Len(targets)
      /\ \A k \in 1..n : k \in 1..Len(targets) /\ cut[k] = Pair(k)
      /\ n # Len(targets) => limit # NoLimit /\ n = limit
  <2>1. CASE limit = NoLimit
    BY <1>2, <1>7, <2>1
  <2>2. CASE limit # NoLimit
    <3>1. limit \in Nat /\ cut = FirstOf(found, limit)
      BY <2>2
    <3>2. /\ cut \in Seq(V \X V)
          /\ n = IF limit < Len(found) THEN limit ELSE Len(found)
          /\ \A k \in 1..n : k \in DOMAIN found /\ cut[k] = found[k]
      BY <1>7, <3>1, FirstOfSeq
    <3>3. n \in Nat /\ n <= Len(targets) /\ (n # Len(targets) => n = limit)
      BY <1>2, <1>7, <3>1, <3>2
    <3>4. \A k \in 1..n : k \in 1..Len(targets) /\ cut[k] = Pair(k)
      BY <1>2, <1>7, <3>2, <3>3
    <3> QED BY <2>2, <3>2, <3>3, <3>4
  <2> QED BY <2>1, <2>2
<1> HIDE DEF cut
<1>9. /\ pairs \in Seq(V \X V) /\ Len(pairs) = n /\ DOMAIN pairs = 1..n
      /\ \A i \in 1..n : n - i + 1 \in 1..n /\ pairs[i] = Pair(n - i + 1)
  BY <1>5, <1>8, Reversed
<1> HIDE DEF pairs, n
<1>10. \A k \in 1..n : Pair(k)[1] = SourceOf(h, targets[k]) /\ Pair(k)[2] = targets[k]
  BY DEF Pair
<1>11. /\ \A p \in Range(pairs) : \E k \in 1..n : p = Pair(k)
       /\ \A k \in 1..n : Pair(k) \in Range(pairs)
  <2>1. \A k \in 1..n : n - (n - k + 1) + 1 = k /\ n - k + 1 \in 1..n
    BY <1>8
  <2>2. \A k \in 1..n : pairs[n - k + 1] = Pair(k)
    BY <1>9, <2>1
  <2> QED BY <1>9, <2>1, <2>2 DEF Range
<1> DEFINE Wanted == {t \in V : (\E s \in V : Closest(h, s, t)) /\ Dated(h, limit, t)}
           Targets == {p[2] : p \in Range(pairs)}
<1>12. \A k \in 1..n : targets[k] \in W /\ targets[k] \in V
  BY <1>3, <1>6, <1>8
<1>13. \A p \in Range(pairs) : Closest(h, p[1], p[2])
  BY <1>3, <1>10, <1>11, <1>12
<1>14. Targets \subseteq Wanted
  BY <1>3, <1>10, <1>11, <1>12
<1>15. ASSUME NEW i \in DOMAIN pairs, NEW j \in DOMAIN pairs, i < j
       PROVE  /\ pairs[i][2] # pairs[j][2]
              /\ ~Less(h.version[pairs[j][2]], h.version[pairs[i][2]])
  <2> DEFINE a == n - i + 1
             b == n - j + 1
  <2>1. a \in 1..n /\ b \in 1..n /\ b < a
    BY <1>8, <1>9, <1>15
  <2>2. pairs[i][2] = targets[a] /\ pairs[j][2] = targets[b]
    <3>1. pairs[i] = Pair(a) /\ pairs[j] = Pair(b)
      BY <1>9, <1>15
    <3> HIDE DEF a, b
    <3> QED BY <1>10, <2>1, <3>1
  <2> HIDE DEF a, b
  <2>3. <<targets[b], targets[a]>> \in NewFirst(h) /\ targets[a] \in W /\ targets[b] \in W
    BY <1>2, <1>8, <1>12, <2>1
  <2>4. targets[a] # targets[b]
    BY <1>1, <2>3 DEF IsOrder
  <2>5. ~Less(h.version[targets[b]], h.version[targets[a]])
    BY <1>3, <2>3, NewFirstFalls
  <2> QED BY <2>2, <2>4, <2>5
<1>16. ASSUME NEW t \in Wanted \ Targets
       PROVE  /\ limit # NoLimit /\ Len(pairs) = limit
              /\ \A u \in Targets : ~Less(h.version[u], h.version[t])
  <2>1. t \in W
    BY <1>4
  <2>2. PICK k \in 1..Len(targets) : targets[k] = t
    BY <1>2, <2>1 DEF Range
  <2>3. k \notin 1..n
    BY <1>10, <1>11, <2>2
  <2>4. k > n /\ n # Len(targets)
    <3>1. n \in Nat /\ Len(targets) \in Nat
      BY <1>2, <1>8
    <3> QED BY <2>3, <3>1
  <2>5. limit # NoLimit /\ Len(pairs) = limit
    BY <1>8, <1>9, <2>4
  <2>6. ASSUME NEW u \in Targets PROVE ~Less(h.version[u], h.version[t])
    <3>1. PICK i \in 1..n : u = targets[i]
      BY <1>10, <1>11, <2>6
    <3>2. i < k /\ i \in DOMAIN targets /\ k \in DOMAIN targets
      BY <1>2, <1>8, <2>4
    <3>3. <<u, t>> \in NewFirst(h)
      BY <1>2, <2>2, <3>1, <3>2
    <3> QED BY <1>3, <1>12, <2>1, <3>1, <3>3, NewFirstFalls
  <2> QED BY <2>5, <2>6
<1> HIDE DEF Targets, Wanted
<1> QED BY <1>13, <1>14, <1>15, <1>16 DEF AncestryCorrect, Targets, Wanted, pairs

\* The neighbours in a sequence.
LEMMA ConsecutiveOf ==
  ASSUME NEW T, NEW s \in Seq(T)
  PROVE  /\ Consecutive(s) \in Seq(T \X T)
         /\ Len(Consecutive(s)) = IF Len(s) = 0 THEN 0 ELSE Len(s) - 1
         /\ \A i \in 1..Len(Consecutive(s)) :
              i \in DOMAIN s /\ i + 1 \in DOMAIN s /\ Consecutive(s)[i] = <<s[i], s[i + 1]>>
<1>1. Len(s) \in Nat /\ DOMAIN s = 1..Len(s)
  OBVIOUS
<1> DEFINE c == [i \in 1..(Len(s) - 1) |-> <<s[i], s[i + 1]>>]
<1>2. \A i \in 1..(Len(s) - 1) : /\ i \in DOMAIN s /\ i + 1 \in DOMAIN s
                                 /\ <<s[i], s[i + 1]>> \in T \X T
  BY <1>1
<1>3. Consecutive(s) = c /\ DOMAIN c = 1..(Len(s) - 1)
      /\ \A i \in 1..(Len(s) - 1) : c[i] = <<s[i], s[i + 1]>>
  BY DEF Consecutive
<1>4. CASE Len(s) = 0
  <2>1. 1..(Len(s) - 1) = 1..0
    BY <1>4
  <2> HIDE DEF c
  <2>2. c \in [1..0 -> T \X T]
    BY <1>2, <1>3, <2>1 DEF c
  <2>3. c \in Seq(T \X T) /\ Len(c) = 0
    BY <2>2
  <2> QED BY <1>2, <1>3, <1>4, <2>3
<1>5. CASE Len(s) # 0
  <2>1. Len(s) - 1 \in Nat
    BY <1>1, <1>5
  <2>2. c \in [1..(Len(s) - 1) -> T \X T]
    BY <1>2
  <2> HIDE DEF c
  <2>3. c \in Seq(T \X T) /\ Len(c) = Len(s) - 1
    BY <2>1, <2>2
  <2> QED BY <1>2, <1>3, <1>5, <2>3
<1> QED BY <1>4, <1>5

\* The last n elements, d places on.
LEMMA LastOfSeq ==
  ASSUME NEW T, NEW s \in Seq(T), NEW n \in Nat
  PROVE  /\ LastOf(s, n) \in Seq(T)
         /\ Len(LastOf(s, n)) = IF n < Len(s) THEN n ELSE Len(s)
         /\ \A i \in 1..Len(LastOf(s, n)) :
              LET d == Len(s) - Len(LastOf(s, n))
              IN  i + d \in DOMAIN s /\ LastOf(s, n)[i] = s[i + d]
<1>1. Len(s) \in Nat /\ DOMAIN s = 1..Len(s)
  OBVIOUS
<1>2. CASE n < Len(s)
  <2>1. LastOf(s, n) = SubSeq(s, Len(s) - n + 1, Len(s))
    BY <1>2 DEF LastOf
  <2> DEFINE a == Len(s) - n + 1
  <2>2. a \in 1..(Len(s) + 1)
    BY <1>1, <1>2
  <2>3. \A i \in a..Len(s) : i \in DOMAIN s /\ s[i] \in T
    BY <1>1, <2>2
  <2>4. /\ Len(s) - a + 1 = n
        /\ \A i \in 1..n : a + i - 1 = i + (Len(s) - n) /\ a + i - 1 \in a..Len(s)
    BY <1>1, <2>2
  <2>5. /\ SubSeq(s, a, Len(s)) \in Seq(T) /\ Len(SubSeq(s, a, Len(s))) = n
        /\ \A i \in 1..n : SubSeq(s, a, Len(s))[i] = s[a + i - 1]
    <3> HIDE DEF a
    <3> QED BY <1>1, <2>2, <2>3, <2>4, SubSeqProperties
  <2> QED BY <1>2, <2>1, <2>3, <2>4, <2>5
<1>3. CASE ~(n < Len(s))
  <2>1. LastOf(s, n) = SubSeq(s, 1, Len(s))
    BY <1>3 DEF LastOf
  <2>2. LastOf(s, n) = s
    BY <1>1, <2>1
  <2>3. Len(s) - Len(s) = 0 /\ \A i \in 1..Len(s) : i + 0 = i
    BY <1>1
  <2> QED BY <1>1, <1>3, <2>2, <2>3
<1> QED BY <1>2, <1>3

-----------------------------------------------------------------------------
(* The transitions of one major                                            *)

\* Versions of a lower major come first.
LEMMA MajorOrder ==
  ASSUME NEW h, IsHistory(h), NEW s \in Versioned(h), NEW t \in Versioned(h)
  PROVE  /\ Major(h, s) \in Nat
         /\ Major(h, s) < Major(h, t) => <<s, t>> \in OldFirst(h)
         /\ <<s, t>> \in OldFirst(h) => Major(h, s) <= Major(h, t)
<1>1. h.version[s] \in VersionKeys /\ h.version[t] \in VersionKeys
  BY VersionKey
<1>2. h.version[s][1] \in Nat /\ h.version[t][1] \in Nat
  BY <1>1, LessOrder
<1> QED BY <1>1, <1>2, LessOrder DEF Major, OldFirst

\* p is a transition of the major m.
Transition(h, m, p) ==
  /\ p \in Versioned(h) \X Versioned(h)
  /\ NextOfMajor(h, p[1], p[2]) /\ Major(h, p[2]) = m

\* The pairs of a major are its transitions, old to new.
LEMMA MajorPairsAre ==
  ASSUME NEW h, IsHistory(h), NEW m
  PROVE  /\ MajorPairs(h, m) \in Seq(Versioned(h) \X Versioned(h))
         /\ \A i \in DOMAIN MajorPairs(h, m) : Transition(h, m, MajorPairs(h, m)[i])
         /\ \A p : Transition(h, m, p) => \E i \in DOMAIN MajorPairs(h, m) : MajorPairs(h, m)[i] = p
         /\ \A i, j \in DOMAIN MajorPairs(h, m) :
              i < j => <<MajorPairs(h, m)[i][2], MajorPairs(h, m)[j][2]>> \in OldFirst(h)
<1> DEFINE V == Versioned(h)
           S == {t \in V : Major(h, t) = m}
           s == Sorted(S, OldFirst(h))
           c == Consecutive(s)
<1>1. IsOrder(S, OldFirst(h)) /\ IsFiniteSet(S) /\ IsOrder(V, OldFirst(h))
  BY VersionsOrdered, VersionsFinite
<1>2. MajorPairs(h, m) = c
  BY DEF MajorPairs
<1>3. \A t : t \in S <=> t \in V /\ Major(h, t) = m
  OBVIOUS
<1> HIDE DEF S
<1>4. /\ s \in Seq(S) /\ DOMAIN s = 1..Len(s) /\ Range(s) = S /\ Len(s) \in Nat
      /\ \A i, j \in DOMAIN s : i < j => <<s[i], s[j]>> \in OldFirst(h)
  BY <1>1, SortedLists
<1>5. \A i, j \in DOMAIN s : /\ s[i] \in S
                             /\ s[i] = s[j] <=> i = j
                             /\ <<s[i], s[j]>> \in OldFirst(h) <=> i < j
  BY <1>1, SortedPlaces
<1> HIDE DEF s
<1>6. /\ c \in Seq(S \X S)
      /\ Len(c) = IF Len(s) = 0 THEN 0 ELSE Len(s) - 1
      /\ \A i \in 1..Len(c) : i \in DOMAIN s /\ i + 1 \in DOMAIN s /\ c[i] = <<s[i], s[i + 1]>>
  BY <1>4, ConsecutiveOf
<1> HIDE DEF c, V
<1>7. Len(c) \in Nat /\ DOMAIN c = 1..Len(c) /\ (Len(s) # 0 => Len(c) = Len(s) - 1)
  BY <1>6
<1>8. c \in Seq(V \X V)
  <2>1. \A i \in 1..Len(c) : c[i] \in V \X V
    BY <1>3, <1>6, <1>7
  <2> QED BY <1>6, <1>7, <2>1
<1>9. ASSUME NEW i \in DOMAIN c PROVE Transition(h, m, c[i])
  <2>1. i \in DOMAIN s /\ i + 1 \in DOMAIN s /\ c[i][1] = s[i] /\ c[i][2] = s[i + 1]
        /\ i < i + 1
    <3>1. i \in DOMAIN s /\ i + 1 \in DOMAIN s /\ c[i] = <<s[i], s[i + 1]>>
      BY <1>6, <1>7
    <3>2. i < i + 1
      BY <1>4, <3>1
    <3> QED BY <3>1, <3>2
  <2>2. <<s[i], s[i + 1]>> \in OldFirst(h) /\ s[i] \in S /\ s[i + 1] \in S
    BY <1>4, <1>5, <2>1
  <2>3. Major(h, s[i]) = m /\ Major(h, s[i + 1]) = m /\ s[i] \in V /\ s[i + 1] \in V
    BY <1>3, <2>2
  <2>4. ASSUME NEW u \in V, <<s[i], u>> \in OldFirst(h), <<u, s[i + 1]>> \in OldFirst(h)
        PROVE  FALSE
    <3>1. m <= Major(h, u) /\ Major(h, u) <= m /\ Major(h, u) \in Nat /\ m \in Nat
      BY <2>3, <2>4, MajorOrder DEF V
    <3>2. u \in S
      BY <1>3, <3>1
    <3>3. PICK k \in DOMAIN s : s[k] = u
      BY <1>4, <3>2 DEF Range
    <3>4. i < k /\ k < i + 1
      BY <1>5, <2>1, <2>4, <3>3
    <3> QED BY <1>4, <2>1, <3>3, <3>4
  <2>5. NextOfMajor(h, c[i][1], c[i][2])
    BY <2>1, <2>2, <2>3, <2>4 DEF NextOfMajor, V
  <2>6. c[i] \in V \X V
    BY <1>7, <1>8
  <2> QED BY <2>1, <2>3, <2>5, <2>6 DEF Transition, V
<1>10. ASSUME NEW p, Transition(h, m, p) PROVE \E i \in DOMAIN c : c[i] = p
  <2>1. /\ p \in V \X V /\ p[1] \in S /\ p[2] \in S /\ <<p[1], p[2]>> \in OldFirst(h)
        /\ ~\E u \in V : <<p[1], u>> \in OldFirst(h) /\ <<u, p[2]>> \in OldFirst(h)
    BY <1>3, <1>10 DEF Transition, NextOfMajor, V
  <2>2. PICK i \in DOMAIN s, j \in DOMAIN s : s[i] = p[1] /\ s[j] = p[2]
    BY <1>4, <2>1 DEF Range
  <2>3. i < j
    BY <1>5, <2>1, <2>2
  <2>4. j = i + 1
    <3> SUFFICES ASSUME j # i + 1 PROVE FALSE
      OBVIOUS
    <3>1. i + 1 \in DOMAIN s /\ i < i + 1 /\ i + 1 < j
      BY <1>4, <2>3
    <3>2. <<s[i], s[i + 1]>> \in OldFirst(h) /\ <<s[i + 1], s[j]>> \in OldFirst(h)
          /\ s[i + 1] \in V
      BY <1>3, <1>4, <1>5, <3>1
    <3> QED BY <2>1, <2>2, <3>2
  <2>5. i \in 1..Len(c)
    <3>1. i \in 1..Len(s) /\ i + 1 \in 1..Len(s)
      BY <1>4, <2>4
    <3>2. Len(s) # 0
      <4> SUFFICES ASSUME Len(s) = 0 PROVE FALSE
        OBVIOUS
      <4>1. 1 <= i /\ i <= Len(s) /\ i \in Int
        BY <3>1
      <4> QED BY <4>1
    <3>3. Len(c) = Len(s) - 1
      BY <1>7, <3>2
    <3> QED BY <1>4, <3>1, <3>3
  <2>6. p = <<p[1], p[2]>>
    BY <2>1
  <2> QED BY <1>6, <1>7, <2>2, <2>4, <2>5, <2>6
<1>11. ASSUME NEW i \in DOMAIN c, NEW j \in DOMAIN c, i < j
       PROVE  <<c[i][2], c[j][2]>> \in OldFirst(h)
  <2>1. i + 1 \in DOMAIN s /\ j + 1 \in DOMAIN s /\ c[i][2] = s[i + 1] /\ c[j][2] = s[j + 1]
        /\ i + 1 < j + 1
    BY <1>6, <1>7, <1>11
  <2> QED BY <1>4, <2>1
<1> QED BY <1>2, <1>8, <1>9, <1>10, <1>11 DEF V

\* What is taken of a major when the pairs before it are there.
Part(h, limit, m, before) ==
  IF limit = NoLimit THEN MajorPairs(h, m) ELSE LastOf(MajorPairs(h, m), limit - Len(before))

LEMMA PartIs ==
  ASSUME NEW h, IsHistory(h), NEW m, NEW limit \in {NoLimit} \cup Nat, NEW before,
         limit # NoLimit => limit - Len(before) \in Nat
  PROVE  LET tail == Part(h, limit, m, before)
         IN  /\ tail \in Seq(Versioned(h) \X Versioned(h))
             /\ limit # NoLimit => Len(tail) <= limit - Len(before)
             /\ \A q \in Range(tail) : Transition(h, m, q)
             /\ \A i, j \in DOMAIN tail : i < j => <<tail[i][2], tail[j][2]>> \in OldFirst(h)
             /\ \A p : Transition(h, m, p) /\ p \notin Range(tail) =>
                  /\ limit # NoLimit /\ Len(tail) = limit - Len(before)
                  /\ \A q \in Range(tail) : <<p[2], q[2]>> \in OldFirst(h)
<1> DEFINE all == MajorPairs(h, m)
           tail == Part(h, limit, m, before)
           P == Versioned(h) \X Versioned(h)
<1>1. /\ all \in Seq(P)
      /\ \A i \in DOMAIN all : Transition(h, m, all[i])
      /\ \A p : Transition(h, m, p) => \E i \in DOMAIN all : all[i] = p
      /\ \A i, j \in DOMAIN all : i < j => <<all[i][2], all[j][2]>> \in OldFirst(h)
  BY MajorPairsAre
<1>2. CASE limit = NoLimit
  <2>1. tail = all
    BY <1>2 DEF Part
  <2> HIDE DEF all, tail
  <2>2. \A q \in Range(tail) : Transition(h, m, q)
    BY <1>1, <2>1 DEF Range
  <2>3. \A p : Transition(h, m, p) => p \in Range(tail)
    BY <1>1, <2>1 DEF Range
  <2> QED BY <1>1, <1>2, <2>1, <2>2, <2>3 DEF tail
<1>3. CASE limit # NoLimit
  <2> DEFINE n == limit - Len(before)
             d == Len(all) - Len(tail)
  <2>1. n \in Nat /\ tail = LastOf(all, n)
    BY <1>3 DEF Part
  <2> HIDE DEF n, all, P
  <2>2. /\ tail \in Seq(P)
        /\ Len(tail) = IF n < Len(all) THEN n ELSE Len(all)
        /\ \A i \in 1..Len(tail) : i + d \in DOMAIN all /\ tail[i] = all[i + d]
    BY <1>1, <2>1, LastOfSeq
  <2> HIDE DEF tail
  <2>3. /\ Len(tail) \in Nat /\ Len(all) \in Nat /\ DOMAIN tail = 1..Len(tail)
        /\ DOMAIN all = 1..Len(all) /\ d \in Nat /\ Len(tail) <= n
        /\ Len(all) = Len(tail) + d /\ (d # 0 => Len(tail) = n)
    BY <1>1, <2>1, <2>2
  <2> HIDE DEF d
  <2>4. \A q \in Range(tail) : Transition(h, m, q)
    BY <1>1, <2>2, <2>3 DEF Range
  <2>5. \A i, j \in DOMAIN tail : i < j => <<tail[i][2], tail[j][2]>> \in OldFirst(h)
    <3> SUFFICES ASSUME NEW i \in DOMAIN tail, NEW j \in DOMAIN tail, i < j
                 PROVE  <<tail[i][2], tail[j][2]>> \in OldFirst(h)
      OBVIOUS
    <3>1. i + d \in DOMAIN all /\ j + d \in DOMAIN all /\ i + d < j + d
          /\ tail[i] = all[i + d] /\ tail[j] = all[j + d]
      BY <2>2, <2>3
    <3> QED BY <1>1, <3>1
  <2>6. ASSUME NEW p, Transition(h, m, p), p \notin Range(tail)
        PROVE  Len(tail) = n /\ \A q \in Range(tail) : <<p[2], q[2]>> \in OldFirst(h)
    <3>1. PICK k \in DOMAIN all : all[k] = p
      BY <1>1, <2>6
    <3>2. k <= d
      <4> SUFFICES ASSUME k > d PROVE FALSE
        BY <2>3
      <4>1. k - d \in 1..Len(tail) /\ (k - d) + d = k
        BY <2>3
      <4>2. tail[k - d] = p
        BY <2>2, <3>1, <4>1
      <4> QED BY <2>3, <2>6, <4>1, <4>2 DEF Range
    <3>3. Len(tail) = n
      BY <2>3, <3>2
    <3>4. ASSUME NEW q \in Range(tail) PROVE <<p[2], q[2]>> \in OldFirst(h)
      <4>1. PICK i \in DOMAIN tail : q = tail[i]
        BY <3>4 DEF Range
      <4>2. i + d \in DOMAIN all /\ k < i + d /\ q = all[i + d]
        BY <2>2, <2>3, <3>2, <4>1
      <4> QED BY <1>1, <3>1, <4>2
    <3> QED BY <3>3, <3>4
  <2> QED BY <1>3, <2>2, <2>3, <2>4, <2>5, <2>6 DEF tail, n, P
<1> QED BY <1>2, <1>3

-----------------------------------------------------------------------------
(* One major after the other                                               *)

\* f holds the pairs of the first majors, up to each of the first n.
UpTo(h, limit, majors, f, n) ==
  /\ f[0] = <<>>
  /\ \A k \in 1..n : f[k] = f[k - 1] \o Part(h, limit, majors[k], f[k - 1])

\* The beginnings that PairsOf joins are a function.
LEMMA UpToExists ==
  ASSUME NEW h, NEW limit, NEW majors, NEW n \in Nat
  PROVE  \E f : f = [k \in 0..n |-> f[k]] /\ UpTo(h, limit, majors, f, n)
<1> DEFINE S == {m \in Nat : \E f : f = [k \in 0..m |-> f[k]] /\ UpTo(h, limit, majors, f, m)}
<1>1. 0 \in S
  <2> DEFINE f == [k \in 0..0 |-> <<>>]
  <2>1. f[0] = <<>> /\ f = [k \in 0..0 |-> f[k]]
    OBVIOUS
  <2> HIDE DEF f
  <2>2. UpTo(h, limit, majors, f, 0)
    BY <2>1 DEF UpTo
  <2> QED BY <2>1, <2>2
<1>2. ASSUME NEW m \in Nat, m \in S PROVE m + 1 \in S
  <2>1. PICK f : f = [k \in 0..m |-> f[k]] /\ UpTo(h, limit, majors, f, m)
    BY <1>2
  <2> DEFINE next == f[m] \o Part(h, limit, majors[m + 1], f[m])
             g == [k \in 0..(m + 1) |-> IF k = m + 1 THEN next ELSE f[k]]
  <2> HIDE DEF next
  <2>2. g[m + 1] = next /\ \A k \in 0..m : g[k] = f[k]
    OBVIOUS
  <2>3. g = [k \in 0..(m + 1) |-> g[k]]
    OBVIOUS
  <2> HIDE DEF g
  <2>4. g[0] = <<>>
    BY <2>1, <2>2 DEF UpTo
  <2>5. ASSUME NEW k \in 1..(m + 1)
        PROVE  g[k] = g[k - 1] \o Part(h, limit, majors[k], g[k - 1])
    <3>1. k - 1 \in 0..m /\ g[k - 1] = f[k - 1]
      <4>1. k - 1 \in 0..m
        OBVIOUS
      <4> QED BY <2>2, <4>1
    <3>2. CASE k \in 1..m
      <4>1. k \in 0..m
        BY <3>2
      <4>2. g[k] = f[k]
        BY <2>2, <4>1
      <4> QED BY <2>1, <3>1, <3>2, <4>2 DEF UpTo
    <3>3. CASE k = m + 1
      <4>1. k - 1 = m
        BY <3>3
      <4> QED BY <2>2, <3>1, <3>3, <4>1 DEF next
    <3>4. k \in 1..m \/ k = m + 1
      OBVIOUS
    <3> QED BY <3>2, <3>3, <3>4
  <2>6. UpTo(h, limit, majors, g, m + 1)
    BY <2>4, <2>5 DEF UpTo
  <2> QED BY <2>3, <2>6
<1> HIDE DEF S
<1>3. Nat \subseteq S
  BY <1>1, <1>2, SetInduction
<1> QED BY <1>3 DEF S

LEMMA PairsOfIs ==
  ASSUME NEW h, NEW limit, NEW majors, Len(majors) \in Nat
  PROVE  \E f : UpTo(h, limit, majors, f, Len(majors)) /\ PairsOf(h, limit, majors) = f[Len(majors)]
<1> DEFINE n == Len(majors)
           W(f) == f = [k \in 0..n |->
                          IF k = 0 THEN <<>>
                          ELSE f[k - 1] \o
                                 (IF limit = NoLimit THEN MajorPairs(h, majors[k])
                                  ELSE LastOf(MajorPairs(h, majors[k]), limit - Len(f[k - 1])))]
           g == CHOOSE f : W(f)
<1>1. PairsOf(h, limit, majors) = g[n]
  BY DEF PairsOf
<1> HIDE DEF g
<1>2. PICK f : f = [k \in 0..n |-> f[k]] /\ UpTo(h, limit, majors, f, n)
  BY UpToExists
<1>3. W(f)
  <2>1. \A k \in 0..n : k = 0 \/ k \in 1..n
    OBVIOUS
  <2>2. \A k \in 0..n : f[k] = IF k = 0 THEN <<>>
                               ELSE f[k - 1] \o
                                 (IF limit = NoLimit THEN MajorPairs(h, majors[k])
                                  ELSE LastOf(MajorPairs(h, majors[k]), limit - Len(f[k - 1])))
    BY <1>2, <2>1 DEF UpTo, Part
  <2> QED BY <1>2, <2>2
<1>4. W(g)
  <2> HIDE DEF W
  <2> QED BY <1>3 DEF g
<1>5. \A k \in 0..n : g[k] = IF k = 0 THEN <<>>
                             ELSE g[k - 1] \o
                               (IF limit = NoLimit THEN MajorPairs(h, majors[k])
                                ELSE LastOf(MajorPairs(h, majors[k]), limit - Len(g[k - 1])))
  BY <1>4
<1>6. 0 \in 0..n /\ \A k \in 1..n : k \in 0..n /\ k # 0
  OBVIOUS
<1>7. UpTo(h, limit, majors, g, n)
  BY <1>5, <1>6 DEF UpTo, Part
<1> QED BY <1>1, <1>7

\* The latest major comes first if the number of pairs is limited.
MajorsInOrder(limit, majors) ==
  \A i, j \in DOMAIN majors :
    i < j => IF limit = NoLimit THEN majors[i] < majors[j] ELSE majors[j] < majors[i]

\* What holds of the pairs of the first k majors.
Chained(h, limit, majors, k, pairs) ==
  /\ pairs \in Seq(Versioned(h) \X Versioned(h))
  /\ \A q \in Range(pairs) : \E j \in 1..k : Transition(h, majors[j], q)
  /\ limit # NoLimit => Len(pairs) <= limit
  /\ \A i, j \in DOMAIN pairs :
       i < j => IF limit # NoLimit /\ Major(h, pairs[i][2]) # Major(h, pairs[j][2])
                THEN <<pairs[j][2], pairs[i][2]>> \in OldFirst(h)
                ELSE <<pairs[i][2], pairs[j][2]>> \in OldFirst(h)
  /\ \A p : (\E j \in 1..k : Transition(h, majors[j], p)) /\ p \notin Range(pairs) =>
       /\ limit # NoLimit /\ Len(pairs) = limit
       /\ \A q \in Range(pairs) : <<p[2], q[2]>> \in OldFirst(h)

\* One major more.
LEMMA ChainedLonger ==
  ASSUME NEW h, IsHistory(h), NEW limit \in {NoLimit} \cup Nat, NEW majors \in Seq(Majors(h)),
         MajorsInOrder(limit, majors), NEW k \in Nat, k + 1 <= Len(majors), NEW before,
         Chained(h, limit, majors, k, before)
  PROVE  Chained(h, limit, majors, k + 1, before \o Part(h, limit, majors[k + 1], before))
<1> DEFINE V == Versioned(h)
           m == majors[k + 1]
           tail == Part(h, limit, m, before)
           pairs == before \o tail
           R == OldFirst(h)
           M(p) == Major(h, p[2])
<1>1. /\ Len(majors) \in Nat /\ DOMAIN majors = 1..Len(majors) /\ k + 1 \in DOMAIN majors
      /\ \A j \in 1..k : j \in DOMAIN majors /\ j < k + 1
  OBVIOUS
<1>2. before \in Seq(V \X V) /\ Len(before) \in Nat /\ DOMAIN before = 1..Len(before)
  BY DEF Chained
<1>3. limit # NoLimit => limit \in Nat /\ limit - Len(before) \in Nat
  BY <1>2 DEF Chained
<1>4. /\ tail \in Seq(V \X V)
      /\ limit # NoLimit => Len(tail) <= limit - Len(before)
      /\ \A q \in Range(tail) : Transition(h, m, q)
      /\ \A i, j \in DOMAIN tail : i < j => <<tail[i][2], tail[j][2]>> \in R
      /\ \A p : Transition(h, m, p) /\ p \notin Range(tail) =>
           /\ limit # NoLimit /\ Len(tail) = limit - Len(before)
           /\ \A q \in Range(tail) : <<p[2], q[2]>> \in R
  BY <1>3, PartIs
<1> HIDE DEF tail
<1>5. Len(tail) \in Nat /\ DOMAIN tail = 1..Len(tail)
  BY <1>4
<1>6. /\ pairs \in Seq(V \X V) /\ DOMAIN pairs = 1..Len(pairs)
      /\ Len(pairs) = Len(before) + Len(tail)
      /\ \A i \in 1..Len(before) : i \in DOMAIN pairs /\ pairs[i] = before[i]
      /\ \A i \in 1..Len(tail) :
           i + Len(before) \in DOMAIN pairs /\ pairs[i + Len(before)] = tail[i]
  BY <1>2, <1>4, <1>5
<1>7. \A i \in DOMAIN pairs :
        \/ i \in DOMAIN before /\ pairs[i] = before[i]
        \/ i > Len(before) /\ i - Len(before) \in DOMAIN tail /\ pairs[i] = tail[i - Len(before)]
  BY <1>2, <1>4, <1>5, <1>6
<1> HIDE DEF pairs
<1>8. \A q : q \in Range(pairs) <=> q \in Range(before) \/ q \in Range(tail)
  <2>1. \A q \in Range(pairs) : q \in Range(before) \/ q \in Range(tail)
    BY <1>7 DEF Range
  <2>2. \A q \in Range(before) : q \in Range(pairs)
    BY <1>2, <1>6 DEF Range
  <2>3. \A q \in Range(tail) : q \in Range(pairs)
    BY <1>5, <1>6 DEF Range
  <2> QED BY <2>1, <2>2, <2>3
<1>9. \A q \in Range(before) : \E j \in 1..k : Transition(h, majors[j], q)
  BY DEF Chained
<1>10. \A q : \A j : Transition(h, j, q) => q[2] \in V /\ M(q) = j
  BY DEF Transition
<1>11. ASSUME NEW p \in Range(before), NEW q, Transition(h, m, q)
       PROVE  /\ p[2] \in V /\ q[2] \in V
              /\ limit = NoLimit => <<p[2], q[2]>> \in R
              /\ limit # NoLimit => <<q[2], p[2]>> \in R /\ M(p) # M(q)
  <2>1. PICK j \in 1..k : Transition(h, majors[j], p)
    BY <1>9
  <2>2. p[2] \in V /\ q[2] \in V /\ M(p) = majors[j] /\ M(q) = majors[k + 1]
    BY <1>10, <1>11, <2>1
  <2>3. IF limit = NoLimit THEN majors[j] < majors[k + 1] ELSE majors[k + 1] < majors[j]
    BY <1>1 DEF MajorsInOrder
  <2>4. M(p) \in Nat /\ M(q) \in Nat
    BY <2>2, MajorOrder
  <2>5. CASE limit = NoLimit
    BY <2>2, <2>3, <2>5, MajorOrder
  <2>6. CASE limit # NoLimit
    <3>1. M(q) < M(p) /\ M(p) # M(q)
      BY <2>2, <2>3, <2>4, <2>6
    <3> QED BY <2>2, <2>6, <3>1, MajorOrder
  <2> QED BY <2>5, <2>6
<1>12. \A q \in Range(pairs) : \E j \in 1..(k + 1) : Transition(h, majors[j], q)
  <2>1. k + 1 \in 1..(k + 1) /\ \A j \in 1..k : j \in 1..(k + 1)
    OBVIOUS
  <2> QED BY <1>4, <1>8, <1>9, <2>1
<1>13. limit # NoLimit => Len(pairs) <= limit
  BY <1>2, <1>3, <1>4, <1>5, <1>6
<1>14. ASSUME NEW i \in DOMAIN pairs, NEW j \in DOMAIN pairs, i < j
       PROVE  IF limit # NoLimit /\ M(pairs[i]) # M(pairs[j])
              THEN <<pairs[j][2], pairs[i][2]>> \in R ELSE <<pairs[i][2], pairs[j][2]>> \in R
  <2>1. CASE i \in DOMAIN before /\ j \in DOMAIN before
    <3>1. pairs[i] = before[i] /\ pairs[j] = before[j]
      BY <1>2, <1>6, <2>1
    <3> QED BY <1>14, <2>1, <3>1 DEF Chained
  <2>2. CASE i \in DOMAIN before /\ j \notin DOMAIN before
    <3>1. pairs[i] \in Range(before) /\ pairs[j] \in Range(tail)
      BY <1>2, <1>6, <1>7, <2>2 DEF Range
    <3>2. Transition(h, m, pairs[j])
      BY <1>4, <3>1
    <3> QED BY <1>11, <3>1, <3>2
  <2>3. CASE i \notin DOMAIN before
    <3>1. i > Len(before) /\ j > Len(before) /\ j \notin DOMAIN before /\ i \in Nat /\ j \in Nat
      BY <1>2, <1>6, <1>7, <1>14, <2>3
    <3>2. /\ i - Len(before) \in DOMAIN tail /\ j - Len(before) \in DOMAIN tail
          /\ pairs[i] = tail[i - Len(before)] /\ pairs[j] = tail[j - Len(before)]
      BY <1>7, <2>3, <3>1
    <3>3. i - Len(before) < j - Len(before)
      BY <1>2, <1>14, <3>1
    <3>4. <<pairs[i][2], pairs[j][2]>> \in R
      BY <1>4, <3>2, <3>3
    <3>5. pairs[i] \in Range(tail) /\ pairs[j] \in Range(tail)
      BY <3>2 DEF Range
    <3>6. M(pairs[i]) = M(pairs[j])
      BY <1>4, <1>10, <3>5
    <3> QED BY <3>4, <3>6
  <2> QED BY <2>1, <2>2, <2>3
<1>15. ASSUME NEW p, NEW j \in 1..(k + 1), Transition(h, majors[j], p), p \notin Range(pairs)
       PROVE  /\ limit # NoLimit /\ Len(pairs) = limit
              /\ \A q \in Range(pairs) : <<p[2], q[2]>> \in R
  <2>1. p \notin Range(before) /\ p \notin Range(tail)
    BY <1>8, <1>15
  <2>2. CASE j \in 1..k
    <3>1. /\ limit # NoLimit /\ Len(before) = limit
          /\ \A q \in Range(before) : <<p[2], q[2]>> \in R
      BY <1>15, <2>1, <2>2 DEF Chained
    <3>2. Len(tail) = 0 /\ DOMAIN tail = {} /\ Len(pairs) = limit
      BY <1>2, <1>3, <1>4, <1>5, <1>6, <3>1
    <3>3. Range(tail) = {}
      BY <3>2 DEF Range
    <3> QED BY <1>8, <3>1, <3>2, <3>3
  <2>3. CASE j = k + 1
    <3>1. /\ limit # NoLimit /\ Len(tail) = limit - Len(before)
          /\ \A q \in Range(tail) : <<p[2], q[2]>> \in R
      BY <1>4, <1>15, <2>1, <2>3
    <3>2. \A q \in Range(before) : <<p[2], q[2]>> \in R
      BY <1>11, <1>15, <2>3, <3>1
    <3>3. Len(pairs) = limit
      BY <1>2, <1>3, <1>5, <1>6, <3>1
    <3> QED BY <1>8, <3>1, <3>2, <3>3
  <2>4. j \in 1..k \/ j = k + 1
    OBVIOUS
  <2> QED BY <2>2, <2>3, <2>4
<1>16. Chained(h, limit, majors, k + 1, pairs)
  <2> HIDE DEF R, M
  <2> QED BY <1>6, <1>12, <1>13, <1>14, <1>15 DEF Chained, R, M, V
<1> QED BY <1>16 DEF pairs, tail

\* The pairs of all majors.
LEMMA PairsOfChained ==
  ASSUME NEW h, IsHistory(h), NEW limit \in {NoLimit} \cup Nat, NEW majors \in Seq(Majors(h)),
         MajorsInOrder(limit, majors)
  PROVE  Chained(h, limit, majors, Len(majors), PairsOf(h, limit, majors))
<1> DEFINE n == Len(majors)
<1>1. n \in Nat
  OBVIOUS
<1>2. PICK f : UpTo(h, limit, majors, f, n) /\ PairsOf(h, limit, majors) = f[n]
  BY <1>1, PairsOfIs
<1> DEFINE S == {k \in Nat : k <= n => Chained(h, limit, majors, k, f[k])}
<1>3. 0 \in S
  <2>1. f[0] = <<>> /\ Range(<<>>) = {} /\ DOMAIN <<>> = {} /\ Len(<<>>) = 0
    BY <1>2 DEF UpTo, Range
  <2>2. <<>> \in Seq(Versioned(h) \X Versioned(h)) /\ 1..0 = {}
    OBVIOUS
  <2>3. limit # NoLimit => 0 <= limit
    OBVIOUS
  <2>4. Chained(h, limit, majors, 0, <<>>)
    BY <2>1, <2>2, <2>3 DEF Chained
  <2> QED BY <2>1, <2>4
<1>4. ASSUME NEW k \in Nat, k \in S PROVE k + 1 \in S
  <2> SUFFICES ASSUME k + 1 <= n PROVE Chained(h, limit, majors, k + 1, f[k + 1])
    OBVIOUS
  <2>1. Chained(h, limit, majors, k, f[k])
    BY <1>1, <1>4
  <2>2. k + 1 \in 1..n /\ (k + 1) - 1 = k
    BY <1>1
  <2>3. f[k + 1] = f[k] \o Part(h, limit, majors[k + 1], f[k])
    BY <1>2, <2>2 DEF UpTo
  <2> QED BY <2>1, <2>3, ChainedLonger
<1> HIDE DEF S
<1>5. Nat \subseteq S
  BY <1>3, <1>4, SetInduction
<1>6. n \in S
  BY <1>1, <1>5
<1> QED BY <1>1, <1>2, <1>6 DEF S

-----------------------------------------------------------------------------
(* The legacy modes                                                        *)

\* LegacyCorrect, of transitions by date.
LEMMA ByDateCorrect ==
  ASSUME NEW h, NEW mode, NEW limit, NEW pairs,
         IF limit = NoLimit THEN mode = "chronological" ELSE Majors(h) = {},
         limit # NoLimit => Len(pairs) <= limit,
         \A q \in Range(pairs) : /\ q \in Range(h.tags) \X Range(h.tags)
                                 /\ NextListed(h, q[1], q[2]) /\ Dated(h, limit, q[2]),
         \A i, j \in DOMAIN pairs : i < j => ListedBefore(h, pairs[j][2], pairs[i][2]),
         \A p \in Range(h.tags) \X Range(h.tags) :
           NextListed(h, p[1], p[2]) /\ Dated(h, limit, p[2]) /\ p \notin Range(pairs) =>
             /\ limit # NoLimit /\ Len(pairs) = limit
             /\ \A q \in Range(pairs) : ListedBefore(h, q[2], p[2])
  PROVE  LegacyCorrect(h, mode, limit, pairs)
BY DEF LegacyCorrect

\* LegacyCorrect, of transitions within a major.
LEMMA ByMajorCorrect ==
  ASSUME NEW h, NEW mode, NEW limit, NEW pairs,
         IF limit = NoLimit THEN mode # "chronological" ELSE Majors(h) # {},
         limit # NoLimit => Len(pairs) <= limit,
         \A q \in Range(pairs) : /\ q \in Range(h.tags) \X Range(h.tags)
                                 /\ NextOfMajor(h, q[1], q[2]) /\ Dated(h, limit, q[2]),
         \A i, j \in DOMAIN pairs :
           i < j => IF limit # NoLimit /\ Major(h, pairs[i][2]) # Major(h, pairs[j][2])
                    THEN <<pairs[j][2], pairs[i][2]>> \in OldFirst(h)
                    ELSE <<pairs[i][2], pairs[j][2]>> \in OldFirst(h),
         \A p \in Range(h.tags) \X Range(h.tags) :
           NextOfMajor(h, p[1], p[2]) /\ Dated(h, limit, p[2]) /\ p \notin Range(pairs) =>
             /\ limit # NoLimit /\ Len(pairs) = limit
             /\ \A q \in Range(pairs) : <<p[2], q[2]>> \in OldFirst(h)
  PROVE  LegacyCorrect(h, mode, limit, pairs)
BY DEF LegacyCorrect

\* The newest f tags, each with the one before it.
LEMMA DatePairs ==
  ASSUME NEW h, IsHistory(h), NEW f \in 1..Len(h.tags),
         NEW first \in Seq(Range(h.tags)), Len(first) = f, \A i \in 1..f : first[i] = h.tags[i]
  PROVE  LET pairs == Consecutive(Reverse(first))
         IN  /\ pairs \in Seq(Range(h.tags) \X Range(h.tags)) /\ Len(pairs) = f - 1
             /\ \A q \in Range(pairs) : NextListed(h, q[1], q[2])
             /\ \A i, j \in DOMAIN pairs : i < j => ListedBefore(h, pairs[j][2], pairs[i][2])
             /\ \A p \in Range(h.tags) \X Range(h.tags) :
                  NextListed(h, p[1], p[2]) /\ p \notin Range(pairs) =>
                    /\ f # Len(h.tags)
                    /\ \A q \in Range(pairs) : ListedBefore(h, q[2], p[2])
<1> DEFINE tags == h.tags
           T == Range(h.tags)
           back == Reverse(first)
           pairs == Consecutive(back)
<1>1. /\ Len(tags) \in Nat /\ DOMAIN tags = 1..Len(tags)
      /\ \A i, j \in DOMAIN tags : ListedBefore(h, tags[i], tags[j]) <=> i < j
  BY TagPlaces, ListOrder
<1>2. f \in Nat /\ f >= 1 /\ f <= Len(tags) /\ \A i \in 1..f : i \in DOMAIN tags
  BY <1>1
<1>3. \A x, y : NextListed(h, x, y)
                   <=> \E i \in DOMAIN tags : i > 1 /\ tags[i] = x /\ tags[i - 1] = y
  BY DEF NextListed
<1>4. /\ back \in Seq(T) /\ Len(back) = f
      /\ \A i \in 1..f : f - i + 1 \in 1..f /\ back[i] = first[f - i + 1]
  BY Reversed
<1> HIDE DEF tags, back, T
<1>5. \A i \in 1..f : back[i] = tags[f - i + 1]
  BY <1>4 DEF tags
<1>6. /\ pairs \in Seq(T \X T) /\ Len(pairs) = f - 1
      /\ \A i \in 1..Len(pairs) :
           i \in DOMAIN back /\ i + 1 \in DOMAIN back /\ pairs[i] = <<back[i], back[i + 1]>>
  <2>1. /\ pairs \in Seq(T \X T) /\ Len(pairs) = IF Len(back) = 0 THEN 0 ELSE Len(back) - 1
        /\ \A i \in 1..Len(pairs) :
           i \in DOMAIN back /\ i + 1 \in DOMAIN back /\ pairs[i] = <<back[i], back[i + 1]>>
    BY <1>4, ConsecutiveOf
  <2>2. Len(back) # 0
    BY <1>2, <1>4
  <2> QED BY <1>4, <2>1, <2>2
<1> HIDE DEF pairs
<1>7. DOMAIN pairs = 1..(f - 1)
  BY <1>6
<1>8. \A i \in 1..(f - 1) : /\ f - i \in 1..f /\ f - i + 1 \in 1..f /\ (f - i + 1) - 1 = f - i
                            /\ f - i + 1 > 1 /\ i \in 1..f /\ i + 1 \in 1..f
                            /\ f - (i + 1) + 1 = f - i
  BY <1>2
<1>9. \A i \in 1..(f - 1) : /\ pairs[i] = <<tags[f - i + 1], tags[f - i]>>
                            /\ pairs[i][1] = tags[f - i + 1] /\ pairs[i][2] = tags[f - i]
  <2> SUFFICES ASSUME NEW i \in 1..(f - 1)
               PROVE  pairs[i] = <<tags[f - i + 1], tags[f - i]>>
    OBVIOUS
  <2>1. pairs[i] = <<back[i], back[i + 1]>>
    BY <1>6
  <2>2. back[i] = tags[f - i + 1] /\ back[i + 1] = tags[f - (i + 1) + 1]
    BY <1>5, <1>8
  <2> QED BY <1>8, <2>1, <2>2
<1>10. ASSUME NEW q \in Range(pairs) PROVE NextListed(h, q[1], q[2])
  <2>1. PICK i \in 1..(f - 1) : q = pairs[i]
    BY <1>7, <1>10 DEF Range
  <2> DEFINE k == f - i + 1
  <2>2. k > 1 /\ k - 1 = f - i /\ k \in DOMAIN tags
    BY <1>2, <1>8
  <2>3. tags[k] = q[1] /\ tags[k - 1] = q[2]
    BY <1>9, <2>1, <2>2
  <2> HIDE DEF k
  <2> QED BY <1>3, <2>2, <2>3
<1>11. ASSUME NEW i \in DOMAIN pairs, NEW j \in DOMAIN pairs, i < j
       PROVE  ListedBefore(h, pairs[j][2], pairs[i][2])
  <2>1. /\ pairs[i][2] = tags[f - i] /\ pairs[j][2] = tags[f - j]
        /\ f - i \in DOMAIN tags /\ f - j \in DOMAIN tags
    BY <1>2, <1>7, <1>8, <1>9
  <2>2. f - j < f - i
    BY <1>2, <1>7, <1>11
  <2> QED BY <1>1, <2>1, <2>2
<1>12. ASSUME NEW p \in T \X T, NextListed(h, p[1], p[2]), p \notin Range(pairs)
       PROVE  f # Len(tags) /\ \A q \in Range(pairs) : ListedBefore(h, q[2], p[2])
  <2>1. PICK a \in DOMAIN tags : a > 1 /\ tags[a] = p[1] /\ tags[a - 1] = p[2]
    BY <1>3, <1>12
  <2>2. a > f
    <3> SUFFICES ASSUME ~(a > f) PROVE FALSE
      OBVIOUS
    <3> DEFINE i == f - a + 1
    <3>1. i \in 1..(f - 1) /\ f - i + 1 = a /\ f - i = a - 1
      BY <1>1, <1>2, <2>1
    <3> HIDE DEF i
    <3>2. pairs[i] = <<tags[a], tags[a - 1]>>
      BY <1>9, <3>1
    <3>3. p = <<p[1], p[2]>>
      OBVIOUS
    <3>4. pairs[i] = p /\ i \in DOMAIN pairs
      BY <1>7, <2>1, <3>1, <3>2, <3>3
    <3> QED BY <1>12, <3>4 DEF Range
  <2>3. f # Len(tags) /\ a - 1 \in DOMAIN tags
    <3>1. a \in 1..Len(tags) /\ Len(tags) \in Nat /\ a > 1
      BY <1>1, <2>1
    <3>2. f # Len(tags) /\ a - 1 \in 1..Len(tags)
      BY <1>2, <2>2, <3>1
    <3> QED BY <1>1, <3>2
  <2>4. ASSUME NEW q \in Range(pairs) PROVE ListedBefore(h, q[2], p[2])
    <3>1. PICK i \in 1..(f - 1) : q = pairs[i]
      BY <1>7, <2>4 DEF Range
    <3>2. q[2] = tags[f - i] /\ f - i \in DOMAIN tags
      BY <1>2, <1>8, <1>9, <3>1
    <3>3. f - i < a - 1
      BY <1>1, <1>2, <2>1, <2>2
    <3> QED BY <1>1, <2>1, <2>3, <3>2, <3>3
  <2> QED BY <2>3, <2>4
<1> QED BY <1>6, <1>10, <1>11, <1>12 DEF pairs, back, T, tags

\* The majors of a history, ascending.
LEMMA MajorsListed ==
  ASSUME NEW h, IsHistory(h), NEW limit
  PROVE  LET asc == Sorted(Majors(h), Ascends(Majors(h)))
             majors == IF limit = NoLimit THEN asc ELSE Reverse(asc)
         IN  majors \in Seq(Majors(h)) /\ Range(majors) = Majors(h) /\ MajorsInOrder(limit, majors)
<1> DEFINE M == Majors(h)
           asc == Sorted(M, Ascends(M))
           desc == Reverse(asc)
           V == Versioned(h)
<1>1. \A m \in M : m \in Nat
  BY MajorOrder DEF Majors
<1>2. IsFiniteSet(M)
  <2> DEFINE g == [t \in V |-> Major(h, t)]
  <2>1. g \in [V -> M] /\ \A m \in M : \E t \in V : g[t] = m
    BY DEF Majors
  <2>2. g \in Surjection(V, M)
    BY <2>1 DEF Surjection
  <2>3. IsFiniteSet(V)
    BY VersionsFinite
  <2> QED BY <2>2, <2>3, FS_Surjection
<1> HIDE DEF M
<1>3. \A i, j \in M : <<i, j>> \in Ascends(M) <=> i < j
  BY DEF Ascends
<1>4. IsOrder(M, Ascends(M))
  BY <1>1, <1>3 DEF IsOrder
<1>5. /\ asc \in Seq(M) /\ DOMAIN asc = 1..Len(asc) /\ Len(asc) \in Nat /\ Range(asc) = M
      /\ \A i, j \in DOMAIN asc : i < j => <<asc[i], asc[j]>> \in Ascends(M)
  BY <1>2, <1>4, SortedLists
<1> HIDE DEF asc
<1>6. \A i, j \in DOMAIN asc : i < j => asc[i] < asc[j]
  <2>1. \A i \in DOMAIN asc : asc[i] \in M
    BY <1>5
  <2> QED BY <1>3, <1>5, <2>1
<1>7. /\ desc \in Seq(M) /\ Len(desc) = Len(asc) /\ DOMAIN desc = 1..Len(asc)
      /\ \A i \in 1..Len(asc) : Len(asc) - i + 1 \in 1..Len(asc) /\ desc[i] = asc[Len(asc) - i + 1]
  BY <1>5, Reversed
<1> HIDE DEF desc
<1>8. Range(desc) = M
  <2>1. ASSUME NEW m \in M PROVE \E i \in DOMAIN desc : desc[i] = m
    <3>1. PICK k \in 1..Len(asc) : asc[k] = m
      BY <1>5 DEF Range
    <3> DEFINE i == Len(asc) - k + 1
    <3>2. i \in 1..Len(asc) /\ Len(asc) - i + 1 = k
      BY <1>5
    <3> HIDE DEF i
    <3> QED BY <1>7, <3>1, <3>2
  <2>2. \A i \in DOMAIN desc : desc[i] \in M
    BY <1>5, <1>7
  <2> QED BY <2>1, <2>2 DEF Range
<1>9. \A i, j \in DOMAIN desc : i < j => desc[j] < desc[i]
  <2> SUFFICES ASSUME NEW i \in 1..Len(asc), NEW j \in 1..Len(asc), i < j
               PROVE  desc[j] < desc[i]
    BY <1>7
  <2>1. Len(asc) - j + 1 < Len(asc) - i + 1
    BY <1>5
  <2> QED BY <1>5, <1>6, <1>7, <2>1
<1>10. CASE limit = NoLimit
  BY <1>5, <1>6, <1>10 DEF MajorsInOrder, M, asc
<1>11. CASE limit # NoLimit
  BY <1>7, <1>8, <1>9, <1>11 DEF MajorsInOrder, M, asc, desc
<1> QED BY <1>10, <1>11

\* A transition of a major is one between tags, and the other way round.
LEMMA TransitionsAre ==
  ASSUME NEW h, IsHistory(h)
  PROVE  /\ \A m, p : Transition(h, m, p) =>
              p \in Range(h.tags) \X Range(h.tags) /\ NextOfMajor(h, p[1], p[2])
         /\ \A p \in Range(h.tags) \X Range(h.tags) :
              NextOfMajor(h, p[1], p[2]) => \E m \in Majors(h) : Transition(h, m, p)
<1>1. \A m, p : Transition(h, m, p) =>
              p \in Range(h.tags) \X Range(h.tags) /\ NextOfMajor(h, p[1], p[2])
  BY VersionKey DEF Transition
<1>2. ASSUME NEW p \in Range(h.tags) \X Range(h.tags), NextOfMajor(h, p[1], p[2])
      PROVE  \E m \in Majors(h) : Transition(h, m, p)
  <2>1. <<p[1], p[2]>> \in OldFirst(h)
    BY <1>2 DEF NextOfMajor
  <2>2. p[1] \in Versioned(h) /\ p[2] \in Versioned(h)
    BY <2>1 DEF OldFirst
  <2>3. Major(h, p[2]) \in Majors(h) /\ p \in Versioned(h) \X Versioned(h)
    BY <2>2 DEF Majors
  <2> QED BY <1>2, <2>3 DEF Transition
<1> QED BY <1>1, <1>2

\* The pairs of all majors are the transitions within a major, in their order.
LEMMA AllMajors ==
  ASSUME NEW h, IsHistory(h), NEW limit \in {NoLimit} \cup Nat
  PROVE  LET asc == Sorted(Majors(h), Ascends(Majors(h)))
             pairs == PairsOf(h, limit, IF limit = NoLimit THEN asc ELSE Reverse(asc))
         IN  /\ pairs \in Seq(Versioned(h) \X Versioned(h))
             /\ limit # NoLimit => Len(pairs) <= limit
             /\ \A q \in Range(pairs) : /\ q \in Range(h.tags) \X Range(h.tags)
                                        /\ NextOfMajor(h, q[1], q[2])
             /\ \A i, j \in DOMAIN pairs :
                  i < j => IF limit # NoLimit /\ Major(h, pairs[i][2]) # Major(h, pairs[j][2])
                           THEN <<pairs[j][2], pairs[i][2]>> \in OldFirst(h)
                           ELSE <<pairs[i][2], pairs[j][2]>> \in OldFirst(h)
             /\ \A p \in Range(h.tags) \X Range(h.tags) :
                  NextOfMajor(h, p[1], p[2]) /\ p \notin Range(pairs) =>
                    /\ limit # NoLimit /\ Len(pairs) = limit
                    /\ \A q \in Range(pairs) : <<p[2], q[2]>> \in OldFirst(h)
<1> DEFINE asc == Sorted(Majors(h), Ascends(Majors(h)))
           majors == IF limit = NoLimit THEN asc ELSE Reverse(asc)
           pairs == PairsOf(h, limit, majors)
           n == Len(majors)
<1>1. majors \in Seq(Majors(h)) /\ Range(majors) = Majors(h) /\ MajorsInOrder(limit, majors)
  BY MajorsListed
<1> HIDE DEF majors
<1>2. Chained(h, limit, majors, n, pairs)
  BY <1>1, PairsOfChained
<1>3. \A m \in Majors(h) : \E j \in 1..n : majors[j] = m
  <2>1. DOMAIN majors = 1..n
    BY <1>1
  <2> QED BY <1>1, <2>1 DEF Range
<1> HIDE DEF pairs, n
<1>4. \A q \in Range(pairs) : q \in Range(h.tags) \X Range(h.tags) /\ NextOfMajor(h, q[1], q[2])
  BY <1>2, TransitionsAre DEF Chained
<1>5. ASSUME NEW p \in Range(h.tags) \X Range(h.tags), NextOfMajor(h, p[1], p[2]),
             p \notin Range(pairs)
      PROVE  /\ limit # NoLimit /\ Len(pairs) = limit
             /\ \A q \in Range(pairs) : <<p[2], q[2]>> \in OldFirst(h)
  <2>1. PICK m \in Majors(h) : Transition(h, m, p)
    BY <1>5, TransitionsAre
  <2>2. \E j \in 1..n : Transition(h, majors[j], p)
    BY <1>3, <2>1
  <2> QED BY <1>2, <1>5, <2>2 DEF Chained
<1>6. /\ pairs \in Seq(Versioned(h) \X Versioned(h))
      /\ limit # NoLimit => Len(pairs) <= limit
      /\ \A i, j \in DOMAIN pairs :
           i < j => IF limit # NoLimit /\ Major(h, pairs[i][2]) # Major(h, pairs[j][2])
                    THEN <<pairs[j][2], pairs[i][2]>> \in OldFirst(h)
                    ELSE <<pairs[i][2], pairs[j][2]>> \in OldFirst(h)
  BY <1>2 DEF Chained
<1> QED BY <1>4, <1>5, <1>6 DEF pairs, majors

\* With a limit.
LEMMA LatestCorrect ==
  ASSUME NEW h, IsHistory(h), Len(h.tags) >= 2, NEW mode, NEW limit \in Nat
  PROVE  LegacyCorrect(h, mode, limit, LatestPairs(h, limit))
<1>1. limit # NoLimit /\ limit \in {NoLimit} \cup Nat
  BY LimitsAssumption
<1>2. \A p : Dated(h, limit, p)
  BY <1>1 DEF Dated
<1> DEFINE asc == Sorted(Majors(h), Ascends(Majors(h)))
           all == PairsOf(h, limit, Reverse(asc))
<1>3. /\ all \in Seq(Versioned(h) \X Versioned(h))
      /\ Len(all) <= limit
      /\ \A q \in Range(all) : /\ q \in Range(h.tags) \X Range(h.tags)
                               /\ NextOfMajor(h, q[1], q[2])
      /\ \A i, j \in DOMAIN all :
           i < j => IF Major(h, all[i][2]) # Major(h, all[j][2])
                    THEN <<all[j][2], all[i][2]>> \in OldFirst(h)
                    ELSE <<all[i][2], all[j][2]>> \in OldFirst(h)
      /\ \A p \in Range(h.tags) \X Range(h.tags) :
           NextOfMajor(h, p[1], p[2]) /\ p \notin Range(all) =>
             /\ Len(all) = limit
             /\ \A q \in Range(all) : <<p[2], q[2]>> \in OldFirst(h)
  BY <1>1, AllMajors
<1>4. CASE Majors(h) # {}
  <2>1. LatestPairs(h, limit) = all
    BY <1>4 DEF LatestPairs
  <2> HIDE DEF all
  <2>2. LegacyCorrect(h, mode, limit, all)
    BY <1>1, <1>2, <1>3, <1>4, ByMajorCorrect
  <2> QED BY <2>1, <2>2
<1>5. CASE Majors(h) = {} /\ limit = 0
  <2>1. LatestPairs(h, limit) = all
    BY <1>5 DEF LatestPairs
  <2> HIDE DEF all
  <2>2. Len(all) = 0 /\ DOMAIN all = {} /\ Range(all) = {}
    <3>1. Len(all) = 0 /\ DOMAIN all = 1..Len(all)
      BY <1>3, <1>5
    <3>2. DOMAIN all = {}
      BY <3>1
    <3> QED BY <3>1, <3>2 DEF Range
  <2>3. LegacyCorrect(h, mode, limit, all)
    BY <1>1, <1>5, <2>2, ByDateCorrect
  <2> QED BY <2>1, <2>3
<1>6. CASE Majors(h) = {} /\ limit # 0
  <2> DEFINE first == FirstOf(h.tags, limit + 1)
             pairs == Consecutive(Reverse(first))
             f == Len(first)
  <2>1. LatestPairs(h, limit) = pairs
    BY <1>6 DEF LatestPairs
  <2>2. Len(h.tags) \in Nat /\ h.tags \in Seq(Range(h.tags))
    BY TagPlaces
  <2>3. /\ first \in Seq(Range(h.tags))
        /\ Len(first) = IF limit + 1 < Len(h.tags) THEN limit + 1 ELSE Len(h.tags)
        /\ \A i \in 1..Len(first) : i \in DOMAIN h.tags /\ first[i] = h.tags[i]
    BY <2>2, FirstOfSeq
  <2> HIDE DEF first
  <2>4. f \in 1..Len(h.tags) /\ f - 1 <= limit /\ (f # Len(h.tags) => f - 1 = limit)
    BY <1>6, <2>2, <2>3
  <2>5. /\ pairs \in Seq(Range(h.tags) \X Range(h.tags)) /\ Len(pairs) = f - 1
        /\ \A q \in Range(pairs) : NextListed(h, q[1], q[2])
        /\ \A i, j \in DOMAIN pairs : i < j => ListedBefore(h, pairs[j][2], pairs[i][2])
        /\ \A p \in Range(h.tags) \X Range(h.tags) :
             NextListed(h, p[1], p[2]) /\ p \notin Range(pairs) =>
               /\ f # Len(h.tags)
               /\ \A q \in Range(pairs) : ListedBefore(h, q[2], p[2])
    BY <2>3, <2>4, DatePairs
  <2> HIDE DEF pairs, f
  <2>6. \A q \in Range(pairs) : q \in Range(h.tags) \X Range(h.tags)
    BY <2>5 DEF Range
  <2>7. Len(pairs) <= limit
    BY <2>4, <2>5
  <2>8. \A p \in Range(h.tags) \X Range(h.tags) :
          NextListed(h, p[1], p[2]) /\ p \notin Range(pairs) =>
            /\ Len(pairs) = limit
            /\ \A q \in Range(pairs) : ListedBefore(h, q[2], p[2])
    BY <2>4, <2>5
  <2>9. LegacyCorrect(h, mode, limit, pairs)
    BY <1>1, <1>2, <1>6, <2>5, <2>6, <2>7, <2>8, ByDateCorrect
  <2> QED BY <2>1, <2>9
<1> QED BY <1>4, <1>5, <1>6

\* What is recent, of pairs of tags.
LEMMA RecentOf ==
  ASSUME NEW h, NEW limit, NEW T, NEW pairs \in Seq(T)
  PROVE  LET recent == Recent(h, limit, pairs)
         IN  /\ \A q : q \in Range(recent) <=> q \in Range(pairs) /\ Dated(h, limit, q[2])
             /\ \A a, b \in DOMAIN recent :
                  a < b => \E i, j \in DOMAIN pairs :
                             i < j /\ recent[a] = pairs[i] /\ recent[b] = pairs[j]
<1> DEFINE I == {i \in DOMAIN pairs : Dated(h, limit, pairs[i][2])}
           recent == Recent(h, limit, pairs)
<1>1. recent = Picked(pairs, I)
  BY DEF Recent
<1>2. I \in SUBSET DOMAIN pairs
  OBVIOUS
<1> HIDE DEF recent, I
<1>3. /\ Range(recent) = {pairs[i] : i \in I}
      /\ \A a, b \in DOMAIN recent :
           a < b => \E i, j \in I : i < j /\ recent[a] = pairs[i] /\ recent[b] = pairs[j]
  BY <1>1, <1>2, PickedOf
<1>4. \A q : q \in Range(recent) <=> q \in Range(pairs) /\ Dated(h, limit, q[2])
  BY <1>3 DEF I, Range
<1> QED BY <1>2, <1>3, <1>4 DEF recent

\* Without a limit.
LEMMA SinceCorrect ==
  ASSUME NEW h, IsHistory(h), Len(h.tags) >= 2, NEW mode \in {"chronological", "per_major"}
  PROVE  LegacyCorrect(h, mode, NoLimit, BuiltPairs(h, mode, NoLimit))
<1> DEFINE V == Versioned(h)
           T == Range(h.tags)
<1>1. CASE mode = "per_major"
  <2> DEFINE asc == Sorted(Majors(h), Ascends(Majors(h)))
             all == PairsOf(h, NoLimit, asc)
             pairs == Recent(h, NoLimit, all)
  <2>1. BuiltPairs(h, mode, NoLimit) = pairs
    BY <1>1 DEF BuiltPairs
  <2>2. /\ all \in Seq(V \X V)
        /\ \A q \in Range(all) : q \in T \X T /\ NextOfMajor(h, q[1], q[2])
        /\ \A i, j \in DOMAIN all : i < j => <<all[i][2], all[j][2]>> \in OldFirst(h)
        /\ \A p \in T \X T : NextOfMajor(h, p[1], p[2]) => p \in Range(all)
    BY AllMajors
  <2> HIDE DEF all
  <2>3. /\ \A q : q \in Range(pairs) <=> q \in Range(all) /\ Dated(h, NoLimit, q[2])
        /\ \A a, b \in DOMAIN pairs :
             a < b => \E i, j \in DOMAIN all : i < j /\ pairs[a] = all[i] /\ pairs[b] = all[j]
    BY <2>2, RecentOf
  <2> HIDE DEF pairs
  <2>4. \A i, j \in DOMAIN pairs : i < j => <<pairs[i][2], pairs[j][2]>> \in OldFirst(h)
    BY <2>2, <2>3
  <2>5. LegacyCorrect(h, mode, NoLimit, pairs)
    BY <1>1, <2>2, <2>3, <2>4, ByMajorCorrect
  <2> QED BY <2>1, <2>5
<1>2. CASE mode = "chronological"
  <2> DEFINE all == Consecutive(Reverse(h.tags))
             pairs == Recent(h, NoLimit, all)
  <2>1. BuiltPairs(h, mode, NoLimit) = pairs
    BY <1>2 DEF BuiltPairs
  <2>2. h.tags \in Seq(T) /\ Len(h.tags) \in Nat /\ Len(h.tags) \in 1..Len(h.tags)
    BY TagPlaces
  <2>3. /\ all \in Seq(T \X T)
        /\ \A q \in Range(all) : NextListed(h, q[1], q[2])
        /\ \A i, j \in DOMAIN all : i < j => ListedBefore(h, all[j][2], all[i][2])
        /\ \A p \in T \X T : NextListed(h, p[1], p[2]) => p \in Range(all)
    BY <2>2, DatePairs
  <2> HIDE DEF all
  <2>4. /\ \A q : q \in Range(pairs) <=> q \in Range(all) /\ Dated(h, NoLimit, q[2])
        /\ \A a, b \in DOMAIN pairs :
             a < b => \E i, j \in DOMAIN all : i < j /\ pairs[a] = all[i] /\ pairs[b] = all[j]
    BY <2>3, RecentOf
  <2> HIDE DEF pairs
  <2>5. \A i, j \in DOMAIN pairs : i < j => ListedBefore(h, pairs[j][2], pairs[i][2])
    BY <2>3, <2>4
  <2>6. \A q \in Range(all) : q \in T \X T
    BY <2>3 DEF Range
  <2>7. LegacyCorrect(h, mode, NoLimit, pairs)
    BY <1>2, <2>3, <2>4, <2>5, <2>6, ByDateCorrect
  <2> QED BY <2>1, <2>7
<1> QED BY <1>1, <1>2

\* No pairs, and none wanted, of less than two tags.
LEMMA FewTags ==
  ASSUME NEW h, IsHistory(h), Len(h.tags) < 2, NEW mode, NEW limit \in {NoLimit} \cup Nat
  PROVE  AncestryCorrect(h, limit, <<>>) /\ LegacyCorrect(h, mode, limit, <<>>)
<1>1. Range(<<>>) = {} /\ DOMAIN <<>> = {} /\ Len(<<>>) = 0
  BY DEF Range
<1>2. DOMAIN h.tags = 1..Len(h.tags) /\ Len(h.tags) \in Nat
  BY TagPlaces
<1>3. \A i, j \in DOMAIN h.tags : i = j
  BY <1>2
<1>4. \A s, t \in Range(h.tags) : s = t
  BY <1>3 DEF Range
<1>5. \A s, t : ~NextListed(h, s, t)
  BY <1>2 DEF NextListed
<1>6. \A s, t : ~NextOfMajor(h, s, t)
  <2> SUFFICES ASSUME NEW s, NEW t, NextOfMajor(h, s, t) PROVE FALSE
    OBVIOUS
  <2>1. <<s, t>> \in OldFirst(h) /\ s \in Versioned(h) /\ t \in Versioned(h)
    BY DEF NextOfMajor, OldFirst
  <2>2. s = t
    BY <1>4, <2>1, VersionKey
  <2> QED BY <2>1, <2>2, VersionsOrdered DEF IsOrder
<1>7. \A s, t \in Versioned(h) : ~Closest(h, s, t)
  BY <1>4, ClosestFound, VersionKey
<1>8. AncestryCorrect(h, limit, <<>>)
  BY <1>1, <1>7 DEF AncestryCorrect
<1>9. limit # NoLimit => 0 <= limit
  OBVIOUS
<1>10. LegacyCorrect(h, mode, limit, <<>>)
  <2>1. CASE IF limit = NoLimit THEN mode = "chronological" ELSE Majors(h) = {}
    BY <1>1, <1>5, <1>9, <2>1, ByDateCorrect
  <2>2. CASE ~(IF limit = NoLimit THEN mode = "chronological" ELSE Majors(h) = {})
    <3>1. IF limit = NoLimit THEN mode # "chronological" ELSE Majors(h) # {}
      BY <2>2
    <3> QED BY <1>1, <1>6, <1>9, <3>1, ByMajorCorrect
  <2> QED BY <2>1, <2>2
<1> QED BY <1>8, <1>10

\* The pairs of a history are those that the mode promises.
LEMMA ResolvedCorrect ==
  ASSUME NEW h, IsHistory(h), NEW mode \in Modes, NEW limit \in {NoLimit} \cup Nat
  PROVE  IF mode = "ancestry" THEN AncestryCorrect(h, limit, ResolvedPairs(h, mode, limit))
         ELSE LegacyCorrect(h, mode, limit, ResolvedPairs(h, mode, limit))
<1>1. Len(h.tags) \in Nat
  BY TagPlaces
<1>2. CASE Len(h.tags) < 2
  BY <1>2, FewTags DEF ResolvedPairs
<1>3. CASE ~(Len(h.tags) < 2) /\ mode = "ancestry"
  BY <1>3, AncestryPairsCorrect DEF ResolvedPairs
<1>4. CASE ~(Len(h.tags) < 2) /\ mode # "ancestry"
  <2>1. ResolvedPairs(h, mode, limit) = BuiltPairs(h, mode, limit) /\ Len(h.tags) >= 2
        /\ mode \in {"chronological", "per_major"}
    BY <1>1, <1>4 DEF ResolvedPairs, Modes
  <2>2. CASE limit = NoLimit
    BY <1>4, <2>1, <2>2, SinceCorrect
  <2>3. CASE limit # NoLimit
    <3>1. BuiltPairs(h, mode, limit) = LatestPairs(h, limit)
      BY <2>3 DEF BuiltPairs
    <3> QED BY <1>4, <2>1, <2>3, <3>1, LatestCorrect
  <2> QED BY <2>2, <2>3
<1> QED BY <1>2, <1>3, <1>4

-----------------------------------------------------------------------------
(* The batch                                                               *)

\* A scan starts in the scan phase, in which what the scans share is open.  After it
\* every repository is done, but for an interrupt that made one of them end cancelled.
StageInv ==
  /\ repo = [r \in Urls |-> repo[r]]
  /\ stage \in {"setup", "resolve", "scan", "finally", "closing", "hung", "ended", "cut"}
  /\ stage \in {"setup", "resolve"} => \A r \in Urls : repo[r] = "none"
  /\ stage \in {"resolve", "scan"} => sched = "open" /\ cache # "closed"
  /\ stage = "scan" => \A r \in Urls : repo[r] # "none" <=> r \in Planned
  /\ stage \in {"finally", "closing", "hung", "ended", "cut"} =>
       \/ \A r \in Urls : repo[r] \in {"none", "done"}
       \/ code = Raised /\ \E r \in Planned : repo[r] = "gone"
  /\ stage = "closing" => sched = "closed"
  /\ stage = "ended" => sched = "closed" /\ cache # "open"

\* No more of them at a time than the semaphore lets in.
CountInv ==
  /\ IsFiniteSet(Scanning)
  /\ Cardinality(Scanning) <= jobs
  /\ jobs \in Nat \ {0}

\* The exit code is the worst outcome, unless something escaped.
CodeInv ==
  /\ outcomes = [r \in Urls |-> outcomes[r]]
  /\ \A r \in Urls : outcomes[r] \in Seq(0..3)
  /\ stage # "ended" => code \in {NoCode, Raised}
  /\ (\E r \in Urls : repo[r] \in {"cancelled", "gone"}) => code = Raised
  /\ stage = "ended" => code \in {Worst, Raised}

\* Every entry resolved so far has its pairs or was skipped, and a repository that is
\* done has an outcome for each, unless the batch was interrupted.
AccountInv ==
  /\ items = [r \in Urls |-> items[r]]
  /\ at \in 0..Len(RepoList)
  /\ \A i \in 1..at : items[RepoList[i]] = <<>> => RepoList[i] \in skipped
  /\ stage \in {"setup", "resolve"} => \A r \in Urls : outcomes[r] = <<>>
  /\ stage \in {"scan", "finally", "closing", "hung", "ended"} /\ code # Raised =>
       /\ at = Len(RepoList)
       /\ \A r \in Urls : repo[r] \in {"none", "done"} => Len(outcomes[r]) = Len(items[r])

BatchInv == StageInv /\ CountInv /\ CodeInv /\ AccountInv

-----------------------------------------------------------------------------
LEMMA Entries ==
  /\ DOMAIN RepoList = 1..Len(RepoList) /\ Len(RepoList) \in Nat
  /\ \A i \in 1..Len(RepoList) : RepoList[i] \in Urls
  /\ \A r \in Urls : \E i \in 1..Len(RepoList) : RepoList[i] = r
<1>1. DOMAIN RepoList = 1..Len(RepoList) /\ Len(RepoList) \in Nat
  BY BatchAssumption
<1> QED BY <1>1 DEF Urls, Range

LEMMA InitInv == Init => BatchInv
<1> SUFFICES ASSUME Init PROVE BatchInv
  OBVIOUS
<1>1. /\ repo = [r \in Urls |-> "none"] /\ outcomes = [r \in Urls |-> <<>>]
      /\ items = [r \in Urls |-> <<>>] /\ stage = "setup" /\ at = 0 /\ jobs = 1
      /\ code = NoCode
  BY DEF Init
<1>2. Scanning = {}
  BY <1>1 DEF Scanning
<1>3. CountInv
  BY <1>1, <1>2, FS_EmptySet DEF CountInv
<1>4. StageInv /\ CodeInv /\ AccountInv
  BY <1>1, Entries DEF StageInv, CodeInv, AccountInv
<1> QED BY <1>3, <1>4 DEF BatchInv

\* An entry of the list is resolved.
LEMMA ResolvesStep ==
  ASSUME BatchInv, stage = "resolve", at < Len(RepoList), NEW pairs,
         Resolves(RepoList[at + 1], pairs)
  PROVE  BatchInv'
<1> DEFINE r == RepoList[at + 1]
<1>1. /\ at' = at + 1 /\ UNCHANGED <<stage, repo, outcomes, sched, cache, code, jobs>>
      /\ \/ pairs = <<>> /\ skipped' = skipped \cup {r} /\ items' = items
         \/ pairs # <<>> /\ items' = [items EXCEPT ![r] = pairs] /\ skipped' = skipped
  BY DEF Resolves, settings, shared
<1>2. r \in Urls /\ at \in Nat /\ at' \in 0..Len(RepoList)
      /\ \A i \in 1..at' : i \in 1..at \/ i = at + 1
  BY <1>1, Entries DEF BatchInv, AccountInv
<1>3. items' = [q \in Urls |-> items'[q]] /\ \A q \in Urls \ {r} : items'[q] = items[q]
  BY <1>1 DEF BatchInv, AccountInv
<1>4. items'[r] = <<>> => r \in skipped' \/ items[r] = <<>>
  BY <1>1, <1>2 DEF BatchInv, AccountInv
<1>5. pairs = <<>> => r \in skipped'
  BY <1>1
<1>6. pairs # <<>> => items'[r] # <<>>
  BY <1>1, <1>2 DEF BatchInv, AccountInv
<1>7. \A i \in 1..at' : items'[RepoList[i]] = <<>> => RepoList[i] \in skipped'
  <2> SUFFICES ASSUME NEW i \in 1..at', items'[RepoList[i]] = <<>>
               PROVE  RepoList[i] \in skipped'
    OBVIOUS
  <2>1. CASE RepoList[i] = r
    BY <2>1, <1>5, <1>6
  <2>2. CASE RepoList[i] # r
    <3>1. i \in 1..at /\ RepoList[i] \in Urls
      BY <2>2, <1>2, Entries
    <3>2. items[RepoList[i]] = <<>>
      BY <2>2, <3>1, <1>3
    <3> QED BY <3>1, <3>2, <1>1 DEF BatchInv, AccountInv
  <2> QED BY <2>1, <2>2
<1> HIDE DEF r
<1>8. AccountInv'
  BY <1>1, <1>2, <1>3, <1>7 DEF BatchInv, AccountInv
<1>9. StageInv'
  BY <1>1 DEF BatchInv, StageInv
<1>10. Scanning' = Scanning
  BY <1>1 DEF Scanning
<1>11. CountInv'
  BY <1>1, <1>10 DEF BatchInv, CountInv
<1>12. CodeInv'
  BY <1>1 DEF BatchInv, CodeInv
<1> QED BY <1>8, <1>9, <1>11, <1>12 DEF BatchInv

\* The scan of a pair ends, with a code or with an exception.
LEMMA ScanEndsStep ==
  ASSUME BatchInv, NEW r \in Urls, NEW exitCode \in 0..3, ScanEnds(r, exitCode)
  PROVE  BatchInv'
<1>1. /\ r \in Scanning /\ repo[r] \in {"scanning", "cancelled"}
      /\ outcomes' = [outcomes EXCEPT ![r] = Append(@, exitCode)]
      /\ repo' = [repo EXCEPT ![r] = IF NextPair(r) THEN "done" ELSE "scanning"]
      /\ UNCHANGED <<jobs, stage, at, items, skipped, sched, cache, code>>
  BY DEF ScanEnds, Scanning, settings, shared
<1>2. \A q \in Urls \ {r} : repo'[q] = repo[q] /\ outcomes'[q] = outcomes[q]
  BY <1>1 DEF BatchInv, StageInv, CodeInv
<1>3. /\ repo'[r] \in {"done", "scanning"}
      /\ repo'[r] = "done" => Len(outcomes'[r]) = Len(items'[r])
  BY <1>1 DEF BatchInv, StageInv, NextPair
<1>4. outcomes'[r] \in Seq(0..3)
  BY <1>1 DEF BatchInv, CodeInv
<1>5. /\ repo' = [q \in Urls |-> repo'[q]]
      /\ outcomes' = [q \in Urls |-> outcomes'[q]]
  BY <1>1 DEF BatchInv, StageInv, CodeInv
<1>6. Planned' = Planned /\ stage \notin {"setup", "resolve"}
  BY <1>1 DEF BatchInv, StageInv, Planned
<1>7. StageInv'
  <2>1. ASSUME stage = "scan" PROVE \A q \in Urls : repo'[q] # "none" <=> q \in Planned'
    BY <2>1, <1>1, <1>2, <1>3, <1>6 DEF BatchInv, StageInv
  <2>2. ASSUME stage # "scan" PROVE code = Raised /\ \E q \in Planned : repo[q] = "gone"
    BY <2>2, <1>1, <1>6 DEF BatchInv, StageInv
  <2>3. ASSUME stage # "scan"
        PROVE  code' = Raised /\ \E q \in Planned' : repo'[q] = "gone"
    <3>1. PICK q \in Planned : repo[q] = "gone"
      BY <2>2, <2>3
    <3>2. q \in Urls \ {r}
      BY <3>1, <1>1 DEF Planned
    <3> QED BY <2>2, <2>3, <3>1, <3>2, <1>1, <1>2, <1>6
  <2> QED BY <2>1, <2>3, <1>1, <1>5, <1>6 DEF BatchInv, StageInv
<1>8. Scanning' \subseteq Scanning
  BY <1>1, <1>2 DEF Scanning
<1>9. CountInv'
  <2>1. Cardinality(Scanning') <= Cardinality(Scanning) /\ IsFiniteSet(Scanning')
        /\ Cardinality(Scanning') \in Nat /\ Cardinality(Scanning) \in Nat
    BY <1>8, FS_Subset, FS_CardinalityType DEF BatchInv, CountInv
  <2> QED BY <2>1, <1>1 DEF BatchInv, CountInv
<1>10. CodeInv'
  <2>1. stage = "ended" => code = Raised
    BY <1>1 DEF BatchInv, StageInv
  <2> QED BY <2>1, <1>1, <1>2, <1>3, <1>4, <1>5 DEF BatchInv, CodeInv
<1>11. AccountInv'
  BY <1>1, <1>2, <1>3, <1>6 DEF BatchInv, AccountInv
<1> QED BY <1>7, <1>9, <1>10, <1>11 DEF BatchInv

\* The worst of the outcomes is an exit code that none of them exceeds.
LEMMA WorstOutcome ==
  ASSUME CodeInv
  PROVE  /\ AllOutcomes \subseteq 0..3 /\ Worst \in 0..3
         /\ \A d \in AllOutcomes : d <= Worst
<1>1. AllOutcomes \subseteq 0..3
  BY DEF CodeInv, AllOutcomes, Range
<1>2. ASSUME AllOutcomes # {}
      PROVE  \E c \in AllOutcomes : \A d \in AllOutcomes : d <= c
  <2>1. CASE 3 \in AllOutcomes
    BY <2>1, <1>1
  <2>2. CASE 3 \notin AllOutcomes /\ 2 \in AllOutcomes
    BY <2>2, <1>1
  <2>3. CASE 3 \notin AllOutcomes /\ 2 \notin AllOutcomes /\ 1 \in AllOutcomes
    BY <2>3, <1>1
  <2>4. CASE AllOutcomes \subseteq {0}
    <3>1. PICK c : c \in AllOutcomes
      BY <1>2
    <3>2. c = 0 /\ \A d \in AllOutcomes : d = 0
      BY <3>1, <2>4
    <3> QED BY <3>1, <3>2
  <2>5. \A c \in AllOutcomes : c = 0 \/ c = 1 \/ c = 2 \/ c = 3
    BY <1>1
  <2>6. (3 \notin AllOutcomes /\ 2 \notin AllOutcomes /\ 1 \notin AllOutcomes)
           => AllOutcomes \subseteq {0}
    BY <2>5
  <2> QED BY <2>1, <2>2, <2>3, <2>4, <2>6
<1>3. CASE AllOutcomes = {}
  BY <1>3 DEF Worst
<1>4. CASE AllOutcomes # {}
  <2>1. Worst \in AllOutcomes /\ \A d \in AllOutcomes : d <= Worst
    BY <1>2, <1>4 DEF Worst
  <2> QED BY <1>1, <2>1
<1> QED BY <1>1, <1>3, <1>4

\* The exit code 0 means that every scan ended with 0.
LEMMA WorstIsWorst ==
  ASSUME CodeInv, Worst = 0
  PROVE  AllOutcomes \subseteq {0}
BY WorstOutcome

LEMMA WorstCode == CodeInv => Worst \in 0..3
BY WorstOutcome

\* What a cancellation does to the task of a repository.
LEMMA CancelledKeeps ==
  ASSUME NEW s
  PROVE  /\ Cancelled(s) \in {"scanning", "cancelled"} <=> s \in {"scanning", "cancelled"}
         /\ Cancelled(s) = "none" <=> s = "none"
         /\ Cancelled(s) = "done" <=> s = "done"
         /\ s = "gone" => Cancelled(s) = "gone"
BY DEF Cancelled

\* The step cancels every task.
CancelledRight ==
  /\ repo' = [r \in Urls |-> repo'[r]]
  /\ \A r \in Urls :
       /\ repo'[r] \in {"scanning", "cancelled"} <=> repo[r] \in {"scanning", "cancelled"}
       /\ repo'[r] = "none" <=> repo[r] = "none"
       /\ repo'[r] = "done" <=> repo[r] = "done"
       /\ repo[r] = "gone" => repo'[r] = "gone"

LEMMA BatchStep == BatchInv /\ [Next]_vars => BatchInv'
<1> SUFFICES ASSUME BatchInv, [Next]_vars PROVE BatchInv'
  OBVIOUS
<1>i. StageInv /\ CountInv /\ CodeInv /\ AccountInv
  BY DEF BatchInv
<1>1. CASE SetupFails \/ SetsUp
  <2>1. /\ UNCHANGED <<repo, items, skipped, outcomes, at, jobs>> /\ stage = "setup"
        /\ \/ stage' = "cut" /\ code' = Raised
           \/ /\ stage' = "resolve" /\ code' = code
              /\ sched' = "open" /\ cache' \in {"none", "open"}
    BY <1>1 DEF SetupFails, SetsUp, settings
  <2>2. StageInv'
    BY <2>1, <1>i DEF StageInv
  <2>3. Scanning' = Scanning
    BY <2>1 DEF Scanning
  <2>4. CountInv'
    BY <2>1, <2>3, <1>i DEF CountInv
  <2>5. CodeInv' /\ AccountInv'
    BY <2>1, <1>i DEF CodeInv, AccountInv
  <2> QED BY <2>2, <2>4, <2>5 DEF BatchInv
<1>2. CASE CloneFails
  BY <1>2, ResolvesStep DEF CloneFails
<1>3. ASSUME NEW h, Lists(h) PROVE BatchInv'
  BY <1>3, ResolvesStep DEF Lists
<1>4. CASE ResolveRaises
  <2>1. /\ stage = "resolve" /\ stage' = "finally" /\ code' = Raised
        /\ UNCHANGED <<jobs, at, items, skipped, repo, outcomes>>
    BY <1>4 DEF ResolveRaises, settings
  <2>2. Scanning' = Scanning
    BY <2>1 DEF Scanning
  <2>3. CountInv'
    BY <2>1, <2>2, <1>i DEF CountInv
  <2>4. StageInv' /\ CodeInv' /\ AccountInv'
    BY <2>1, <1>i DEF StageInv, CodeInv, AccountInv
  <2> QED BY <2>3, <2>4 DEF BatchInv
<1>5. CASE StartsScans
  <2>1. /\ stage = "resolve" /\ at = Len(RepoList) /\ stage' = "scan"
        /\ jobs' \in 1..MaxConcurrency
        /\ repo' = [r \in Urls |-> IF r \in Planned THEN "waiting" ELSE "none"]
        /\ UNCHANGED <<at, items, skipped, outcomes, sched, cache, code>>
    BY <1>5 DEF StartsScans, AllResolved, shared
  <2>2. Scanning' = {} /\ Planned' = Planned
    BY <2>1 DEF Scanning, Planned
  <2>3. jobs' \in Nat \ {0}
    BY <2>1, BatchAssumption
  <2>4. CountInv'
    BY <2>2, <2>3, FS_EmptySet DEF CountInv
  <2>5. StageInv'
    BY <2>1, <2>2, <1>i DEF StageInv
  <2>6. CodeInv'
    BY <2>1, <1>i DEF CodeInv
  <2>7. \A r \in Urls : repo'[r] \in {"none", "done"} => items'[r] = <<>> /\ outcomes'[r] = <<>>
    BY <2>1, <1>i DEF Planned, AccountInv
  <2>8. AccountInv'
    BY <2>1, <2>7, <1>i DEF AccountInv
  <2> QED BY <2>4, <2>5, <2>6, <2>8 DEF BatchInv
<1>6. ASSUME NEW r \in Urls, Enters(r) PROVE BatchInv'
  <2>1. /\ stage = "scan" /\ repo[r] = "waiting" /\ Cardinality(Scanning) < jobs
        /\ repo' = [repo EXCEPT ![r] = "scanning"]
        /\ UNCHANGED <<jobs, stage, at, items, skipped, outcomes, sched, cache, code>>
    BY <1>6 DEF Enters, settings, shared
  <2>2. /\ repo' = [q \in Urls |-> repo'[q]] /\ repo'[r] = "scanning"
        /\ \A q \in Urls \ {r} : repo'[q] = repo[q]
    BY <2>1, <1>i DEF StageInv
  <2>3. Scanning' = Scanning \cup {r} /\ r \notin Scanning /\ Planned' = Planned
    BY <2>1, <2>2 DEF Scanning, Planned
  <2>4. CountInv'
    <3>1. /\ IsFiniteSet(Scanning') /\ Cardinality(Scanning') = Cardinality(Scanning) + 1
          /\ Cardinality(Scanning) \in Nat
      BY <2>3, <1>i, FS_AddElement, FS_CardinalityType DEF CountInv
    <3> QED BY <3>1, <2>1, <1>i DEF CountInv
  <2>5. StageInv'
    BY <2>1, <2>2, <2>3, <1>i DEF StageInv
  <2>6. CodeInv' /\ AccountInv'
    BY <2>1, <2>2, <1>i DEF CodeInv, AccountInv
  <2> QED BY <2>4, <2>5, <2>6 DEF BatchInv
<1>7. ASSUME NEW r \in Urls, ScanRaises(r) \/ \E exitCode \in 0..3 : ScanEnds(r, exitCode)
      PROVE  BatchInv'
  <2>1. 2 \in 0..3
    OBVIOUS
  <2> QED BY <1>7, <2>1, ScanEndsStep DEF ScanRaises
<1>8. ASSUME NEW r \in Urls, ScanUnwinds(r) PROVE BatchInv'
  <2>1. /\ repo[r] = "cancelled" /\ repo' = [repo EXCEPT ![r] = "gone"]
        /\ UNCHANGED <<jobs, stage, at, items, skipped, outcomes, sched, cache, code>>
    BY <1>8 DEF ScanUnwinds, settings, shared
  <2>2. /\ repo' = [q \in Urls |-> repo'[q]] /\ repo'[r] = "gone"
        /\ \A q \in Urls \ {r} : repo'[q] = repo[q]
    BY <2>1, <1>i DEF StageInv
  <2>3. Scanning' \subseteq Scanning /\ Planned' = Planned
    BY <2>1, <2>2 DEF Scanning, Planned
  <2>4. CountInv'
    <3>1. Cardinality(Scanning') <= Cardinality(Scanning) /\ IsFiniteSet(Scanning')
          /\ Cardinality(Scanning') \in Nat /\ Cardinality(Scanning) \in Nat
      BY <2>3, <1>i, FS_Subset, FS_CardinalityType DEF CountInv
    <3> QED BY <3>1, <2>1, <1>i DEF CountInv
  <2>5. StageInv'
    <3>1. stage \notin {"setup", "resolve"}
      BY <2>1, <1>i DEF StageInv
    <3>2. ASSUME stage # "scan"
          PROVE  code' = Raised /\ \E q \in Planned' : repo'[q] = "gone"
      <4>1. PICK q \in Planned : repo[q] = "gone" /\ code = Raised
        BY <3>1, <3>2, <2>1, <1>i DEF StageInv
      <4>2. q \in Urls \ {r}
        BY <4>1, <2>1 DEF Planned
      <4> QED BY <4>1, <4>2, <2>1, <2>2, <2>3
    <3> QED BY <3>1, <3>2, <2>1, <2>2, <2>3, <1>i DEF StageInv
  <2>6. code = Raised
    BY <2>1, <1>i DEF CodeInv
  <2>7. CodeInv' /\ AccountInv'
    BY <2>1, <2>2, <2>6, <1>i DEF CodeInv, AccountInv
  <2> QED BY <2>4, <2>5, <2>7 DEF BatchInv
<1>9. CASE Gathers
  <2>1. /\ stage = "scan" /\ Gathered /\ stage' = "finally"
        /\ UNCHANGED <<jobs, at, items, skipped, repo, outcomes, code>>
    BY <1>9 DEF Gathers, settings
  <2>2. \/ \A r \in Urls : repo[r] \in {"none", "done"}
        \/ code' = Raised /\ \E r \in Planned' : repo'[r] = "gone"
    <3>1. CASE \E r \in Planned : repo[r] = "gone"
      <4>1. \E r \in Urls : repo[r] = "gone"
        BY <3>1 DEF Planned
      <4>2. code = Raised /\ Planned' = Planned
        BY <4>1, <2>1, <1>i DEF CodeInv, Planned
      <4> QED BY <3>1, <4>2, <2>1
    <3>2. CASE \A r \in Planned : repo[r] = "done"
      BY <3>2, <2>1, <1>i DEF StageInv
    <3> QED BY <3>1, <3>2, <2>1 DEF Gathered
  <2>3. Scanning' = Scanning
    BY <2>1 DEF Scanning
  <2>4. CountInv'
    BY <2>1, <2>3, <1>i DEF CountInv
  <2>5. StageInv' /\ CodeInv' /\ AccountInv'
    BY <2>1, <2>2, <1>i DEF StageInv, CodeInv, AccountInv
  <2> QED BY <2>4, <2>5 DEF BatchInv
<1>10. CASE Closes \/ CloseHangs \/ InterruptsClose
  <2>1. /\ UNCHANGED <<jobs, at, items, skipped, repo, outcomes>>
        /\ \/ stage = "finally" /\ stage' = "closing" /\ sched' = "closed" /\ code' = code
           \/ stage = "closing" /\ stage' = "hung" /\ UNCHANGED <<sched, code>>
           \/ stage \in {"closing", "hung"} /\ stage' = "cut" /\ code' = Raised
    BY <1>10 DEF Closes, CloseHangs, InterruptsClose, settings, shared
  <2>2. Scanning' = Scanning /\ Planned' = Planned
    BY <2>1 DEF Scanning, Planned
  <2>3. CountInv'
    BY <2>1, <2>2, <1>i DEF CountInv
  <2>4. CodeInv' /\ AccountInv'
    BY <2>1, <1>i DEF CodeInv, AccountInv
  <2>5. \/ \A r \in Urls : repo[r] \in {"none", "done"}
        \/ code = Raised /\ \E r \in Planned : repo[r] = "gone"
    BY <2>1, <1>i DEF StageInv
  <2>6. StageInv'
    BY <2>1, <2>2, <2>5, <1>i DEF StageInv
  <2> QED BY <2>3, <2>4, <2>6 DEF BatchInv
<1>11. CASE Ends
  <2>1. /\ stage = "closing" /\ stage' = "ended"
        /\ code' = IF code = Raised THEN code ELSE Worst
        /\ cache' # "open" /\ repo' = [r \in Urls |-> Cancelled(repo[r])]
        /\ UNCHANGED <<jobs, at, items, skipped, outcomes, sched>>
    BY <1>11 DEF Ends, CancelsTasks, settings
  <2>2. CancelledRight
    BY <2>1, CancelledKeeps DEF CancelledRight
  <2>3. Scanning' = Scanning /\ Planned' = Planned /\ Worst' = Worst
    BY <2>1, <2>2 DEF CancelledRight, Scanning, Planned, Worst, AllOutcomes
  <2>4. CountInv'
    BY <2>1, <2>3, <1>i DEF CountInv
  <2>5. code # Raised => \A r \in Urls : repo[r] \in {"none", "done"}
    BY <2>1, <1>i DEF StageInv
  <2>6. code # Raised => \A r \in Urls : repo'[r] \in {"none", "done"}
    BY <2>2, <2>5 DEF CancelledRight
  <2>7. (code' = Raised <=> code = Raised) /\ (code = Raised \/ code' = Worst)
    <3>1. Worst \in 0..3 => Worst # Raised
      BY BatchAssumption
    <3> QED BY <2>1, <3>1, WorstCode, <1>i
  <2>8. CodeInv'
    BY <2>1, <2>3, <2>6, <2>7, <1>i DEF CodeInv
  <2>9. \/ \A r \in Urls : repo'[r] \in {"none", "done"}
        \/ code' = Raised /\ \E r \in Planned' : repo'[r] = "gone"
    <3>1. CASE \A r \in Urls : repo[r] \in {"none", "done"}
      BY <3>1, <2>2 DEF CancelledRight
    <3>2. CASE code = Raised /\ \E r \in Planned : repo[r] = "gone"
      BY <3>2, <2>2, <2>3, <2>7 DEF CancelledRight, Planned
    <3> QED BY <3>1, <3>2, <2>1, <1>i DEF StageInv
  <2>10. sched' = "closed"
    BY <2>1, <1>i DEF StageInv
  <2>11. StageInv'
    BY <2>1, <2>9, <2>10, <1>i DEF StageInv
  <2>12. AccountInv'
    BY <2>1, <2>2, <2>5, <2>7, <1>i DEF AccountInv, CancelledRight
  <2> QED BY <2>4, <2>8, <2>11, <2>12 DEF BatchInv
<1>12. CASE Interrupt
  <2>1. /\ stage \in {"resolve", "scan"} /\ code' = Raised
        /\ stage' = IF stage = "resolve" THEN "finally" ELSE "scan"
        /\ repo' = [r \in Urls |-> Cancelled(repo[r])]
        /\ UNCHANGED <<jobs, at, items, skipped, outcomes, sched, cache>>
    BY <1>12 DEF Interrupt, CancelsTasks, settings, shared
  <2>2. CancelledRight
    BY <2>1, CancelledKeeps DEF CancelledRight
  <2>3. Scanning' = Scanning /\ Planned' = Planned
    BY <2>1, <2>2 DEF CancelledRight, Scanning, Planned
  <2>4. CountInv'
    BY <2>1, <2>3, <1>i DEF CountInv
  <2>5. StageInv'
    BY <2>1, <2>2, <2>3, <1>i DEF StageInv, CancelledRight
  <2>6. CodeInv' /\ AccountInv'
    BY <2>1, <1>i DEF CodeInv, AccountInv
  <2> QED BY <2>4, <2>5, <2>6 DEF BatchInv
<1>13. CASE UNCHANGED vars
  <2>1. UNCHANGED <<jobs, stage, at, items, skipped, repo, outcomes, sched, cache, code>>
    BY <1>13 DEF vars, settings, shared
  <2>2. /\ Scanning' = Scanning /\ Planned' = Planned
        /\ AllOutcomes' = AllOutcomes
    BY <2>1 DEF Scanning, Planned, AllOutcomes
  <2>3. Worst' = Worst
    BY <2>2 DEF Worst
  <2> QED BY <2>1, <2>2, <2>3 DEF BatchInv, StageInv, CountInv, CodeInv, AccountInv
<1> QED BY <1>1, <1>2, <1>3, <1>4, <1>5, <1>6, <1>7, <1>8, <1>9, <1>10, <1>11, <1>12,
           <1>13 DEF Next, Steps

-----------------------------------------------------------------------------
\* No scan of a batch outlives the scheduler and the cache that it shares with the
\* others, unless an interrupt cancelled it with a repository that ended first; the
\* semaphore keeps its bound, with cancelled scans counted.
THEOREM SharedOutlive == Spec => []SharedOutliveScans
<1>1. BatchInv => SharedOutliveScans
  BY DEF BatchInv, StageInv, CountInv, SharedOutliveScans, Scanning
<1> QED BY <1>1, InitInv, BatchStep, PTL DEF Spec

\* A batch that ends with a code has told of every pair: no repository of the list and
\* no scan is lost, whichever of them failed or raised.
THEOREM AllAccounted == Spec => []NothingUnaccounted
<1>1. BatchInv => NothingUnaccounted
  <2> SUFFICES ASSUME BatchInv, stage = "ended", code # Raised
               PROVE  /\ \A r \in Urls : /\ items[r] = <<>> => r \in skipped
                                         /\ Len(outcomes[r]) = Len(items[r])
                      /\ code = 0 => AllOutcomes \subseteq {0}
    BY DEF NothingUnaccounted
  <2>1. /\ at = Len(RepoList)
        /\ \A r \in Urls : repo[r] \in {"none", "done"} => Len(outcomes[r]) = Len(items[r])
    BY DEF BatchInv, AccountInv
  <2>2. \A r \in Urls : Len(outcomes[r]) = Len(items[r])
    BY <2>1 DEF BatchInv, StageInv
  <2>3. \A r \in Urls : items[r] = <<>> => r \in skipped
    BY <2>1, Entries DEF BatchInv, AccountInv
  <2>4. code = 0 => AllOutcomes \subseteq {0}
    BY WorstIsWorst DEF BatchInv, CodeInv
  <2> QED BY <2>2, <2>3, <2>4
<1> QED BY <1>1, InitInv, BatchStep, PTL DEF Spec

\* The pairs last resolved are right, from settings that stay as they are.
PairsInv == PairsCorrect /\ pairing \in Modes /\ last \in {NoLimit} \cup Nat

LEMMA PairsInit == Init => PairsInv
BY BatchAssumption DEF Init, PairsInv, PairsCorrect

LEMMA PairsStep == BatchInv /\ PairsInv /\ [Next]_vars => PairsInv'
<1> SUFFICES ASSUME BatchInv, PairsInv, [Next]_vars PROVE PairsInv'
  OBVIOUS
<1>1. ASSUME UNCHANGED <<pairing, last>>, history' \in {history, NoHistory} PROVE PairsInv'
  <2>1. CASE history' = history
    BY <1>1, <2>1 DEF PairsInv, PairsCorrect
  <2>2. CASE history' = NoHistory
    <3>1. PairsCorrect'
      BY <2>2 DEF PairsCorrect, NoHistory
    <3> QED BY <1>1, <3>1 DEF PairsInv
  <2> QED BY <1>1, <2>1, <2>2
<1>2. ASSUME at < Len(RepoList), NEW h \in Histories[RepoList[at + 1]], Lists(h),
             RepoList[at + 1] \in Urls
      PROVE  PairsInv'
  <2>1. IsHistory(h)
    BY <1>2, BatchAssumption DEF Urls
  <2> DEFINE listed == Listed(h, pairing, last)
             pairs == ResolvedPairs(listed, pairing, last)
  <2>2. history' = [listed |-> listed, pairs |-> pairs] /\ UNCHANGED <<pairing, last>>
    BY <1>2 DEF Lists, Resolves, settings
  <2>3. IsHistory(listed)
    BY <2>1, ListedHistory, LimitsAssumption
  <2> HIDE DEF listed
  <2>4. IF pairing = "ancestry" THEN AncestryCorrect(listed, last, pairs)
        ELSE LegacyCorrect(listed, pairing, last, pairs)
    BY <2>3, ResolvedCorrect DEF PairsInv
  <2> HIDE DEF pairs
  <2>5. history'.listed = listed /\ history'.pairs = pairs
    BY <2>2
  <2>6. PairsCorrect'
    BY <2>2, <2>4, <2>5 DEF PairsCorrect
  <2> QED BY <2>2, <2>6 DEF PairsInv
<1>3. CASE \/ SetupFails \/ SetsUp \/ Gathers \/ Closes \/ CloseHangs \/ InterruptsClose
           \/ Ends \/ UNCHANGED vars
  BY <1>1, <1>3
     DEF SetupFails, SetsUp, Gathers, Closes, CloseHangs, InterruptsClose, Ends, vars, settings
<1>4. CASE CloneFails \/ ResolveRaises \/ StartsScans \/ Interrupt
  BY <1>1, <1>4 DEF CloneFails, ResolveRaises, StartsScans, Interrupt, Resolves, settings
<1>5. ASSUME NEW r \in Urls, NEW exitCode, \/ Enters(r) \/ ScanRaises(r) \/ ScanUnwinds(r)
                                           \/ ScanEnds(r, exitCode)
      PROVE  PairsInv'
  BY <1>1, <1>5 DEF Enters, ScanRaises, ScanUnwinds, ScanEnds, settings
<1>6. ASSUME at < Len(RepoList), NEW h \in Histories[RepoList[at + 1]], Lists(h)
      PROVE  PairsInv'
  <2>1. at + 1 \in 1..Len(RepoList)
    BY <1>6, Entries DEF BatchInv, AccountInv
  <2> QED BY <1>2, <1>6, <2>1, Entries
<1> QED BY <1>3, <1>4, <1>5, <1>6 DEF Next, Steps

\* The pairs that a batch scans are the ones that its pairing mode promises, for every
\* history and every number of releases asked for.
THEOREM PairsAreCorrect == Spec => []PairsCorrect
<1>1. PairsInv => PairsCorrect
  BY DEF PairsInv
<1> QED BY <1>1, InitInv, BatchStep, PairsInit, PairsStep, PTL DEF Spec
=============================================================================
