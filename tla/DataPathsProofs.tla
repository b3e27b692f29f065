-------------------------- MODULE DataPathsProofs --------------------------
(***************************************************************************)
(* What holds of the paths of text for files of any hunks and lines,       *)
(* repositories of any files, answers of any pieces, and any budget, page  *)
(* sizes and number of attempts.                                           *)
(***************************************************************************)
EXTENDS DataPaths, SequenceTheorems, FiniteSetTheorems, WellFoundedInduction, TLAPS

-----------------------------------------------------------------------------
(* Sequences: what is flattened, in parts and in pages                     *)

\* Every set of numbers has a least one.
LEMMA LeastNat ==
  ASSUME NEW T, T \subseteq Nat, T # {}
  PROVE  \E x \in T : \A y \in T : ~ (y < x)
<1> DEFINE R == OpToRel(<, Nat)
<1>1. IsWellFoundedOn(R, Nat)
  BY NatLessThanWellFounded
<1>2. R = {ss \in Nat \X Nat : ss[1] < ss[2]}
  BY DEF OpToRel
<1> HIDE DEF R
<1>3. \E x \in T : \A y \in T : ~ (<<y, x>> \in R)
  BY <1>1, WFMin
<1> QED BY <1>2, <1>3

\* Induction over the numbers, on a set.
LEMMA SetInduction ==
  ASSUME NEW S, 0 \in S, \A n \in Nat : n \in S => n + 1 \in S
  PROVE  Nat \subseteq S
<1> SUFFICES ASSUME ~(Nat \subseteq S) PROVE FALSE OBVIOUS
<1>1. PICK x \in Nat \ S : \A y \in Nat \ S : ~ (y < x)
  BY LeastNat
<1>2. x # 0 OBVIOUS
<1>3. x - 1 \in Nat BY <1>2
<1>4. x - 1 \in S BY <1>1, <1>3
<1> QED BY <1>4, <1>3

\* f holds what ss is joined to, up to each of its first n sequences.
Joined(ss, f, n) == \A i \in 1..n : f[i] = IF i = 1 THEN ss[i] ELSE f[i - 1] \o ss[i]

\* The beginnings of a joined sequence of sequences are a function.
LEMMA JoinedExists ==
  ASSUME NEW T, NEW ss \in Seq(Seq(T))
  PROVE  \E f \in [1..Len(ss) -> Seq(T)] : Joined(ss, f, Len(ss))
<1> DEFINE S == {n \in Nat : n <= Len(ss) => \E f \in [1..n -> Seq(T)] : Joined(ss, f, n)}
<1>1. 0 \in S
  <2> DEFINE f == [i \in 1..0 |-> <<>>]
  <2>1. f \in [1..0 -> Seq(T)] /\ Joined(ss, f, 0)
    BY DEF Joined
  <2> QED BY <2>1
<1>2. ASSUME NEW n \in Nat, n \in S PROVE n + 1 \in S
  <2> SUFFICES ASSUME n + 1 <= Len(ss)
               PROVE  \E f \in [1..(n + 1) -> Seq(T)] : Joined(ss, f, n + 1)
    OBVIOUS
  <2>1. PICK f \in [1..n -> Seq(T)] : Joined(ss, f, n)
    BY <1>2
  <2> DEFINE last == IF n = 0 THEN ss[1] ELSE f[n] \o ss[n + 1]
             g == [i \in 1..(n + 1) |-> IF i = n + 1 THEN last ELSE f[i]]
  <2>2. last \in Seq(T)
    <3>1. ss[n + 1] \in Seq(T) /\ (n # 0 => f[n] \in Seq(T))
      OBVIOUS
    <3> QED BY <3>1, ConcatProperties
  <2> HIDE DEF last
  <2>3. g \in [1..(n + 1) -> Seq(T)]
    BY <2>2
  <2>4. g[n + 1] = last /\ \A i \in 1..n : g[i] = f[i]
    OBVIOUS
  <2> HIDE DEF g
  <2>5. Joined(ss, g, n + 1)
    <3> SUFFICES ASSUME NEW i \in 1..(n + 1)
                 PROVE  g[i] = IF i = 1 THEN ss[i] ELSE g[i - 1] \o ss[i]
      BY DEF Joined
    <3>1. CASE i \in 1..n
      <4>1. i # 1 => i - 1 \in 1..n
        BY <3>1
      <4> QED BY <2>1, <2>4, <3>1, <4>1 DEF Joined
    <3>2. CASE i = n + 1
      <4>1. n # 0 => n \in 1..n /\ (n + 1) - 1 = n /\ n + 1 # 1
        OBVIOUS
      <4> QED BY <2>4, <3>2, <4>1 DEF last
    <3> QED BY <3>1, <3>2
  <2> QED BY <2>3, <2>5
<1> HIDE DEF S
<1>3. Nat \subseteq S
  BY <1>1, <1>2, SetInduction
<1>4. Len(ss) \in S /\ Len(ss) \in Nat
  BY <1>3
<1> QED BY <1>4 DEF S

\* One sequence more.
LEMMA JoinedLonger ==
  ASSUME NEW ss, NEW f, NEW n \in Nat, Joined(ss, f, n + 1)
  PROVE  /\ Joined(ss, f, n)
         /\ f[n + 1] = IF n = 0 THEN ss[1] ELSE f[n] \o ss[n + 1]
<1>1. /\ \A i \in 1..n : i \in 1..(n + 1)
      /\ n + 1 \in 1..(n + 1) /\ (n + 1) - 1 = n /\ (n # 0 => n + 1 # 1)
  OBVIOUS
<1> QED BY <1>1 DEF Joined

\* Two sequences agree up to n.
Agree(s, t, n) == \A i \in 1..n : s[i] = t[i]

\* What is joined from the same sequences is the same.
LEMMA JoinedUnique ==
  ASSUME NEW n \in Nat, NEW ss, NEW tt, NEW f, NEW g,
         Agree(ss, tt, n), Joined(ss, f, n), Joined(tt, g, n)
  PROVE  Agree(f, g, n)
<1> DEFINE S == {k \in Nat : k \in 1..n => f[k] = g[k]}
<1>1. 0 \in S
  OBVIOUS
<1>2. ASSUME NEW k \in Nat, k \in S PROVE k + 1 \in S
  BY <1>2 DEF Joined, Agree
<1> HIDE DEF S
<1>3. Nat \subseteq S
  BY <1>1, <1>2, SetInduction
<1> QED BY <1>3 DEF S, Agree

\* FlattenSeq joins, whichever instance it is of.
LEMMA FlattenIs ==
  ASSUME NEW T, NEW ss \in Seq(Seq(T)), ss # <<>>, NEW f, Joined(ss, f, Len(ss))
  PROVE  Pages!FlattenSeq(ss) = f[Len(ss)] /\ Diff!FlattenSeq(ss) = f[Len(ss)]
<1> DEFINE Flatten(h) == h = [i \in 1..Len(ss) |-> IF i = 1 THEN ss[i] ELSE h[i - 1] \o ss[i]]
           h0 == CHOOSE h : Flatten(h)
<1>1. PICK g \in [1..Len(ss) -> Seq(T)] : Joined(ss, g, Len(ss))
  BY JoinedExists
<1>2. Flatten(g)
  BY <1>1 DEF Joined
<1>3. Flatten(h0)
  BY <1>2
<1>4. Len(ss) \in Nat /\ Len(ss) # 0
  OBVIOUS
<1>5. Pages!FlattenSeq(ss) = h0[Len(ss)]
  BY <1>4 DEF Pages!FlattenSeq
<1>6. Diff!FlattenSeq(ss) = h0[Len(ss)]
  BY <1>4 DEF Diff!FlattenSeq
<1> HIDE DEF h0
<1>7. Joined(ss, h0, Len(ss))
  BY <1>3 DEF Joined
<1>8. Agree(ss, ss, Len(ss))
  BY DEF Agree
<1>9. Agree(h0, f, Len(ss))
  BY <1>4, <1>7, <1>8, JoinedUnique
<1>10. h0[Len(ss)] = f[Len(ss)]
  <2>1. Len(ss) \in 1..Len(ss)
    BY <1>4
  <2> QED BY <1>9, <2>1 DEF Agree
<1> QED BY <1>5, <1>6, <1>10

\* The two instances of FlattenSeq agree.
LEMMA SameFlatten == \A T : \A ss \in Seq(Seq(T)) : Diff!FlattenSeq(ss) = Pages!FlattenSeq(ss)
<1> SUFFICES ASSUME NEW T, NEW ss \in Seq(Seq(T))
             PROVE  Diff!FlattenSeq(ss) = Pages!FlattenSeq(ss)
  OBVIOUS
<1>1. CASE ss = <<>>
  BY <1>1 DEF Diff!FlattenSeq, Pages!FlattenSeq
<1>2. CASE ss # <<>>
  BY <1>2, JoinedExists, FlattenIs
<1> QED BY <1>1, <1>2

\* A sequence appended is joined at the end.
LEMMA FlattenAppend ==
  ASSUME NEW T, NEW ss \in Seq(Seq(T)), NEW s \in Seq(T)
  PROVE  /\ Pages!FlattenSeq(<<>>) = <<>>
         /\ Pages!FlattenSeq(ss) \in Seq(T)
         /\ Pages!FlattenSeq(Append(ss, s)) = Pages!FlattenSeq(ss) \o s
<1>1. Pages!FlattenSeq(<<>>) = <<>>
  BY DEF Pages!FlattenSeq
<1> DEFINE tt == Append(ss, s)
           n == Len(ss)
<1>2. /\ tt \in Seq(Seq(T)) /\ tt # <<>> /\ Len(tt) = n + 1 /\ tt[n + 1] = s
      /\ n \in Nat /\ \A i \in 1..n : tt[i] = ss[i]
  <2> DEFINE E == Seq(T)
  <2>1. ss \in Seq(E) /\ s \in E
    OBVIOUS
  <2> HIDE DEF E
  <2>2. /\ Append(ss, s) \in Seq(E) /\ Append(ss, s) # <<>> /\ Len(Append(ss, s)) = Len(ss) + 1
        /\ Append(ss, s)[Len(ss) + 1] = s
        /\ Len(ss) \in Nat /\ \A i \in 1..Len(ss) : Append(ss, s)[i] = ss[i]
    BY <2>1, AppendProperties, LenProperties
  <2> QED BY <2>2 DEF E
<1> HIDE DEF tt, n
<1>3. PICK g \in [1..(n + 1) -> Seq(T)] : Joined(tt, g, n + 1)
  BY <1>2, JoinedExists
<1>4. Pages!FlattenSeq(tt) = g[n + 1]
  BY <1>2, <1>3, FlattenIs
<1>5. CASE n = 0
  <2>0. tt[1] = s /\ ss = <<>>
    BY <1>2, <1>5 DEF n
  <2>1. g[n + 1] = s
    BY <2>0, <1>2, <1>3, <1>5, JoinedLonger
  <2>2. Pages!FlattenSeq(tt) = Pages!FlattenSeq(ss) \o s
    <3>1. <<>> \o s = s
      BY ConcatEmptySeq
    <3> QED BY <2>0, <2>1, <3>1, <1>1, <1>4
  <2>3. Pages!FlattenSeq(ss) \in Seq(T)
    BY <2>0, <1>1, EmptySeq
  <2> QED BY <2>2, <2>3, <1>1 DEF tt
<1>6. CASE n # 0
  <2>1. g[n + 1] = g[n] \o s
    BY <1>2, <1>3, <1>6, JoinedLonger
  <2>2. PICK f \in [1..n -> Seq(T)] : Joined(ss, f, n)
    BY JoinedExists DEF n
  <2>3. Pages!FlattenSeq(ss) = f[n]
    BY <2>2, <1>6, FlattenIs DEF n
  <2>4. Joined(tt, g, n) /\ n \in Nat
    BY <1>2, <1>3, JoinedLonger
  <2>5. Agree(ss, tt, n)
    BY <1>2 DEF Agree
  <2>a. Agree(f, g, n)
    BY <2>2, <2>4, <2>5, JoinedUnique
  <2>6. f[n] = g[n] /\ f[n] \in Seq(T)
    BY <2>a, <1>6, <1>2 DEF Agree
  <2>7. Pages!FlattenSeq(tt) = Pages!FlattenSeq(ss) \o s
    BY <2>1, <2>3, <2>6, <1>4
  <2> QED BY <2>3, <2>6, <2>7, <1>1 DEF tt
<1> QED BY <1>2, <1>5, <1>6

\* The lesser of two.
MinOf(a, b) == IF a <= b THEN a ELSE b

\* The library's minimum, of two.
LEMMA MinTwo ==
  ASSUME NEW a \in Nat, NEW b \in Nat
  PROVE  Pages!Min({a, b}) = MinOf(a, b)
<1>1. MinOf(a, b) \in {a, b} /\ \A y \in {a, b} : MinOf(a, b) <= y
  BY DEF MinOf
<1>2. \A x \in {a, b} : (\A y \in {a, b} : x <= y) => x = MinOf(a, b)
  BY DEF MinOf
<1> QED BY <1>1, <1>2 DEF Pages!Min

\* s is what is left of t when, of each of its parts, no more than the first n elements
\* are taken: the two begin in the same way.
SameStart(s, t, n) ==
  /\ Len(s) <= Len(t)
  /\ Len(t) <= n => Len(s) = Len(t)
  /\ Len(t) > n => Len(s) >= n
  /\ \A i \in 1..n : i <= Len(s) => s[i] = t[i]

\* The elements of two sequences that are joined.
LEMMA ConcatElements ==
  ASSUME NEW T, NEW s \in Seq(T), NEW t \in Seq(T)
  PROVE  /\ s \o t \in Seq(T) /\ Len(s) \in Nat /\ Len(t) \in Nat
         /\ Len(s \o t) = Len(s) + Len(t)
         /\ \A i \in 1..Len(s) : (s \o t)[i] = s[i]
         /\ \A i \in (Len(s) + 1)..(Len(s) + Len(t)) : (s \o t)[i] = t[i - Len(s)]
OBVIOUS

\* What begins in the same way still does when more is joined that does.
LEMMA StartConcat ==
  ASSUME NEW T, NEW n \in Nat, NEW s \in Seq(T), NEW t \in Seq(T), NEW p \in Seq(T), NEW q \in Seq(T),
         SameStart(s, t, n), SameStart(p, q, n)
  PROVE  SameStart(s \o p, t \o q, n)
<1>1. /\ Len(s) \in Nat /\ Len(t) \in Nat /\ Len(p) \in Nat /\ Len(q) \in Nat
      /\ Len(s \o p) = Len(s) + Len(p) /\ Len(t \o q) = Len(t) + Len(q)
  BY ConcatElements
<1>2. ASSUME NEW i \in 1..n, i <= Len(s \o p)
      PROVE  (s \o p)[i] = (t \o q)[i]
  <2>1. CASE i <= Len(s)
    <3>1. (s \o p)[i] = s[i] /\ (t \o q)[i] = t[i] /\ s[i] = t[i]
      BY <1>1, <2>1, ConcatElements DEF SameStart
    <3> QED BY <3>1
  <2>2. CASE i > Len(s)
    <3>1. Len(s) = Len(t)
      BY <1>1, <2>2 DEF SameStart
    <3>2. i - Len(s) \in 1..n /\ i - Len(s) <= Len(p) /\ i - Len(s) <= Len(q)
      BY <1>1, <1>2, <2>2 DEF SameStart
    <3>3. (s \o p)[i] = p[i - Len(s)] /\ (t \o q)[i] = q[i - Len(s)]
      BY <1>1, <1>2, <2>2, <3>1, <3>2, ConcatElements
    <3> QED BY <3>2, <3>3 DEF SameStart
  <2>3. i <= Len(s) \/ i > Len(s)
    BY <1>1
  <2> QED BY <2>1, <2>2, <2>3
<1>3. \A i \in 1..n : i <= Len(s \o p) => (s \o p)[i] = (t \o q)[i]
  BY <1>2
<1>4. /\ Len(s) <= Len(t) /\ (Len(t) <= n => Len(s) = Len(t)) /\ (Len(t) > n => Len(s) >= n)
      /\ Len(p) <= Len(q) /\ (Len(q) <= n => Len(p) = Len(q)) /\ (Len(q) > n => Len(p) >= n)
  BY DEF SameStart
<1>5. /\ Len(s \o p) <= Len(t \o q)
      /\ (Len(t \o q) <= n => Len(s \o p) = Len(t \o q))
      /\ (Len(t \o q) > n => Len(s \o p) >= n)
  <2> DEFINE a == Len(s)  b == Len(t)  c == Len(p)  d == Len(q)
  <2>1. /\ a \in Nat /\ b \in Nat /\ c \in Nat /\ d \in Nat
        /\ Len(s \o p) = a + c /\ Len(t \o q) = b + d
    BY <1>1
  <2>2. /\ a <= b /\ (b <= n => a = b) /\ (b > n => a >= n)
        /\ c <= d /\ (d <= n => c = d) /\ (d > n => c >= n)
    BY <1>4
  <2> HIDE DEF a, b, c, d
  <2>3. a + c <= b + d /\ (b + d <= n => a + c = b + d) /\ (b + d > n => a + c >= n)
    BY <2>1, <2>2
  <2> QED BY <2>1, <2>3
<1> QED BY <1>3, <1>5 DEF SameStart

\* Cutting every part after n elements leaves the first n of the whole.
LEMMA StartFlatten ==
  ASSUME NEW T, NEW n \in Nat, NEW m \in Nat,
         NEW A \in [1..m -> Seq(T)], NEW B \in [1..m -> Seq(T)],
         \A i \in 1..m : SameStart(B[i], A[i], n)
  PROVE  SameStart(Pages!FlattenSeq(B), Pages!FlattenSeq(A), n)
<1> DEFINE Upto(f, k) == [i \in 1..k |-> f[i]]
           S == {k \in Nat : k <= m => SameStart(Pages!FlattenSeq(Upto(B, k)),
                                                Pages!FlattenSeq(Upto(A, k)), n)}
<1>1. 0 \in S
  <2>1. Upto(A, 0) = <<>> /\ Upto(B, 0) = <<>>
    OBVIOUS
  <2>2. Pages!FlattenSeq(<<>>) = <<>>
    BY DEF Pages!FlattenSeq
  <2>3. SameStart(<<>>, <<>>, n)
    BY DEF SameStart
  <2> QED BY <2>1, <2>2, <2>3
<1>2. ASSUME NEW f \in [1..m -> Seq(T)], NEW k \in Nat, k + 1 <= m
      PROVE  /\ Pages!FlattenSeq(Upto(f, k)) \in Seq(T)
             /\ Pages!FlattenSeq(Upto(f, k + 1)) = Pages!FlattenSeq(Upto(f, k)) \o f[k + 1]
  <2> DEFINE E == Seq(T)
  <2>1. f[k + 1] \in E /\ \A i \in 1..k : f[i] \in E
    BY <1>2
  <2>2. Upto(f, k) \in Seq(E) /\ Append(Upto(f, k), f[k + 1]) = Upto(f, k + 1)
    <3> HIDE DEF E
    <3> QED BY <2>1
  <2> QED BY <2>1, <2>2, FlattenAppend
<1>3. ASSUME NEW k \in Nat, k \in S PROVE k + 1 \in S
  <2> SUFFICES ASSUME k + 1 <= m
               PROVE  SameStart(Pages!FlattenSeq(Upto(B, k + 1)), Pages!FlattenSeq(Upto(A, k + 1)), n)
    OBVIOUS
  <2>1. SameStart(Pages!FlattenSeq(Upto(B, k)), Pages!FlattenSeq(Upto(A, k)), n)
    BY <1>3
  <2>2. A[k + 1] \in Seq(T) /\ B[k + 1] \in Seq(T) /\ SameStart(B[k + 1], A[k + 1], n)
    OBVIOUS
  <2> HIDE DEF Upto
  <2> QED BY <1>2, <2>1, <2>2, StartConcat
<1> HIDE DEF S
<1>4. Nat \subseteq S
  BY <1>1, <1>3, SetInduction
<1>5. SameStart(Pages!FlattenSeq(Upto(B, m)), Pages!FlattenSeq(Upto(A, m)), n)
  BY <1>4 DEF S
<1>6. Upto(A, m) = A /\ Upto(B, m) = B
  OBVIOUS
<1> QED BY <1>5, <1>6

-----------------------------------------------------------------------------
(* The pages                                                               *)

\* A line, match or path: its file and its place there.
Item == Nat \X Nat

\* What SubSeq takes.
LEMMA Subsequence ==
  ASSUME NEW T, NEW s \in Seq(T), NEW m \in Nat \ {0}, NEW n \in Nat, n <= Len(s), m - 1 <= n
  PROVE  /\ SubSeq(s, m, n) \in Seq(T)
         /\ Len(SubSeq(s, m, n)) = n - m + 1
         /\ \A i \in 1..(n - m + 1) : SubSeq(s, m, n)[i] = s[m + i - 1]
<1>1. \A i \in m..n : s[i] \in T
  OBVIOUS
<1>2. SubSeq(s, m, n) = [i \in 1..(n - m + 1) |-> s[m + i - 1]]
  OBVIOUS
<1>3. n - m + 1 \in Nat
  OBVIOUS
<1>4. \A i \in 1..(n - m + 1) : m + i - 1 \in m..n
  OBVIOUS
<1> DEFINE l == n - m + 1
           t == [i \in 1..l |-> s[m + i - 1]]
<1>5. t \in Seq(T) /\ Len(t) = l /\ \A i \in 1..l : t[i] = s[m + i - 1]
  <2> HIDE DEF l
  <2>1. \A i \in 1..l : s[m + i - 1] \in T
    BY <1>1, <1>4 DEF l
  <2> QED BY <1>3, <2>1 DEF l
<1> HIDE DEF l, t
<1> QED BY <1>2, <1>5 DEF l, t

\* Sequences of the same elements are the same.
LEMMA SameSeq ==
  ASSUME NEW T, NEW s \in Seq(T), NEW t \in Seq(T), Len(s) = Len(t),
         \A i \in 1..Len(s) : s[i] = t[i]
  PROVE  s = t
OBVIOUS

\* The matches of a file, cut by git at a limit.
LEMMA ParsedStart ==
  ASSUME NEW f \in Nat, NEW c \in Nat, NEW n \in Nat
  PROVE  /\ Pages!Parsed(f, c) \in Seq(Item)
         /\ SameStart(Pages!Parsed(f, MinOf(c, n)), Pages!Parsed(f, c), n)
<1>1. MinOf(c, n) \in Nat /\ MinOf(c, n) <= c /\ (c <= n => MinOf(c, n) = c)
      /\ (c > n => MinOf(c, n) >= n)
  BY DEF MinOf
<1>2. ASSUME NEW k \in Nat
      PROVE  /\ Pages!ItemsOf(f, k) \in Seq(Item) /\ Len(Pages!ItemsOf(f, k)) = k
             /\ \A i \in 1..k : Pages!ItemsOf(f, k)[i] = <<f, i>>
  BY DEF Pages!ItemsOf, Item
<1>4. CASE tool = "search" /\ found[f].colon
  <2>1. Pages!Parsed(f, c) = <<>> /\ Pages!Parsed(f, MinOf(c, n)) = <<>>
    BY <1>4 DEF Pages!Parsed
  <2>2. SameStart(<<>>, <<>>, n) /\ <<>> \in Seq(Item)
    BY DEF SameStart
  <2> QED BY <2>1, <2>2
<1>5. CASE ~(tool = "search" /\ found[f].colon)
  <2>1. /\ Pages!Parsed(f, c) = Pages!ItemsOf(f, c)
        /\ Pages!Parsed(f, MinOf(c, n)) = Pages!ItemsOf(f, MinOf(c, n))
    BY <1>5 DEF Pages!Parsed
  <2>3. SameStart(Pages!ItemsOf(f, MinOf(c, n)), Pages!ItemsOf(f, c), n)
    <3> DEFINE m == MinOf(c, n)
               s == Pages!ItemsOf(f, m)
               t == Pages!ItemsOf(f, c)
    <3>1. /\ m \in Nat /\ m <= c /\ (c <= n => m = c) /\ (c > n => m >= n)
          /\ Len(s) = m /\ Len(t) = c
          /\ \A i \in 1..m : s[i] = <<f, i>>
          /\ \A i \in 1..c : t[i] = <<f, i>>
      BY <1>1, <1>2
    <3> HIDE DEF m, s, t
    <3>2. \A i \in 1..n : i <= Len(s) => s[i] = t[i]
      BY <3>1
    <3>3. SameStart(s, t, n)
      BY <3>1, <3>2 DEF SameStart
    <3> QED BY <3>3 DEF s, t, m
  <2> QED BY <1>2, <2>1, <2>3
<1> QED BY <1>4, <1>5

\* What was found, file by file.
LEMMA FoundFiles ==
  ASSUME found \in Seq([items : Nat, colon : BOOLEAN])
  PROVE  /\ Len(found) \in Nat /\ DOMAIN found = 1..Len(found)
         /\ \A f \in DOMAIN found : f \in Nat /\ found[f].items \in Nat
<1> DEFINE F == [items : Nat, colon : BOOLEAN]
<1>1. \A x \in F : x.items \in Nat
  OBVIOUS
<1> HIDE DEF F
<1>2. found \in Seq(F) BY DEF F
<1>3. /\ Len(found) \in Nat /\ DOMAIN found = 1..Len(found)
      /\ \A f \in DOMAIN found : f \in Nat /\ found[f] \in F
  BY <1>2
<1> QED BY <1>1, <1>3

\* What git prints of the files when it stops in each at the n-th match.
Limited(n) == Pages!FlattenSeq([f \in DOMAIN found |-> Pages!Parsed(f, MinOf(found[f].items, n))])

\* Limiting git in each file leaves the first matches of all files.
LEMMA EverythingStart ==
  ASSUME found \in Seq([items : Nat, colon : BOOLEAN]), NEW n \in Nat
  PROVE  /\ Pages!Everything \in Seq(Item)
         /\ Limited(n) \in Seq(Item)
         /\ SameStart(Limited(n), Pages!Everything, n)
<1> DEFINE m == Len(found)
           A == [f \in 1..m |-> Pages!Parsed(f, found[f].items)]
           B == [f \in 1..m |-> Pages!Parsed(f, MinOf(found[f].items, n))]
<1>1. /\ m \in Nat /\ DOMAIN found = 1..m
      /\ \A f \in 1..m : f \in Nat /\ found[f].items \in Nat /\ MinOf(found[f].items, n) \in Nat
  BY FoundFiles DEF MinOf
<1>2. Pages!Everything = Pages!FlattenSeq(A) /\ Limited(n) = Pages!FlattenSeq(B)
  BY <1>1 DEF Pages!Everything, Limited
<1>3. \A f \in 1..m : /\ Pages!Parsed(f, found[f].items) \in Seq(Item)
                      /\ Pages!Parsed(f, MinOf(found[f].items, n)) \in Seq(Item)
                      /\ SameStart(B[f], A[f], n)
  BY <1>1, ParsedStart
<1> DEFINE I == Item
<1>4. A \in [1..m -> Seq(I)] /\ B \in [1..m -> Seq(I)]
  BY <1>3
<1>5. SameStart(Pages!FlattenSeq(B), Pages!FlattenSeq(A), n)
  <2> HIDE DEF A, B, m, I
  <2> QED BY <1>1, <1>3, <1>4, StartFlatten
<1>6. A \in Seq(Seq(I)) /\ B \in Seq(Seq(I))
  <2> DEFINE S == Seq(I)
  <2>1. A \in [1..m -> S] /\ B \in [1..m -> S]
    BY <1>4
  <2> HIDE DEF S, A, B, m
  <2>2. A \in Seq(S) /\ B \in Seq(S)
    BY <2>1, <1>1
  <2> QED BY <2>2 DEF S
<1>7. Pages!FlattenSeq(A) \in Seq(Item) /\ Pages!FlattenSeq(B) \in Seq(Item)
  <2>1. <<>> \in Seq(Item)
    OBVIOUS
  <2> HIDE DEF A, B, m
  <2> QED BY <2>1, <1>6, FlattenAppend
<1> QED BY <1>2, <1>5, <1>7

\* The page of that size at a cursor.
Page(start, size) ==
  LET E == Pages!Everything
  IN  [items |-> SubSeq(E, start, MinOf(Len(E), start + size - 1)),
       next |-> IF start + size - 1 < Len(E) THEN start + size ELSE 0,
       failed |-> FALSE]

\* Lines and paths come in pages.
LEMMA LinesPage ==
  ASSUME found \in Seq([items : Nat, colon : BOOLEAN]), NEW start \in Nat \ {0}
  PROVE  /\ Pages!LinesFrom(start) = Page(start, LinesPerPage)
         /\ Pages!PathsFrom(start) = Page(start, PathsPerPage)
<1> DEFINE E == Pages!Everything
           n == Len(E)
<1>1. n \in Nat
  <2>1. E \in Seq(Item)
    BY EverythingStart
  <2> QED BY <2>1
<1>2. LinesPerPage \in Nat \ {0} /\ PathsPerPage \in Nat \ {0}
  BY PagesAssumption
<1> HIDE DEF E
<1>3. Pages!Min({n, start + LinesPerPage - 1}) = MinOf(n, start + LinesPerPage - 1)
  BY <1>1, <1>2, MinTwo
<1>4. Pages!Min({start + PathsPerPage - 1, n}) = MinOf(n, start + PathsPerPage - 1)
  <2>1. Pages!Min({start + PathsPerPage - 1, n}) = MinOf(start + PathsPerPage - 1, n)
    BY <1>1, <1>2, MinTwo
  <2> QED BY <2>1, <1>1, <1>2 DEF MinOf
<1>5. /\ MinOf(n, start + LinesPerPage - 1) < n <=> start + LinesPerPage - 1 < n
      /\ start + LinesPerPage - 1 < n => MinOf(n, start + LinesPerPage - 1) + 1 = start + LinesPerPage
      /\ (start + PathsPerPage - 1) + 1 = start + PathsPerPage
  BY <1>1, <1>2 DEF MinOf
<1> HIDE DEF n
<1>6. Pages!LinesFrom(start) = Page(start, LinesPerPage)
  BY <1>3, <1>5 DEF Pages!LinesFrom, Pages!Answer, Pages!NoCursor, Page, E, n
<1>7. Pages!PathsFrom(start) = Page(start, PathsPerPage)
  BY <1>4, <1>5 DEF Pages!PathsFrom, Pages!Answer, Pages!NoCursor, Page, E, n
<1> QED BY <1>6, <1>7

\* So do matches, although git is limited per file.
LEMMA SearchPage ==
  ASSUME found \in Seq([items : Nat, colon : BOOLEAN]), NEW start \in Nat \ {0},
         start - 1 <= Len(Pages!Everything)
  PROVE  Pages!MatchesFrom(start) = Page(start, MatchesPerPage)
<1> DEFINE M == MatchesPerPage
           L == M + start
           E == Pages!Everything
           P == Limited(L)
           e == Len(E)
           p == Len(P)
           S == SubSeq(P, start, MinOf(p, L))
<1>1. M \in Nat \ {0} /\ L \in Nat /\ M + 1 + (start - 1) = L /\ start - 1 + 1 = start
      /\ start - 1 \in Nat
  BY PagesAssumption
<1>2. E \in Seq(Item) /\ P \in Seq(Item) /\ SameStart(P, E, L)
  BY <1>1, EverythingStart
<1>3. /\ e \in Nat /\ p \in Nat /\ p <= e /\ (e <= L => p = e) /\ (e > L => p >= L)
      /\ \A i \in 1..L : i <= p => P[i] = E[i]
  <2>1. Len(E) \in Nat /\ Len(P) \in Nat
    BY <1>2
  <2> QED BY <1>2, <2>1 DEF SameStart
<1>4. start - 1 <= e
  OBVIOUS
<1>5. Pages!Matches(M + 1, start - 1) = S
  <2>1. Limited(M + 1 + (start - 1)) = Pages!FlattenSeq([f \in DOMAIN found |->
                  Pages!Parsed(f, Pages!Min({found[f].items, M + 1 + (start - 1)}))])
    <3>1. \A f \in DOMAIN found :
            Pages!Min({found[f].items, L}) = MinOf(found[f].items, L)
      BY <1>1, FoundFiles, MinTwo
    <3> HIDE DEF L
    <3> QED BY <1>1, <3>1 DEF Limited
  <2>2. Pages!Min({p, L}) = MinOf(p, L)
    BY <1>1, <1>3, MinTwo
  <2> HIDE DEF p, L, M
  <2>3. Pages!Matches(M + 1, start - 1) = SubSeq(P, start, Pages!Min({Len(P), L}))
    BY <1>1, <2>1 DEF Pages!Matches
  <2> QED BY <2>2, <2>3 DEF p
<1> DEFINE q == MinOf(p, L)
<1>6. /\ q \in Nat /\ q <= p /\ q <= L /\ start - 1 <= q /\ q = MinOf(e, L)
      /\ q - start + 1 \in Nat
  <2>1. L >= start
    BY <1>1
  <2> HIDE DEF e, p, L, M, S, P, E
  <2>2. CASE p <= L
    <3>1. /\ e \in Nat /\ p \in Nat /\ p <= e /\ (e <= L => p = e) /\ (e > L => p >= L)
      BY <1>3
    <3>2. q = p
      BY <2>2 DEF MinOf
    <3>3. MinOf(e, L) = p
      BY <1>1, <3>1, <2>2 DEF MinOf
    <3>4. start - 1 <= p
      BY <1>1, <1>4, <2>1, <3>1
    <3> HIDE DEF q
    <3> QED BY <1>1, <2>2, <3>1, <3>2, <3>3, <3>4
  <2>3. CASE ~(p <= L)
    <3>1. q = L /\ e > L
      BY <1>1, <1>3, <2>3 DEF MinOf
    <3> QED BY <1>1, <1>3, <1>4, <2>1, <2>3, <3>1 DEF MinOf
  <2> QED BY <2>2, <2>3
<1> DEFINE r == MinOf(e, start + M - 1)
<1>7. /\ r \in Nat /\ r <= q /\ start - 1 <= r /\ r - start + 1 = MinOf(q - start + 1, M)
      /\ (q - start + 1 > M <=> start + M - 1 < e) /\ start + M = L
  <2> HIDE DEF e, p
  <2> QED BY <1>1, <1>3, <1>4, <1>6 DEF MinOf
<1>8. S \in Seq(Item) /\ Len(S) = q - start + 1 /\ \A i \in 1..(q - start + 1) : S[i] = P[start + i - 1]
  <2> HIDE DEF P
  <2> QED BY <1>2, <1>6, Subsequence
<1>9. Pages!Min({Len(S), M}) = r - start + 1
  <2> HIDE DEF S, r, q
  <2> QED BY <1>1, <1>6, <1>7, <1>8, MinTwo
<1>10. SubSeq(S, 1, r - start + 1) = SubSeq(E, start, r)
  <2> HIDE DEF S, E, P, r, q, M, L
  <2>1. r - start + 1 \in Nat /\ r - start + 1 <= Len(S) /\ r <= e
    BY <1>1, <1>3, <1>6, <1>7, <1>8
  <2>2. /\ SubSeq(S, 1, r - start + 1) \in Seq(Item)
        /\ Len(SubSeq(S, 1, r - start + 1)) = r - start + 1
        /\ \A i \in 1..(r - start + 1) : SubSeq(S, 1, r - start + 1)[i] = S[i]
    BY <1>8, <2>1, Subsequence
  <2>3. /\ SubSeq(E, start, r) \in Seq(Item)
        /\ Len(SubSeq(E, start, r)) = r - start + 1
        /\ \A i \in 1..(r - start + 1) : SubSeq(E, start, r)[i] = E[start + i - 1]
    BY <1>2, <1>7, <2>1, Subsequence
  <2>4. ASSUME NEW i \in 1..(r - start + 1)
        PROVE  S[i] = E[start + i - 1]
    <3>1. i \in 1..(q - start + 1) /\ start + i - 1 \in 1..L /\ start + i - 1 <= p
      <4>1. /\ q \in Nat /\ r \in Nat /\ p \in Nat /\ L \in Nat
            /\ r <= q /\ q <= p /\ q <= L /\ start + i - 1 \in Nat /\ start + i - 1 >= 1
        BY <1>1, <1>3, <1>6, <1>7
      <4>2. start + i - 1 <= r /\ i <= r - start + 1
        BY <4>1
      <4> HIDE DEF e, p
      <4> QED BY <4>1, <4>2
    <3> QED BY <1>3, <1>8, <3>1
  <2> QED BY <2>2, <2>3, <2>4, SameSeq
<1> HIDE DEF r, q, S, E, P
<1>11. Pages!MatchesFrom(start) =
         [items |-> SubSeq(E, start, r),
          next |-> IF start + M - 1 < e THEN start + M ELSE 0, failed |-> FALSE]
  BY <1>5, <1>7, <1>8, <1>9, <1>10 DEF Pages!MatchesFrom, Pages!Answer, Pages!NoCursor
<1> QED BY <1>11 DEF Page, r, E

\* A page goes on where the ones before it ended.
LEMMA PageContinues ==
  ASSUME NEW E \in Seq(Item), NEW start \in Nat \ {0}, NEW n \in Nat, n <= Len(E), start - 1 <= n
  PROVE  SubSeq(E, 1, start - 1) \o SubSeq(E, start, n) = SubSeq(E, 1, n)
<1> DEFINE s == SubSeq(E, 1, start - 1)
           t == SubSeq(E, start, n)
           u == SubSeq(E, 1, n)
<1>1. start - 1 \in Nat /\ start - 1 <= Len(E) /\ Len(E) \in Nat /\ 1 \in Nat \ {0}
  OBVIOUS
<1>2. s \in Seq(Item) /\ Len(s) = start - 1 /\ \A i \in 1..(start - 1) : s[i] = E[i]
  <2>1. (start - 1) - 1 + 1 = start - 1
    OBVIOUS
  <2>2. s \in Seq(Item) /\ Len(s) = start - 1 /\ \A i \in 1..(start - 1) : s[i] = E[1 + i - 1]
    BY <1>1, <2>1, Subsequence
  <2> QED BY <2>2
<1>3. t \in Seq(Item) /\ Len(t) = n - start + 1 /\ \A i \in 1..(n - start + 1) : t[i] = E[start + i - 1]
  BY Subsequence
<1>4. u \in Seq(Item) /\ Len(u) = n /\ \A i \in 1..n : u[i] = E[i]
  <2>1. n - 1 + 1 = n /\ 1 - 1 <= n
    OBVIOUS
  <2>2. u \in Seq(Item) /\ Len(u) = n /\ \A i \in 1..n : u[i] = E[1 + i - 1]
    BY <1>1, <2>1, Subsequence
  <2> QED BY <2>2
<1> HIDE DEF s, t, u
<1>5. /\ s \o t \in Seq(Item) /\ Len(s \o t) = n
      /\ \A i \in 1..(start - 1) : (s \o t)[i] = s[i]
      /\ \A i \in start..n : (s \o t)[i] = t[i - (start - 1)]
  <2>1. /\ s \o t \in Seq(Item) /\ Len(s \o t) = Len(s) + Len(t)
        /\ \A i \in 1..Len(s) : (s \o t)[i] = s[i]
        /\ \A i \in (Len(s) + 1)..(Len(s) + Len(t)) : (s \o t)[i] = t[i - Len(s)]
    BY <1>2, <1>3, ConcatElements
  <2>2. Len(s) + 1 = start /\ Len(s) + Len(t) = n
    BY <1>2, <1>3
  <2> QED BY <2>1, <2>2, <1>2
<1>6. ASSUME NEW i \in 1..n PROVE (s \o t)[i] = u[i]
  <2>1. CASE i < start
    <3>1. i \in 1..(start - 1)
      BY <2>1
    <3>2. (s \o t)[i] = s[i] /\ s[i] = E[i] /\ u[i] = E[i]
      BY <1>2, <1>4, <1>5, <3>1
    <3> QED BY <3>2
  <2>2. CASE i >= start
    <3>1. i \in start..n /\ i - (start - 1) \in 1..(n - start + 1) /\ start + (i - (start - 1)) - 1 = i
      BY <2>2
    <3>2. (s \o t)[i] = t[i - (start - 1)]
      BY <1>5, <3>1
    <3>3. t[i - (start - 1)] = E[start + (i - (start - 1)) - 1]
      BY <1>3, <3>1
    <3> QED BY <1>4, <3>1, <3>2, <3>3
  <2>3. i < start \/ i >= start
    OBVIOUS
  <2> QED BY <2>1, <2>2, <2>3
<1> QED BY <1>4, <1>5, <1>6, SameSeq DEF s, t, u

\* Whatever the tool, an answer is a page.
LEMMA ComputedPage ==
  ASSUME Pages!PagesInv, cursor - 1 <= Len(Pages!Everything)
  PROVE  \E size \in Nat \ {0} : Pages!Computed(cursor) = Page(cursor, size)
<1>1. {LinesPerPage, MatchesPerPage, PathsPerPage} \subseteq Nat \ {0}
  BY PagesAssumption
<1>2. /\ found \in Seq([items : Nat, colon : BOOLEAN]) /\ cursor \in Nat \ {0}
      /\ tool \in {"read", "search", "changes"}
  BY DEF Pages!PagesInv
<1>3. CASE tool = "read"
  BY <1>1, <1>2, <1>3, LinesPage DEF Pages!Computed
<1>4. CASE tool = "search"
  BY <1>1, <1>2, <1>4, SearchPage DEF Pages!Computed
<1>5. CASE tool = "changes"
  BY <1>1, <1>2, <1>5, LinesPage DEF Pages!Computed
<1> QED BY <1>2, <1>3, <1>4, <1>5

\* What a tool answers.
AnswerType == [items : Seq(Nat \X Nat), next : Nat, failed : BOOLEAN]

\* A page is typed, no error, and leads to the next one or to the end.
LEMMA PageFacts ==
  ASSUME found \in Seq([items : Nat, colon : BOOLEAN]), NEW start \in Nat \ {0},
         start - 1 <= Len(Pages!Everything), NEW size \in Nat \ {0}
  PROVE  /\ Page(start, size) \in AnswerType
         /\ ~Page(start, size).failed
         /\ LET got2 == SubSeq(Pages!Everything, 1, start - 1) \o Page(start, size).items
                next2 == Page(start, size).next
            IN  IF next2 = 0 THEN got2 = Pages!Everything
                ELSE /\ next2 \in Nat \ {0}
                     /\ next2 - 1 <= Len(Pages!Everything)
                     /\ got2 = SubSeq(Pages!Everything, 1, next2 - 1)
<1> DEFINE E == Pages!Everything
           e == Len(E)
           stop == MinOf(e, start + size - 1)
<1>1. E \in Seq(Item) /\ e \in Nat
  <2>1. E \in Seq(Item)
    BY EverythingStart
  <2> QED BY <2>1
<1> HIDE DEF E
<1>2. start - 1 <= e
  BY DEF E
<1>3. /\ stop \in Nat /\ stop <= e /\ start - 1 <= stop
      /\ (start + size - 1 < e => stop = start + size - 1)
      /\ (~(start + size - 1 < e) => stop = e)
  <2> HIDE DEF e
  <2> QED BY <1>1, <1>2 DEF MinOf
<1>4. Page(start, size) = [items |-> SubSeq(E, start, stop),
                           next |-> IF start + size - 1 < e THEN start + size ELSE 0,
                           failed |-> FALSE]
  BY DEF Page, E
<1> HIDE DEF stop, e
<1>5. SubSeq(E, start, stop) \in Seq(Item)
  BY <1>1, <1>3, Subsequence DEF e
<1>6. Page(start, size) \in AnswerType /\ ~Page(start, size).failed
  BY <1>4, <1>5 DEF AnswerType, Item
<1>7. SubSeq(E, 1, start - 1) \o Page(start, size).items = SubSeq(E, 1, stop)
  BY <1>1, <1>3, <1>4, PageContinues DEF e
<1>8. stop = e => SubSeq(E, 1, stop) = E
  BY <1>1 DEF e
<1>9. CASE start + size - 1 < e
  <2>1. Page(start, size).next = stop + 1 /\ stop + 1 \in Nat \ {0} /\ stop + 1 - 1 = stop
    BY <1>3, <1>4, <1>9
  <2> DEFINE nx == Page(start, size).next
             gt == SubSeq(E, 1, start - 1) \o Page(start, size).items
  <2>2. nx \in Nat \ {0} /\ nx # 0 /\ nx - 1 <= Len(E) /\ gt = SubSeq(E, 1, nx - 1)
    <3> HIDE DEF nx, gt
    <3>1. nx = stop + 1 /\ gt = SubSeq(E, 1, stop)
      BY <1>7, <2>1 DEF nx, gt
    <3> QED BY <3>1, <2>1, <1>3 DEF e
  <2> QED BY <1>6, <2>2 DEF E
<1>10. CASE ~(start + size - 1 < e)
  BY <1>3, <1>4, <1>6, <1>7, <1>8, <1>10 DEF E
<1> QED BY <1>9, <1>10

\* What execute_tool_call keeps.
MemoType == Seq([cursor : Nat, answer : AnswerType])

\* What there is to be found does not change while it is read.
LEMMA EverythingStays ==
  ASSUME UNCHANGED <<tool, found>>
  PROVE  Pages!Everything' = Pages!Everything
BY DEF Pages!Everything, Pages!Parsed, Pages!ItemsOf

\* What is answered was computed, now or before, unless it is an error.
LEMMA ExecutesAnswer ==
  ASSUME memo \in MemoType, cursor \in Nat, NEW answer0 \in AnswerType, Pages!Executes(cursor, answer0)
  PROVE  /\ memo' \in MemoType
         /\ cursor' = cursor => Pages!Asked(cursor)' /\ Pages!Kept(cursor)' = answer0
<1> DEFINE R == [cursor : Nat, answer : AnswerType]
<1>1. CASE Pages!Asked(cursor)
  BY <1>1 DEF Pages!Executes, Pages!Asked, Pages!Kept
<1>2. CASE ~Pages!Asked(cursor)
  <2> DEFINE x == [cursor |-> cursor, answer |-> answer0]
             n == Len(memo)
  <2>1. memo' = Append(memo, x)
    BY <1>2 DEF Pages!Executes
  <2>2. x \in R /\ x.cursor = cursor /\ x.answer = answer0
    OBVIOUS
  <2>3. memo \in Seq(R)
    BY DEF MemoType
  <2> HIDE DEF R, x
  <2>4. /\ memo' \in Seq(R) /\ n \in Nat /\ DOMAIN memo' = 1..(n + 1)
        /\ DOMAIN memo = 1..n
        /\ memo'[n + 1] = x /\ \A i \in 1..n : memo'[i] = memo[i]
    BY <2>1, <2>2, <2>3
  <2>5. \A i \in 1..n : memo[i].cursor # cursor
    BY <1>2, <2>4 DEF Pages!Asked
  <2>6. ASSUME cursor' = cursor
        PROVE  Pages!Asked(cursor)' /\ Pages!Kept(cursor)' = answer0
    <3>1. n + 1 \in DOMAIN memo' /\ \A i \in DOMAIN memo' : memo'[i].cursor = cursor <=> i = n + 1
      BY <2>2, <2>4, <2>5
    <3>2. (CHOOSE i \in DOMAIN memo' : memo'[i].cursor = cursor) = n + 1
      BY <3>1
    <3> QED BY <2>2, <2>4, <2>6, <3>1, <3>2 DEF Pages!Asked, Pages!Kept
  <2> QED BY <2>4, <2>6 DEF R, MemoType
<1> QED BY <1>1, <1>2

\* The invariant of the pages holds at first, ...
LEMMA PagesStart ==
  ASSUME NEW finds, finds \subseteq Seq([items : Nat, colon : BOOLEAN]),
         Pages!InitPages(finds), reader # "finished"
  PROVE  Pages!PagesInv
<1>1. /\ tool \in {"read", "search", "changes"} /\ found \in Seq([items : Nat, colon : BOOLEAN])
      /\ cursor = 1 /\ got = <<>> /\ memo = <<>>
  BY DEF Pages!InitPages
<1>2. Pages!Everything \in Seq(Item)
  BY <1>1, EverythingStart
<1>3. SubSeq(Pages!Everything, 1, cursor - 1) = <<>> /\ Len(Pages!Everything) \in Nat
  BY <1>1, <1>2
<1>4. \A T : <<>> \in Seq(T)
  OBVIOUS
<1> QED BY <1>1, <1>3, <1>4 DEF Pages!PagesInv

\* ... is kept by a call of a tool ...
LEMMA PagesStep ==
  ASSUME Pages!PagesInv, Pages!PageSteps
  PROVE  Pages!PagesInv'
<1>1. /\ tool \in {"read", "search", "changes"} /\ found \in Seq([items : Nat, colon : BOOLEAN])
      /\ cursor \in Nat \ {0} /\ memo \in MemoType
  BY DEF Pages!PagesInv, MemoType, AnswerType
<1>2. reader = "asking"
  BY DEF Pages!PageSteps, Pages!AsksForPage, Pages!IsRefused
<1>3. cursor - 1 <= Len(Pages!Everything) /\ got = SubSeq(Pages!Everything, 1, cursor - 1)
  BY <1>2 DEF Pages!PagesInv
<1>4. UNCHANGED <<tool, found>> /\ Pages!Everything' = Pages!Everything
  <2>1. UNCHANGED <<tool, found>>
    BY DEF Pages!PageSteps, Pages!AsksForPage, Pages!IsRefused
  <2> QED BY <2>1, EverythingStays
<1>5. CASE Pages!AsksForPage
  <2>1. PICK answer0 \in {Pages!Failure, Pages!Computed(cursor)} :
          /\ Pages!Executes(cursor, answer0)
          /\ ~answer0.failed
          /\ got' = got \o answer0.items
          /\ IF answer0.next = 0
             THEN reader' = "finished" /\ UNCHANGED cursor
             ELSE cursor' = answer0.next /\ UNCHANGED reader
    BY <1>5 DEF Pages!AsksForPage, Pages!NoCursor
  <2>2. answer0 = Pages!Computed(cursor)
    BY <2>1 DEF Pages!Failure
  <2>3. PICK size \in Nat \ {0} : answer0 = Page(cursor, size)
    BY <1>3, <2>2, ComputedPage
  <2>4. answer0 \in AnswerType
    BY <1>1, <1>3, <2>3, PageFacts
  <2>5. IF answer0.next = 0 THEN got' = Pages!Everything
        ELSE /\ answer0.next \in Nat \ {0}
             /\ answer0.next - 1 <= Len(Pages!Everything)
             /\ got' = SubSeq(Pages!Everything, 1, answer0.next - 1)
    BY <1>1, <1>3, <2>1, <2>3, PageFacts
  <2>6. memo' \in MemoType /\ (cursor' = cursor => Pages!Asked(cursor)' /\ Pages!Kept(cursor)' = answer0)
    BY <1>1, <2>1, <2>4, ExecutesAnswer
  <2>7. CASE answer0.next = 0
    <3>1. got' = Pages!Everything' /\ reader' = "finished" /\ ~Pages!Kept(cursor)'.failed /\ cursor' = cursor
      BY <1>4, <2>1, <2>5, <2>6, <2>7
    <3> QED BY <1>1, <1>4, <2>6, <3>1 DEF Pages!PagesInv, MemoType, AnswerType
  <2>8. CASE answer0.next # 0
    <3>1. /\ cursor' \in Nat \ {0} /\ reader' = "asking" /\ cursor' - 1 <= Len(Pages!Everything')
          /\ got' = SubSeq(Pages!Everything', 1, cursor' - 1)
      BY <1>2, <1>4, <2>1, <2>5, <2>8
    <3> QED BY <1>1, <1>4, <2>6, <3>1 DEF Pages!PagesInv, MemoType, AnswerType
  <2> QED BY <2>7, <2>8
<1>6. CASE Pages!IsRefused
  <2>1. /\ Pages!Executes(cursor, Pages!Failure) /\ reader' # "finished"
        /\ UNCHANGED <<cursor, got>>
    BY <1>6 DEF Pages!IsRefused
  <2>2. Pages!Failure \in AnswerType
    <3>1. <<>> \in Seq(Item)
      OBVIOUS
    <3> QED BY <3>1 DEF Pages!Failure, Pages!NoCursor, AnswerType, Item
  <2>3. memo' \in MemoType
    BY <1>1, <2>1, <2>2, ExecutesAnswer
  <2> QED BY <1>1, <1>3, <1>4, <2>1, <2>3 DEF Pages!PagesInv, MemoType, AnswerType
<1> QED BY <1>5, <1>6 DEF Pages!PageSteps

\* ... and while the tools rest.
LEMMA PagesRest ==
  ASSUME Pages!PagesInv, UNCHANGED pageVars
  PROVE  Pages!PagesInv'
<1>1. UNCHANGED <<tool, found, cursor, got, memo, reader>>
  BY DEF pageVars
<1>2. Pages!Everything' = Pages!Everything
  BY <1>1, EverythingStays
<1> QED BY <1>1, <1>2 DEF Pages!PagesInv, Pages!Asked, Pages!Kept

\* The pages' invariant.
LEMMA PagesInvariant == Spec => []Pages!PagesInv
<1>1. Init => Pages!PagesInv
  <2>1. \A T : {<<>>} \subseteq Seq(T)
    OBVIOUS
  <2> QED BY <2>1, PagesStart, PagesAssumption DEF Init, NoPages
<1>2. Pages!PagesInv /\ [Next]_vars => Pages!PagesInv'
  BY PagesStep, PagesRest DEF Next, vars
<1> QED BY <1>1, <1>2, PTL DEF Spec

\* A model that follows the cursors of a tool is given every line, match or path once and
\* in order, however many files, matches and lines to the page there are, although git's
\* limit is per file and the tool's over all of them; and it never gets past an error.
THEOREM PagesWhole == Spec => []PagesComplete
<1>1. Pages!PagesInv => PagesComplete
  <2> SUFFICES ASSUME Pages!PagesInv PROVE Pages!PagesComplete
    BY DEF PagesComplete
  <2>1. /\ found \in Seq([items : Nat, colon : BOOLEAN]) /\ cursor \in Nat \ {0}
    BY DEF Pages!PagesInv
  <2>2. Pages!Everything \in Seq(Item)
    BY <2>1, EverythingStart
  <2>3. \E n \in Nat : n <= Len(Pages!Everything) /\ got = SubSeq(Pages!Everything, 1, n)
    <3> DEFINE E == Pages!Everything
    <3>1. Len(E) \in Nat /\ E = SubSeq(E, 1, Len(E)) /\ cursor - 1 \in Nat
      BY <2>1, <2>2
    <3> HIDE DEF E
    <3>2. CASE reader = "finished"
      <4>1. got = E
        BY <3>2 DEF Pages!PagesInv, E
      <4>2. Len(E) \in Nat /\ Len(E) <= Len(E) /\ got = SubSeq(E, 1, Len(E))
        BY <3>1, <4>1
      <4> DEFINE n == Len(E)
      <4>3. n \in Nat /\ n <= Len(E) /\ got = SubSeq(E, 1, n)
        BY <4>2
      <4> HIDE DEF n
      <4> QED BY <4>3 DEF E
    <3>3. CASE reader # "finished"
      <4>1. cursor - 1 <= Len(E) /\ got = SubSeq(E, 1, cursor - 1)
        BY <3>3 DEF Pages!PagesInv, E
      <4> QED BY <3>1, <4>1 DEF E
    <3> QED BY <3>2, <3>3
  <2>4. Pages!IsPrefix(got, Pages!Everything)
    <3> DEFINE E == Pages!Everything
    <3> HIDE DEF E
    <3>1. E \in Seq(Item) /\ Len(E) \in Nat
      BY <2>2 DEF E
    <3>2. PICK n \in Nat : n <= Len(E) /\ got = SubSeq(E, 1, n)
      BY <2>3 DEF E
    <3>3. Len(got) = n /\ got \in Seq(Item)
      <4>1. 1 \in Nat \ {0} /\ 1 - 1 <= n /\ n - 1 + 1 = n
        OBVIOUS
      <4> QED BY <3>1, <3>2, <4>1, Subsequence
    <3>4. SubSeq(got, 1, Len(got)) = got
      BY <3>3
    <3> QED BY <3>1, <3>2, <3>3, <3>4 DEF Pages!IsPrefix, E
  <2> QED BY <2>4 DEF Pages!PagesInv, Pages!PagesComplete
<1> QED BY <1>1, PagesInvariant, PTL

-----------------------------------------------------------------------------
(* The chunks                                                              *)

\* f holds the sums of the first numbers of s.
Summed(s, f, n) == \A i \in 0..n : f[i] = IF i = 0 THEN 0 ELSE f[i - 1] + s[i]

\* The sums of the first numbers of a sequence are a function.
LEMMA SummedExists ==
  ASSUME NEW s \in Seq(Nat), NEW n \in Nat, n <= Len(s)
  PROVE  \E f \in [0..n -> Nat] : Summed(s, f, n)
<1> DEFINE S == {k \in Nat : k <= Len(s) => \E f \in [0..k -> Nat] : Summed(s, f, k)}
<1>1. 0 \in S
  <2> DEFINE f == [i \in 0..0 |-> 0]
  <2>1. f \in [0..0 -> Nat] /\ Summed(s, f, 0)
    BY DEF Summed
  <2> QED BY <2>1
<1>2. ASSUME NEW k \in Nat, k \in S PROVE k + 1 \in S
  <2> SUFFICES ASSUME k + 1 <= Len(s)
               PROVE  \E f \in [0..(k + 1) -> Nat] : Summed(s, f, k + 1)
    OBVIOUS
  <2>1. PICK f \in [0..k -> Nat] : Summed(s, f, k)
    BY <1>2
  <2> DEFINE g == [i \in 0..(k + 1) |-> IF i = k + 1 THEN f[k] + s[k + 1] ELSE f[i]]
  <2>2. s[k + 1] \in Nat /\ f[k] \in Nat
    OBVIOUS
  <2>3. /\ g \in [0..(k + 1) -> Nat]
        /\ g[k + 1] = f[k] + s[k + 1] /\ \A i \in 0..k : g[i] = f[i]
    BY <2>2
  <2> HIDE DEF g
  <2>4. ASSUME NEW i \in 0..(k + 1)
        PROVE  g[i] = IF i = 0 THEN 0 ELSE g[i - 1] + s[i]
    <3>1. CASE i \in 0..k
      <4>1. i # 0 => i - 1 \in 0..k
        BY <3>1
      <4> QED BY <2>1, <2>3, <3>1, <4>1 DEF Summed
    <3>2. CASE i = k + 1
      <4>1. i # 0 /\ i - 1 = k /\ k \in 0..k
        BY <3>2
      <4> QED BY <2>3, <3>2, <4>1
    <3> QED BY <3>1, <3>2
  <2>5. Summed(s, g, k + 1)
    BY <2>4 DEF Summed
  <2> QED BY <2>3, <2>5
<1> HIDE DEF S
<1>3. Nat \subseteq S
  BY <1>1, <1>2, SetInduction
<1>4. n \in S
  BY <1>3
<1> QED BY <1>4 DEF S

\* Two functions agree from 0 to n.
AgreeFromZero(f, g, n) == \A i \in 0..n : f[i] = g[i]

\* The same numbers have the same sums.
LEMMA SummedUnique ==
  ASSUME NEW n \in Nat, NEW s, NEW t, NEW f, NEW g,
         Agree(s, t, n), Summed(s, f, n), Summed(t, g, n)
  PROVE  n \in 0..n /\ AgreeFromZero(f, g, n)
<1> DEFINE S == {k \in Nat : k \in 0..n => f[k] = g[k]}
<1>1. 0 \in S
  BY DEF Summed
<1>2. ASSUME NEW k \in Nat, k \in S PROVE k + 1 \in S
  BY <1>2 DEF Summed, Agree
<1> HIDE DEF S
<1>3. Nat \subseteq S
  BY <1>1, <1>2, SetInduction
<1> QED BY <1>3 DEF S, AgreeFromZero

\* Total is the last of these sums.
LEMMA TotalIs ==
  ASSUME NEW s \in Seq(Nat), NEW f, Summed(s, f, Len(s))
  PROVE  Diff!Total(s) = f[Len(s)]
<1> DEFINE Sums(h) == h = [i \in 0..Len(s) |-> IF i = 0 THEN 0 ELSE h[i - 1] + s[i]]
           h0 == CHOOSE h : Sums(h)
<1>0. Len(s) \in Nat
  OBVIOUS
<1>1. PICK g \in [0..Len(s) -> Nat] : Summed(s, g, Len(s))
  BY <1>0, SummedExists
<1>2. Sums(g)
  BY <1>1 DEF Summed
<1>3. Sums(h0)
  BY <1>2
<1>4. Diff!Total(s) = h0[Len(s)]
  BY DEF Diff!Total
<1> HIDE DEF h0
<1>5. Summed(s, h0, Len(s))
  BY <1>3 DEF Summed
<1>6. Agree(s, s, Len(s))
  BY DEF Agree
<1>7. Len(s) \in 0..Len(s) /\ AgreeFromZero(h0, f, Len(s))
  BY <1>0, <1>5, <1>6, SummedUnique
<1> QED BY <1>4, <1>7 DEF AgreeFromZero

\* A number more is added.
LEMMA TotalAppend ==
  ASSUME NEW s \in Seq(Nat), NEW x \in Nat
  PROVE  /\ Diff!Total(<<>>) = 0
         /\ Diff!Total(s) \in Nat
         /\ Diff!Total(Append(s, x)) = Diff!Total(s) + x
<1> DEFINE n == Len(s)
           t == Append(s, x)
<1>1. n \in Nat /\ t \in Seq(Nat) /\ Len(t) = n + 1 /\ t[n + 1] = x /\ Agree(s, t, n)
  BY DEF Agree
<1>2. PICK f \in [0..n -> Nat] : Summed(s, f, n)
  BY <1>1, SummedExists
<1>3. Diff!Total(s) = f[n] /\ f[n] \in Nat
  BY <1>1, <1>2, TotalIs
<1> HIDE DEF n, t
<1>4. PICK g \in [0..(n + 1) -> Nat] : Summed(t, g, n + 1)
  <2>1. n + 1 \in Nat /\ n + 1 <= Len(t)
    BY <1>1
  <2> QED BY <1>1, <2>1, SummedExists
<1>5. Diff!Total(t) = g[n + 1]
  BY <1>1, <1>4, TotalIs
<1>6. Summed(t, g, n) /\ g[n + 1] = g[n] + x
  BY <1>1, <1>4 DEF Summed
<1>7. f[n] = g[n]
  <2>1. n \in Nat /\ Agree(s, t, n) /\ Summed(s, f, n) /\ Summed(t, g, n)
    BY <1>1, <1>2, <1>6
  <2>2. n \in 0..n /\ AgreeFromZero(f, g, n)
    BY <2>1, SummedUnique
  <2> QED BY <2>2 DEF AgreeFromZero
<1>8. Diff!Total(<<>>) = 0
  <2> DEFINE z == [i \in 0..0 |-> 0]
  <2>1. <<>> \in Seq(Nat) /\ Len(<<>>) = 0 /\ z[0] = 0
    OBVIOUS
  <2>2. Summed(<<>>, z, 0)
    BY DEF Summed
  <2> HIDE DEF z
  <2> QED BY <2>1, <2>2, TotalIs
<1> QED BY <1>3, <1>5, <1>6, <1>7, <1>8 DEF t

\* Counting the lines of some kinds.
Count(lines, kinds) == Cardinality({i \in DOMAIN lines : lines[i].kind \in kinds})

\* The instance's Cardinality is Cardinality.
LEMMA SameCardinality == \A S : Diff!Cardinality(S) = Cardinality(S)
BY DEF Diff!Cardinality, Cardinality

\* Counting gives a number, ...
LEMMA CountNat ==
  ASSUME NEW lines \in Seq(Diff!Lines), NEW kinds
  PROVE  Count(lines, kinds) \in Nat
<1> DEFINE A == {i \in DOMAIN lines : lines[i].kind \in kinds}
<1>1. Len(lines) \in Nat /\ DOMAIN lines = 1..Len(lines)
  <2> DEFINE L == Diff!Lines
  <2>1. lines \in Seq(L) OBVIOUS
  <2> HIDE DEF L
  <2> QED BY <2>1
<1>2. A \subseteq 1..Len(lines) /\ IsFiniteSet(1..Len(lines))
  BY <1>1, FS_Interval
<1> QED BY <1>2, FS_Subset, FS_CardinalityType DEF Count

\* ... none for no lines, ...
LEMMA CountEmpty == \A kinds : Count(<<>>, kinds) = 0
<1>1. \A kinds : {i \in DOMAIN <<>> : <<>>[i].kind \in kinds} = {}
  OBVIOUS
<1> QED BY <1>1, FS_EmptySet DEF Count

\* ... and one more for a line of these kinds.
LEMMA CountAppend ==
  ASSUME NEW lines \in Seq(Diff!Lines), NEW l \in Diff!Lines, NEW kinds
  PROVE  Count(Append(lines, l), kinds) = Count(lines, kinds) + IF l.kind \in kinds THEN 1 ELSE 0
<1> DEFINE n == Len(lines)
           t == Append(lines, l)
           A == {i \in DOMAIN lines : lines[i].kind \in kinds}
           B == {i \in DOMAIN t : t[i].kind \in kinds}
<1> DEFINE L == Diff!Lines
<1>1. /\ n \in Nat /\ DOMAIN lines = 1..n /\ DOMAIN t = 1..(n + 1)
      /\ t[n + 1] = l /\ \A i \in 1..n : t[i] = lines[i]
  <2> HIDE DEF L
  <2>1. lines \in Seq(L) /\ l \in L BY DEF L
  <2> QED BY <2>1
<1> HIDE DEF n, t
<1>2. IsFiniteSet(A) /\ n + 1 \notin A
  <2>1. A \subseteq 1..n /\ IsFiniteSet(1..n)
    BY <1>1, FS_Interval
  <2>2. n + 1 \notin 1..n
    BY <1>1
  <2> QED BY <2>1, <2>2, FS_Subset
<1>3. B = IF l.kind \in kinds THEN A \cup {n + 1} ELSE A
  <2>1. 1..(n + 1) = (1..n) \cup {n + 1}
    BY <1>1
  <2> QED BY <1>1, <2>1
<1>4. Cardinality(A) \in Nat /\ Cardinality(A \cup {n + 1}) = Cardinality(A) + 1
  BY <1>2, FS_CardinalityType, FS_AddElement
<1>6. Count(lines, kinds) = Cardinality(A) /\ Count(t, kinds) = Cardinality(B)
  BY DEF Count
<1>7. CASE l.kind \in kinds
  BY <1>3, <1>4, <1>6, <1>7 DEF t
<1>8. CASE l.kind \notin kinds
  <2>1. B = A
    BY <1>3, <1>8
  <2>2. Count(t, kinds) = Count(lines, kinds) /\ Count(lines, kinds) \in Nat
    BY <1>4, <1>6, <2>1
  <2> QED BY <1>8, <2>2 DEF t
<1> QED BY <1>7, <1>8

\* Sizes and tokens are numbers.
LEMMA SizeNat ==
  ASSUME NEW lines \in Seq(Diff!Lines)
  PROVE  Diff!Size(lines) \in Nat
<1> DEFINE L == Diff!Lines
<1>1. \A l \in L : l.size \in Nat
  BY DEF Diff!Lines
<1> HIDE DEF L
<1>2. lines \in Seq(L)
  BY DEF L
<1>3. [i \in DOMAIN lines |-> lines[i].size] \in Seq(Nat)
  BY <1>1, <1>2
<1> QED BY <1>3, TotalAppend DEF Diff!Size

\* The tokens of a hunk are a number.
LEMMA TokensNat ==
  ASSUME NEW h \in Diff!Hunks
  PROVE  Diff!HunkTokens(h) \in Nat
<1>1. h.lines \in Seq(Diff!Lines)
  BY DEF Diff!Hunks
<1>2. Diff!Size(h.lines) \in Nat
  BY <1>1, SizeNat
<1> QED BY <1>2, BudgetAssumption DEF Diff!HunkTokens

\* The tokens of a chunk.
Tokens(hunks) == Diff!Total([i \in DOMAIN hunks |-> Diff!HunkTokens(hunks[i])])

\* A hunk more adds its tokens.
LEMMA TokensAppend ==
  ASSUME NEW hunks \in Seq(Diff!Hunks), NEW h \in Diff!Hunks
  PROVE  /\ Tokens(<<>>) = 0
         /\ Tokens(hunks) \in Nat
         /\ Tokens(Append(hunks, h)) = Tokens(hunks) + Diff!HunkTokens(h)
<1> DEFINE H == Diff!Hunks
           t(x) == [i \in DOMAIN x |-> Diff!HunkTokens(x[i])]
<1>1. \A x \in H : Diff!HunkTokens(x) \in Nat
  BY TokensNat
<1> HIDE DEF H
<1>2. hunks \in Seq(H) /\ h \in H
  BY DEF H
<1>3. t(hunks) \in Seq(Nat) /\ Diff!HunkTokens(h) \in Nat
  BY <1>1, <1>2
<1>4. t(Append(hunks, h)) = Append(t(hunks), Diff!HunkTokens(h))
  BY <1>1, <1>2
<1>5. t(<<>>) = <<>>
  OBVIOUS
<1> HIDE DEF t
<1>6. /\ Diff!Total(<<>>) = 0 /\ Diff!Total(t(hunks)) \in Nat
      /\ Diff!Total(Append(t(hunks), Diff!HunkTokens(h))) = Diff!Total(t(hunks)) + Diff!HunkTokens(h)
  BY <1>3, TotalAppend
<1> QED BY <1>4, <1>5, <1>6 DEF Tokens, t

\* Segment takes a line or as many as fit: there is a largest number of them.
LEMMA SegmentIs ==
  ASSUME NEW lines \in Seq(Diff!Lines), lines # <<>>
  PROVE  \E n \in 1..Len(lines) :
           /\ Diff!Segment(lines) = SubSeq(lines, 1, n)
           /\ n = 1 \/ Diff!Size(SubSeq(lines, 1, n)) <= Budget * 4
<1> DEFINE Fits(n) == n = 1 \/ Diff!Size(SubSeq(lines, 1, n)) <= Budget * 4
           m == Len(lines)
           T == {d \in Nat : m - d \in 1..m /\ Fits(m - d)}
<1>1. m \in Nat /\ m >= 1 /\ DOMAIN lines = 1..m
  OBVIOUS
<1> HIDE DEF m
<1>2. m - 1 \in T
  BY <1>1
<1>3. PICK d \in T : \A e \in T : ~(e < d)
  <2>1. T \subseteq Nat /\ T # {}
    BY <1>2
  <2> HIDE DEF T
  <2> QED BY <2>1, LeastNat
<1>4. ASSUME NEW k \in 1..m, k > m - d, Fits(k)
      PROVE  FALSE
  <2>1. m - k \in Nat /\ m - (m - k) = k /\ m - k < d
    BY <1>1, <1>4, <1>3
  <2>2. m - k \in T
    BY <1>4, <2>1
  <2> QED BY <1>3, <2>1, <2>2
<1>5. m - d \in 1..m /\ Fits(m - d)
  BY <1>3
<1> HIDE DEF T, Fits
<1>6. \E n \in DOMAIN lines : Fits(n) /\ \A k \in DOMAIN lines : k > n => ~Fits(k)
  BY <1>1, <1>4, <1>5
<1> DEFINE n0 == CHOOSE n \in DOMAIN lines : Fits(n) /\ \A k \in DOMAIN lines : k > n => ~Fits(k)
<1>7. n0 \in DOMAIN lines /\ Fits(n0)
  BY <1>6
<1>8. Diff!Segment(lines) = SubSeq(lines, 1, n0)
  BY DEF Diff!Segment, Fits
<1> HIDE DEF n0
<1> QED BY <1>1, <1>7, <1>8 DEF Fits, m

\* One element more.
LEMMA FirstLines ==
  ASSUME NEW T, NEW s \in Seq(T), NEW k \in Nat, k < Len(s)
  PROVE  SubSeq(s, 1, k + 1) = Append(SubSeq(s, 1, k), s[k + 1])
OBVIOUS

\* What is counted in the first lines of a hunk and in those that follow.
LEMMA CountSplits ==
  ASSUME NEW lines \in Seq(Diff!Lines), NEW k \in Nat, k <= Len(lines),
         NEW m \in Nat, k + m <= Len(lines), NEW kinds
  PROVE  Count(SubSeq(lines, 1, k + m), kinds)
           = Count(SubSeq(lines, 1, k), kinds)
             + Count(SubSeq(SubSeq(lines, k + 1, Len(lines)), 1, m), kinds)
<1> DEFINE rest == SubSeq(lines, k + 1, Len(lines))
           S == {j \in Nat : k + j <= Len(lines) =>
                  Count(SubSeq(lines, 1, k + j), kinds)
                    = Count(SubSeq(lines, 1, k), kinds) + Count(SubSeq(rest, 1, j), kinds)}
           L == Diff!Lines
<1>1. Len(lines) \in Nat /\ 1 \in Nat \ {0} /\ k + 1 \in Nat \ {0}
      /\ \A j \in Nat : j - 1 + 1 = j /\ 1 + j - 1 = j
  OBVIOUS
<1>2. rest \in Seq(L) /\ Len(rest) = Len(lines) - k
      /\ \A i \in 1..(Len(lines) - k) : rest[i] = lines[k + i]
  <2>1. Len(lines) - (k + 1) + 1 = Len(lines) - k /\ \A i \in 1..(Len(lines) - k) : k + 1 + i - 1 = k + i
    BY <1>1
  <2>2. lines \in Seq(L) /\ k + 1 \in Nat \ {0} /\ Len(lines) <= Len(lines) /\ k + 1 - 1 <= Len(lines)
    BY <1>1
  <2> HIDE DEF L
  <2>3. /\ rest \in Seq(L) /\ Len(rest) = Len(lines) - (k + 1) + 1
        /\ \A i \in 1..(Len(lines) - (k + 1) + 1) : rest[i] = lines[k + 1 + i - 1]
    BY <1>1, <2>2, Subsequence
  <2> QED BY <2>1, <2>3
<1> HIDE DEF rest
<1>3. \A j \in Nat : j <= Len(lines) => SubSeq(lines, 1, j) \in Seq(L)
  <2> HIDE DEF L
  <2>1. lines \in Seq(L) BY DEF L
  <2> QED BY <2>1
<1>4. \A j \in Nat : j <= Len(rest) => SubSeq(rest, 1, j) \in Seq(L)
  <2> HIDE DEF L
  <2> QED BY <1>2
<1>5. 0 \in S
  <2>1. SubSeq(rest, 1, 0) = <<>>
    BY <1>2
  <2>2. Count(SubSeq(lines, 1, k), kinds) \in Nat /\ Count(<<>>, kinds) = 0
    <3>1. SubSeq(lines, 1, k) \in Seq(L)
      BY <1>3
    <3> QED BY <3>1, CountNat, CountEmpty
  <2>3. k + 0 = k
    OBVIOUS
  <2> DEFINE c == Count(SubSeq(lines, 1, k), kinds)
  <2>4. /\ Count(SubSeq(lines, 1, k + 0), kinds) = c
        /\ Count(SubSeq(rest, 1, 0), kinds) = 0
    BY <2>1, <2>2, <2>3
  <2>5. c = c + 0
    BY <2>2
  <2> QED BY <2>4, <2>5
<1>6. ASSUME NEW j \in Nat, j \in S PROVE j + 1 \in S
  <2> SUFFICES ASSUME k + (j + 1) <= Len(lines)
               PROVE  Count(SubSeq(lines, 1, k + (j + 1)), kinds)
                        = Count(SubSeq(lines, 1, k), kinds) + Count(SubSeq(rest, 1, j + 1), kinds)
    OBVIOUS
  <2> DEFINE l == lines[k + (j + 1)]
  <2>1. k + j \in Nat /\ k + j < Len(lines) /\ k + j + 1 = k + (j + 1) /\ j < Len(rest) /\ k + j <= Len(lines)
        /\ j <= Len(rest)
    BY <1>1, <1>2
  <2>2. l \in L /\ rest[j + 1] = l
    <3>1. j + 1 \in 1..(Len(lines) - k) /\ k + (j + 1) \in 1..Len(lines)
      BY <1>1, <2>1
    <3> HIDE DEF L
    <3>2. lines \in Seq(L) BY DEF L
    <3> QED BY <1>2, <3>1, <3>2
  <2>3. /\ SubSeq(lines, 1, k + (j + 1)) = Append(SubSeq(lines, 1, k + j), l)
        /\ SubSeq(rest, 1, j + 1) = Append(SubSeq(rest, 1, j), l)
    <3> HIDE DEF L
    <3>1. lines \in Seq(L) BY DEF L
    <3>2. SubSeq(lines, 1, k + j + 1) = Append(SubSeq(lines, 1, k + j), lines[k + j + 1])
      BY <2>1, <3>1, FirstLines
    <3>3. SubSeq(rest, 1, j + 1) = Append(SubSeq(rest, 1, j), rest[j + 1])
      BY <1>2, <2>1, FirstLines
    <3> QED BY <2>1, <2>2, <3>2, <3>3
  <2>4. SubSeq(lines, 1, k + j) \in Seq(L) /\ SubSeq(rest, 1, j) \in Seq(L)
        /\ SubSeq(lines, 1, k) \in Seq(L)
    BY <1>3, <1>4, <2>1
  <2> DEFINE one == IF l.kind \in kinds THEN 1 ELSE 0
  <2>5. /\ Count(SubSeq(lines, 1, k + (j + 1)), kinds) = Count(SubSeq(lines, 1, k + j), kinds) + one
        /\ Count(SubSeq(rest, 1, j + 1), kinds) = Count(SubSeq(rest, 1, j), kinds) + one
    <3> DEFINE x == SubSeq(lines, 1, k + j)
               y == SubSeq(rest, 1, j)
    <3> HIDE DEF l, x, y
    <3>1. x \in Seq(Diff!Lines) /\ y \in Seq(Diff!Lines) /\ l \in Diff!Lines
      BY <2>2, <2>4 DEF x, y
    <3>2. /\ Count(Append(x, l), kinds) = Count(x, kinds) + one
          /\ Count(Append(y, l), kinds) = Count(y, kinds) + one
      BY <3>1, CountAppend
    <3> QED BY <2>3, <3>2 DEF x, y
  <2>8. /\ Count(SubSeq(lines, 1, k), kinds) \in Nat
        /\ Count(SubSeq(rest, 1, j), kinds) \in Nat
    BY <2>4, CountNat
  <2>6. Count(SubSeq(lines, 1, k + j), kinds)
          = Count(SubSeq(lines, 1, k), kinds) + Count(SubSeq(rest, 1, j), kinds)
    BY <1>6, <2>1
  <2>7. one \in Nat
    OBVIOUS
  <2> HIDE DEF one, l
  <2> QED BY <2>5, <2>6, <2>7, <2>8
<1> HIDE DEF S
<1>7. Nat \subseteq S
  BY <1>5, <1>6, SetInduction
<1>8. m \in S
  BY <1>7
<1> QED BY <1>8 DEF S, rest

\* A line with its numbers.
NumberedLines == [line : Diff!Lines, source : Nat, target : Nat]

\* How many lines of some kinds are above the i-th of a hunk.
Above(h, i, kinds) == Count(SubSeq(h.lines, 1, i - 1), kinds)
InSource == {"removed", "context"}
InTarget == {"added", "context"}

\* A hunk's lines with their numbers.
LEMMA NumberedIs ==
  ASSUME NEW h \in Diff!Hunks
  PROVE  /\ h.lines \in Seq(Diff!Lines) /\ Len(h.lines) \in Nat
         /\ Diff!Numbered(h) \in Seq(NumberedLines)
         /\ Len(Diff!Numbered(h)) = Len(h.lines)
         /\ \A i \in 1..Len(h.lines) :
              Diff!Numbered(h)[i] = [line |-> h.lines[i],
                                     source |-> h.source + Above(h, i, InSource),
                                     target |-> h.target + Above(h, i, InTarget)]
<1> DEFINE L == Diff!Lines
           n == Len(h.lines)
           v(i) == [line |-> h.lines[i],
                    source |-> h.source + Above(h, i, InSource),
                    target |-> h.target + Above(h, i, InTarget)]
<1>1. h.lines \in Seq(L) /\ h.source \in Nat /\ h.target \in Nat
  BY DEF Diff!Hunks
<1>2. \A i \in 1..n : h.lines[i] \in L /\ SubSeq(h.lines, 1, i - 1) \in Seq(L)
  <2> HIDE DEF L
  <2> QED BY <1>1
<1>3. \A i \in 1..n : Above(h, i, InSource) \in Nat /\ Above(h, i, InTarget) \in Nat
  BY <1>2, CountNat DEF Above
<1>4. \A i \in 1..n : v(i) \in NumberedLines
  BY <1>1, <1>2, <1>3 DEF NumberedLines
<1>5. n \in Nat /\ DOMAIN h.lines = 1..n
  <2> HIDE DEF L
  <2> QED BY <1>1
<1>6. Diff!Numbered(h) = [i \in 1..n |-> v(i)]
  <2>1. \A lines : /\ Diff!SourceLength(lines) = Count(lines, InSource)
                   /\ Diff!TargetLength(lines) = Count(lines, InTarget)
    BY SameCardinality DEF Diff!SourceLength, Diff!TargetLength, Count, InSource, InTarget
  <2> QED BY <1>5, <2>1 DEF Diff!Numbered, Above
<1> HIDE DEF v, n, L
<1>7. Diff!Numbered(h) \in Seq(NumberedLines) /\ Len(Diff!Numbered(h)) = n
      /\ \A i \in 1..n : Diff!Numbered(h)[i] = v(i)
  BY <1>4, <1>5, <1>6
<1> QED BY <1>1, <1>5, <1>7 DEF v, n, L

\* SourceLength and TargetLength count.
LEMMA Lengths ==
  ASSUME NEW lines
  PROVE  /\ Diff!SourceLength(lines) = Count(lines, InSource)
         /\ Diff!TargetLength(lines) = Count(lines, InTarget)
BY SameCardinality DEF Diff!SourceLength, Diff!TargetLength, Count, InSource, InTarget

\* A sequence in two parts.
LEMMA Parts ==
  ASSUME NEW T, NEW s \in Seq(T), NEW k \in Nat, k <= Len(s)
  PROVE  /\ SubSeq(s, 1, k) \in Seq(T) /\ Len(SubSeq(s, 1, k)) = k
         /\ \A i \in 1..k : SubSeq(s, 1, k)[i] = s[i]
         /\ SubSeq(s, k + 1, Len(s)) \in Seq(T) /\ Len(SubSeq(s, k + 1, Len(s))) = Len(s) - k
         /\ \A i \in 1..(Len(s) - k) : SubSeq(s, k + 1, Len(s))[i] = s[k + i]
         /\ \A i \in 1..k : SubSeq(SubSeq(s, 1, k), 1, i - 1) = SubSeq(s, 1, i - 1)
<1>1. Len(s) \in Nat /\ 1 \in Nat \ {0} /\ k + 1 \in Nat \ {0} /\ 1 - 1 <= k /\ k + 1 - 1 <= Len(s)
      /\ Len(s) <= Len(s)
  OBVIOUS
<1>2. /\ SubSeq(s, 1, k) \in Seq(T) /\ Len(SubSeq(s, 1, k)) = k - 1 + 1
      /\ \A i \in 1..(k - 1 + 1) : SubSeq(s, 1, k)[i] = s[1 + i - 1]
  BY <1>1, Subsequence
<1>3. /\ SubSeq(s, k + 1, Len(s)) \in Seq(T)
      /\ Len(SubSeq(s, k + 1, Len(s))) = Len(s) - (k + 1) + 1
      /\ \A i \in 1..(Len(s) - (k + 1) + 1) : SubSeq(s, k + 1, Len(s))[i] = s[k + 1 + i - 1]
  BY <1>1, Subsequence
<1>4. /\ k - 1 + 1 = k /\ Len(s) - (k + 1) + 1 = Len(s) - k
      /\ \A i \in Nat : 1 + i - 1 = i /\ k + 1 + i - 1 = k + i
  BY <1>1
<1>5. ASSUME NEW i \in 1..k
      PROVE  SubSeq(SubSeq(s, 1, k), 1, i - 1) = SubSeq(s, 1, i - 1)
  <2> DEFINE t == SubSeq(s, 1, k)
  <2>1. i - 1 \in Nat /\ i - 1 <= k /\ i - 1 <= Len(s)
    BY <1>1
  <2>2. t \in Seq(T) /\ Len(t) = k /\ \A j \in 1..k : t[j] = s[j]
    BY <1>2, <1>4
  <2> HIDE DEF t
  <2>3. SubSeq(t, 1, i - 1) = [j \in 1..(i - 1) |-> t[j]]
    BY <2>1, <2>2
  <2>4. SubSeq(s, 1, i - 1) = [j \in 1..(i - 1) |-> s[j]]
    BY <2>1
  <2>5. \A j \in 1..(i - 1) : t[j] = s[j]
    BY <2>1, <2>2
  <2> QED BY <2>3, <2>4, <2>5 DEF t
<1>6. /\ SubSeq(s, 1, k) \in Seq(T) /\ Len(SubSeq(s, 1, k)) = k
      /\ \A i \in 1..k : SubSeq(s, 1, k)[i] = s[i]
  BY <1>2, <1>4
<1>7. /\ SubSeq(s, k + 1, Len(s)) \in Seq(T) /\ Len(SubSeq(s, k + 1, Len(s))) = Len(s) - k
      /\ \A i \in 1..(Len(s) - k) : SubSeq(s, k + 1, Len(s))[i] = s[k + i]
  <2>1. ASSUME NEW i \in 1..(Len(s) - k) PROVE SubSeq(s, k + 1, Len(s))[i] = s[k + i]
    <3>1. i \in 1..(Len(s) - (k + 1) + 1) /\ k + 1 + i - 1 = k + i
      BY <1>4
    <3> QED BY <1>3, <3>1
  <2> QED BY <1>3, <1>4, <2>1
<1> QED BY <1>5, <1>6, <1>7

\* Two parts make the whole.
LEMMA JoinParts ==
  ASSUME NEW T, NEW x \in Seq(T), NEW y \in Seq(T), NEW z \in Seq(T), NEW k \in Nat, NEW m \in Nat,
         Len(x) = k, Len(y) = m, Len(z) = k + m,
         \A i \in 1..k : x[i] = z[i], \A j \in 1..m : y[j] = z[k + j]
  PROVE  x \o y = z
<1>1. /\ x \o y \in Seq(T) /\ Len(x \o y) = k + m
      /\ \A i \in 1..k : (x \o y)[i] = x[i]
      /\ \A i \in (k + 1)..(k + m) : (x \o y)[i] = y[i - k]
  <2>1. /\ x \o y \in Seq(T) /\ Len(x \o y) = Len(x) + Len(y)
        /\ \A i \in 1..Len(x) : (x \o y)[i] = x[i]
        /\ \A i \in (Len(x) + 1)..(Len(x) + Len(y)) : (x \o y)[i] = y[i - Len(x)]
    BY ConcatElements
  <2> QED BY <2>1
<1>2. ASSUME NEW i \in 1..(k + m) PROVE (x \o y)[i] = z[i]
  <2>1. CASE i <= k
    <3>1. i \in 1..k
      BY <2>1
    <3>2. (x \o y)[i] = x[i] /\ x[i] = z[i]
      BY <1>1, <3>1
    <3> QED BY <3>2
  <2>2. CASE i > k
    <3>1. i \in (k + 1)..(k + m) /\ i - k \in 1..m /\ k + (i - k) = i
      BY <2>2
    <3>2. (x \o y)[i] = y[i - k] /\ y[i - k] = z[k + (i - k)]
      BY <1>1, <3>1
    <3> QED BY <3>1, <3>2
  <2>3. i <= k \/ i > k
    OBVIOUS
  <2> QED BY <2>1, <2>2, <2>3
<1> QED BY <1>1, <1>2, SameSeq

\* Two parts of a hunk with the right numbers at their start have them on every line.
LEMMA NumberedJoins ==
  ASSUME NEW h \in Diff!Hunks, NEW k \in Nat, k <= Len(h.lines),
         NEW first \in Diff!Hunks, NEW rest \in Diff!Hunks,
         first.lines = SubSeq(h.lines, 1, k), first.source = h.source, first.target = h.target,
         rest.lines = SubSeq(h.lines, k + 1, Len(h.lines)),
         rest.source = h.source + Count(SubSeq(h.lines, 1, k), InSource),
         rest.target = h.target + Count(SubSeq(h.lines, 1, k), InTarget)
  PROVE  Diff!Numbered(first) \o Diff!Numbered(rest) = Diff!Numbered(h)
<1> DEFINE L == Diff!Lines
           n == Len(h.lines)
           a == SubSeq(h.lines, 1, k)
           b == SubSeq(h.lines, k + 1, Len(h.lines))
<1>1. h.lines \in Seq(L) /\ h.source \in Nat /\ h.target \in Nat
  BY DEF Diff!Hunks
<1>2. n \in Nat
  <2> HIDE DEF L
  <2> QED BY <1>1
<1>3. /\ a \in Seq(L) /\ Len(a) = k /\ \A i \in 1..k : a[i] = h.lines[i]
      /\ b \in Seq(L) /\ Len(b) = n - k /\ \A i \in 1..(n - k) : b[i] = h.lines[k + i]
      /\ \A i \in 1..k : SubSeq(a, 1, i - 1) = SubSeq(h.lines, 1, i - 1)
  <2> HIDE DEF L
  <2> QED BY <1>1, Parts
<1>4. \A kinds : Count(a, kinds) \in Nat
  BY <1>3, CountNat
<1>5. /\ first.lines = a /\ first.source = h.source /\ first.target = h.target
      /\ rest.lines = b /\ rest.source = h.source + Count(a, InSource)
      /\ rest.target = h.target + Count(a, InTarget)
  OBVIOUS
<1>7. ASSUME NEW i \in 1..k, NEW kinds
      PROVE  Above(first, i, kinds) = Above(h, i, kinds)
  BY <1>3, <1>5 DEF Above
<1>8. ASSUME NEW j \in 1..(n - k), NEW kinds
      PROVE  Above(h, k + j, kinds) = Count(a, kinds) + Above(rest, j, kinds)
  <2>1. j - 1 \in Nat /\ k + (j - 1) <= n /\ (k + j) - 1 = k + (j - 1)
    BY <1>2
  <2>2. Count(SubSeq(h.lines, 1, k + (j - 1)), kinds)
          = Count(a, kinds) + Count(SubSeq(b, 1, j - 1), kinds)
    <3> DEFINE m == j - 1
    <3>1. m \in Nat /\ k + m <= Len(h.lines) /\ k <= Len(h.lines) /\ h.lines \in Seq(Diff!Lines)
      BY <1>1, <2>1
    <3> HIDE DEF m, L, n
    <3>2. Count(SubSeq(h.lines, 1, k + m), kinds)
            = Count(SubSeq(h.lines, 1, k), kinds)
              + Count(SubSeq(SubSeq(h.lines, k + 1, Len(h.lines)), 1, m), kinds)
      BY <3>1, CountSplits
    <3> QED BY <3>2 DEF m
  <2> QED BY <1>5, <2>1, <2>2 DEF Above
<1> DEFINE x == Diff!Numbered(first)
           y == Diff!Numbered(rest)
           z == Diff!Numbered(h)
<1>9. /\ x \in Seq(NumberedLines) /\ Len(x) = k
      /\ \A i \in 1..k : x[i] = [line |-> first.lines[i],
                                 source |-> first.source + Above(first, i, InSource),
                                 target |-> first.target + Above(first, i, InTarget)]
  <2>1. Len(first.lines) = k
    BY <1>3
  <2> HIDE DEF a, b
  <2> QED BY <2>1, NumberedIs
<1>10. /\ y \in Seq(NumberedLines) /\ Len(y) = n - k
       /\ \A j \in 1..(n - k) : y[j] = [line |-> rest.lines[j],
                                 source |-> rest.source + Above(rest, j, InSource),
                                 target |-> rest.target + Above(rest, j, InTarget)]
  <2>1. Len(rest.lines) = n - k
    BY <1>3
  <2> HIDE DEF a, b, n
  <2> QED BY <2>1, NumberedIs
<1>11. /\ z \in Seq(NumberedLines) /\ Len(z) = n
       /\ \A i \in 1..n : z[i] = [line |-> h.lines[i],
                                 source |-> h.source + Above(h, i, InSource),
                                 target |-> h.target + Above(h, i, InTarget)]
  BY NumberedIs
<1>12. ASSUME NEW i \in 1..k
       PROVE  x[i] = z[i]
  <2> HIDE DEF x, y, z, a, b
  <2>1. i \in 1..n
    BY <1>2
  <2>2. x[i] = [line |-> h.lines[i], source |-> h.source + Above(h, i, InSource),
                target |-> h.target + Above(h, i, InTarget)]
    <3>1. /\ Above(first, i, InSource) = Above(h, i, InSource)
          /\ Above(first, i, InTarget) = Above(h, i, InTarget)
      BY <1>7
    <3>2. first.lines[i] = h.lines[i]
      BY <1>3, <1>5
    <3>3. x[i] = [line |-> first.lines[i],
                  source |-> first.source + Above(first, i, InSource),
                  target |-> first.target + Above(first, i, InTarget)]
      BY <1>9
    <3> QED BY <1>5, <3>1, <3>2, <3>3, Zenon
  <2> QED BY <1>11, <2>1, <2>2
<1>13. ASSUME NEW j \in 1..(n - k)
       PROVE  y[j] = z[k + j]
  <2> HIDE DEF x, y, z, a, b
  <2>1. k + j \in 1..n
    BY <1>2
  <2>2. Above(rest, j, InSource) \in Nat /\ Above(rest, j, InTarget) \in Nat
    <3>1. SubSeq(b, 1, j - 1) \in Seq(L)
      <4>1. j - 1 \in Nat /\ j - 1 <= Len(b)
        BY <1>2, <1>3
      <4> HIDE DEF L
      <4> QED BY <1>3, <4>1, Parts
    <3> QED BY <1>5, <3>1, CountNat DEF Above
  <2>3. \A p, q, r \in Nat : (p + q) + r = p + (q + r)
    OBVIOUS
  <2>4. /\ (h.source + Count(a, InSource)) + Above(rest, j, InSource) = h.source + Above(h, k + j, InSource)
        /\ (h.target + Count(a, InTarget)) + Above(rest, j, InTarget) = h.target + Above(h, k + j, InTarget)
    <3>1. /\ Above(h, k + j, InSource) = Count(a, InSource) + Above(rest, j, InSource)
          /\ Above(h, k + j, InTarget) = Count(a, InTarget) + Above(rest, j, InTarget)
      BY <1>8
    <3> QED BY <1>1, <1>4, <2>2, <2>3, <3>1
  <2>5. y[j] = [line |-> h.lines[k + j], source |-> h.source + Above(h, k + j, InSource),
                target |-> h.target + Above(h, k + j, InTarget)]
    <3>1. rest.lines[j] = h.lines[k + j]
      BY <1>3, <1>5
    <3>2. y[j] = [line |-> rest.lines[j],
                  source |-> rest.source + Above(rest, j, InSource),
                  target |-> rest.target + Above(rest, j, InTarget)]
      BY <1>10
    <3> QED BY <1>5, <2>4, <3>1, <3>2, Zenon
  <2>6. z[k + j] = [line |-> h.lines[k + j], source |-> h.source + Above(h, k + j, InSource),
                    target |-> h.target + Above(h, k + j, InTarget)]
    <3> DEFINE i == k + j
    <3>1. i \in 1..n BY <2>1
    <3> HIDE DEF i
    <3>2. z[i] = [line |-> h.lines[i], source |-> h.source + Above(h, i, InSource),
                  target |-> h.target + Above(h, i, InTarget)]
      BY <1>11, <3>1
    <3> QED BY <3>2 DEF i
  <2> QED BY <2>5, <2>6
<1>14. x \o y = z
  <2> DEFINE m == n - k
  <2>1. m \in Nat /\ n = k + m
    BY <1>2
  <2> HIDE DEF x, y, z, m, n
  <2>2. /\ x \in Seq(NumberedLines) /\ y \in Seq(NumberedLines) /\ z \in Seq(NumberedLines)
        /\ Len(x) = k /\ Len(y) = m /\ Len(z) = k + m
    BY <1>9, <1>10, <1>11, <2>1 DEF m
  <2>3. (\A i \in 1..k : x[i] = z[i]) /\ \A j \in 1..m : y[j] = z[k + j]
    BY <1>12, <1>13 DEF m
  <2> QED BY <2>1, <2>2, <2>3, JoinParts
<1> QED BY <1>14 DEF x, y, z


\* The first k lines of a hunk, and the rest.
First(h, k) == [h EXCEPT !.lines = SubSeq(h.lines, 1, k)]
Rest(h, k) == [source |-> h.source + Count(SubSeq(h.lines, 1, k), InSource),
               target |-> h.target + Count(SubSeq(h.lines, 1, k), InTarget),
               lines |-> SubSeq(h.lines, k + 1, Len(h.lines))]

\* Cutting a hunk keeps the number of every line.
LEMMA NumberedSplits ==
  ASSUME NEW h \in Diff!Hunks, NEW k \in Nat, k <= Len(h.lines)
  PROVE  /\ First(h, k) \in Diff!Hunks /\ Rest(h, k) \in Diff!Hunks
         /\ Diff!Numbered(First(h, k)) \o Diff!Numbered(Rest(h, k)) = Diff!Numbered(h)
<1> DEFINE L == Diff!Lines
           M == Seq(L)
           a == SubSeq(h.lines, 1, k)
           b == SubSeq(h.lines, k + 1, Len(h.lines))
           c == Count(a, InSource)
           d == Count(a, InTarget)
<1>1. /\ h \in [source : Nat, target : Nat, lines : M] /\ h.lines \in M
      /\ h.source \in Nat /\ h.target \in Nat
  BY DEF Diff!Hunks
<1>2. a \in M /\ b \in M
  <2> HIDE DEF L
  <2> QED BY <1>1, Parts
<1>3. c \in Nat /\ d \in Nat
  BY <1>2, CountNat
<1>4. /\ First(h, k) = [h EXCEPT !.lines = a]
      /\ Rest(h, k) = [source |-> h.source + c, target |-> h.target + d, lines |-> b]
  BY DEF First, Rest
<1> HIDE DEF M, a, b, c, d
<1>5. /\ First(h, k) \in [source : Nat, target : Nat, lines : M]
      /\ First(h, k).lines = a /\ First(h, k).source = h.source /\ First(h, k).target = h.target
  BY <1>1, <1>2, <1>4
<1>6. /\ Rest(h, k) \in [source : Nat, target : Nat, lines : M]
      /\ Rest(h, k).lines = b /\ Rest(h, k).source = h.source + c /\ Rest(h, k).target = h.target + d
  BY <1>1, <1>2, <1>3, <1>4
<1>7. First(h, k) \in Diff!Hunks /\ Rest(h, k) \in Diff!Hunks
  BY <1>5, <1>6 DEF Diff!Hunks, M
<1>8. Diff!Numbered(First(h, k)) \o Diff!Numbered(Rest(h, k)) = Diff!Numbered(h)
  <2> DEFINE first == First(h, k)
             rest == Rest(h, k)
  <2>1. /\ first.lines = SubSeq(h.lines, 1, k) /\ first.source = h.source /\ first.target = h.target
        /\ rest.lines = SubSeq(h.lines, k + 1, Len(h.lines))
        /\ rest.source = h.source + Count(SubSeq(h.lines, 1, k), InSource)
        /\ rest.target = h.target + Count(SubSeq(h.lines, 1, k), InTarget)
    BY <1>5, <1>6 DEF a, b, c, d
  <2>2. first \in Diff!Hunks /\ rest \in Diff!Hunks
    BY <1>7
  <2> HIDE DEF first, rest
  <2>3. Diff!Numbered(first) \o Diff!Numbered(rest) = Diff!Numbered(h)
    BY <2>1, <2>2, NumberedJoins
  <2> QED BY <2>3 DEF first, rest
<1> QED BY <1>7, <1>8

\* FlattenAppend for the chunks.
LEMMA DiffFlatten ==
  ASSUME NEW T, NEW ss \in Seq(Seq(T)), NEW s \in Seq(T)
  PROVE  /\ Diff!FlattenSeq(<<>>) = <<>>
         /\ Diff!FlattenSeq(ss) \in Seq(T)
         /\ Append(ss, s) \in Seq(Seq(T))
         /\ Diff!FlattenSeq(Append(ss, s)) = Diff!FlattenSeq(ss) \o s
<1>1. Diff!FlattenSeq(<<>>) = <<>>
  BY DEF Diff!FlattenSeq
<1>2. Append(ss, s) \in Seq(Seq(T))
  <2> DEFINE E == Seq(T)
  <2>1. ss \in Seq(E) /\ s \in E
    OBVIOUS
  <2> HIDE DEF E
  <2>2. Append(ss, s) \in Seq(E)
    BY <2>1
  <2> QED BY <2>2 DEF E
<1>3. /\ Diff!FlattenSeq(ss) = Pages!FlattenSeq(ss)
      /\ Diff!FlattenSeq(Append(ss, s)) = Pages!FlattenSeq(Append(ss, s))
  BY <1>2, SameFlatten
<1> QED BY <1>1, <1>2, <1>3, FlattenAppend

\* A hunk more adds its lines.
LEMMA AllAppend ==
  ASSUME NEW hunks \in Seq(Diff!Hunks), NEW h \in Diff!Hunks
  PROVE  /\ Diff!AllNumbered(<<>>) = <<>>
         /\ Diff!AllNumbered(hunks) \in Seq(NumberedLines)
         /\ Diff!AllNumbered(Append(hunks, h)) = Diff!AllNumbered(hunks) \o Diff!Numbered(h)
<1> DEFINE H == Diff!Hunks
           E == Seq(NumberedLines)
           N(x) == Diff!Numbered(x)
           each(hs) == [i \in DOMAIN hs |-> N(hs[i])]
<1>1. \A x \in H : N(x) \in E
  BY NumberedIs
<1>2. hunks \in Seq(H) /\ h \in H
  OBVIOUS
<1>3. each(hunks) \in Seq(E) /\ each(Append(hunks, h)) = Append(each(hunks), N(h)) /\ each(<<>>) = <<>>
  <2> HIDE DEF H, E, N
  <2> QED BY <1>1, <1>2
<1>4. \A hs : Diff!AllNumbered(hs) = Diff!FlattenSeq(each(hs))
  BY DEF Diff!AllNumbered
<1>5. each(hunks) \in Seq(Seq(NumberedLines)) /\ N(h) \in Seq(NumberedLines)
  BY <1>1, <1>2, <1>3
<1> HIDE DEF each, N
<1>6. /\ Diff!FlattenSeq(<<>>) = <<>>
      /\ Diff!FlattenSeq(each(hunks)) \in Seq(NumberedLines)
      /\ Diff!FlattenSeq(Append(each(hunks), N(h))) = Diff!FlattenSeq(each(hunks)) \o N(h)
  BY <1>5, DiffFlatten
<1> QED BY <1>3, <1>4, <1>6 DEF N

\* A hunk without lines adds none.
LEMMA NoLines ==
  ASSUME NEW h \in Diff!Hunks, h.lines = <<>>
  PROVE  Diff!Numbered(h) = <<>>
BY DEF Diff!Numbered

\* What was chunked, with what is collected.
LEMMA FlushedIs ==
  ASSUME Diff!ChunksInv, stage = "packing"
  PROVE  /\ Diff!Flushed \in Seq(Seq(Diff!Hunks))
         /\ Diff!FlattenSeq(chunks) \in Seq(Diff!Hunks)
         /\ Diff!FlattenSeq(Diff!Flushed) = Diff!FlattenSeq(chunks) \o current
         /\ Diff!FlattenSeq(chunks) \o current \in Seq(Diff!Hunks)
         /\ \A i \in DOMAIN Diff!Flushed : Diff!Within(Diff!Flushed[i])
<1> DEFINE H == Diff!Hunks
           F == Diff!FlattenSeq(chunks)
<1>1. /\ chunks \in Seq(Seq(H)) /\ current \in Seq(H) /\ <<>> \in Seq(H)
      /\ \A i \in DOMAIN chunks : Diff!Within(chunks[i])
      /\ Tokens(current) <= Budget
  BY DEF Diff!ChunksInv, Tokens
<1>2. F \in Seq(H) /\ Append(chunks, current) \in Seq(Seq(H))
      /\ Diff!FlattenSeq(Append(chunks, current)) = F \o current
  <2> HIDE DEF H
  <2> QED BY <1>1, DiffFlatten
<1>3. F \o current \in Seq(H) /\ F \o <<>> = F
  <2> HIDE DEF H, F
  <2> QED BY <1>1, <1>2
<1>4. CASE current = <<>>
  BY <1>1, <1>2, <1>3, <1>4 DEF Diff!Flushed
<1>5. CASE current # <<>>
  <2>1. Diff!Flushed = Append(chunks, current)
    BY <1>5 DEF Diff!Flushed
  <2>2. Diff!Within(current)
    BY <1>1 DEF Diff!Within, Tokens
  <2>3. \A i \in DOMAIN Append(chunks, current) : Diff!Within(Append(chunks, current)[i])
    <3> DEFINE E == Seq(H)
    <3>1. chunks \in Seq(E) /\ current \in E
      BY <1>1
    <3> HIDE DEF E
    <3>2. /\ DOMAIN Append(chunks, current) = 1..(Len(chunks) + 1) /\ DOMAIN chunks = 1..Len(chunks)
          /\ Len(chunks) \in Nat
          /\ Append(chunks, current)[Len(chunks) + 1] = current
          /\ \A i \in 1..Len(chunks) : Append(chunks, current)[i] = chunks[i]
      BY <3>1
    <3>3. \A i \in 1..(Len(chunks) + 1) : i \in 1..Len(chunks) \/ i = Len(chunks) + 1
      BY <3>2
    <3> QED BY <1>1, <2>2, <3>2, <3>3
  <2> QED BY <1>2, <1>3, <2>1, <2>3
<1> QED BY <1>4, <1>5

\* The hunks looked at, after one more.
LEMMA NextHunk ==
  ASSUME Diff!ChunksInv, hunk <= Len(file), part.lines = <<>>
  PROVE  /\ file[hunk] \in Diff!Hunks /\ hunk + 1 \in 1..(Len(file) + 1)
         /\ Diff!AllNumbered(SubSeq(file, 1, (hunk + 1) - 1))
              = Diff!AllNumbered(Diff!FlattenSeq(chunks) \o current) \o Diff!Numbered(file[hunk])
<1> DEFINE H == Diff!Hunks
           A == Diff!AllNumbered(Diff!FlattenSeq(chunks) \o current)
           seen == SubSeq(file, 1, hunk - 1)
<1>1. file \in Seq(H) /\ hunk \in 1..(Len(file) + 1) /\ part \in Diff!Hunks
  BY DEF Diff!ChunksInv
<1>2. /\ file[hunk] \in H /\ hunk + 1 \in 1..(Len(file) + 1) /\ hunk - 1 \in Nat /\ hunk - 1 < Len(file)
      /\ (hunk - 1) + 1 = hunk /\ (hunk + 1) - 1 = hunk
  <2> HIDE DEF H
  <2> QED BY <1>1
<1>3. seen \in Seq(H) /\ SubSeq(file, 1, hunk) = Append(seen, file[hunk])
  <2> HIDE DEF H
  <2>1. SubSeq(file, 1, (hunk - 1) + 1) = Append(SubSeq(file, 1, hunk - 1), file[(hunk - 1) + 1])
    BY <1>1, <1>2, FirstLines
  <2>2. SubSeq(file, 1, hunk - 1) \in Seq(H)
    BY <1>1, <1>2
  <2> QED BY <1>2, <2>1, <2>2
<1>4. Diff!AllNumbered(SubSeq(file, 1, hunk)) = Diff!AllNumbered(seen) \o Diff!Numbered(file[hunk])
      /\ Diff!AllNumbered(seen) \in Seq(NumberedLines)
  BY <1>2, <1>3, AllAppend
<1>5. A \o <<>> = Diff!AllNumbered(seen)
  BY <1>1, NoLines DEF Diff!ChunksInv
<1>6. A = Diff!AllNumbered(seen)
  <2>1. Diff!FlattenSeq(chunks) \o current \in Seq(H)
    <3>1. Diff!FlattenSeq(chunks) \in Seq(H) /\ current \in Seq(H)
      <4>1. chunks \in Seq(Seq(H)) /\ current \in Seq(H)
        BY DEF Diff!ChunksInv
      <4> HIDE DEF H
      <4> QED BY <4>1, DiffFlatten
    <3> HIDE DEF H
    <3> QED BY <3>1
  <2>2. A \in Seq(NumberedLines)
    BY <2>1, <1>2, AllAppend
  <2> HIDE DEF A, seen
  <2> QED BY <1>5, <2>2
<1> QED BY <1>2, <1>4, <1>6

\* Appending, and joining one element.
LEMMA OneMore ==
  ASSUME NEW T, NEW s \in Seq(T), NEW t \in Seq(T), NEW x \in T
  PROVE  /\ s \o <<>> = s /\ <<x>> = Append(<<>>, x) /\ <<x>> \in Seq(T) /\ <<>> \in Seq(T)
         /\ s \o <<x>> = Append(s, x) /\ Append(t, x) \in Seq(T) /\ Append(t, x) # <<>>
         /\ s \o Append(t, x) = Append(s \o t, x)
OBVIOUS

\* A hunk that is too large keeps the invariant, ...
LEMMA StartsCuttingKeeps ==
  ASSUME Diff!ChunksInv, Diff!StartsCutting
  PROVE  Diff!ChunksInv'
<1> DEFINE H == Diff!Hunks
           X == Diff!FlattenSeq(chunks) \o current
<1>1. /\ stage = "packing" /\ part.lines = <<>> /\ hunk <= Len(file)
      /\ chunks' = Diff!Flushed /\ current' = <<>> /\ tokens' = 0
      /\ part' = file[hunk] /\ hunk' = hunk + 1 /\ UNCHANGED <<file, stage>>
  BY DEF Diff!StartsCutting, Diff!Looks
<1>2. /\ Diff!Flushed \in Seq(Seq(H)) /\ X \in Seq(H) /\ Diff!FlattenSeq(Diff!Flushed) = X
      /\ \A i \in DOMAIN Diff!Flushed : Diff!Within(Diff!Flushed[i])
  BY <1>1, FlushedIs
<1>3. /\ file[hunk] \in H /\ hunk + 1 \in 1..(Len(file) + 1)
      /\ Diff!AllNumbered(SubSeq(file, 1, (hunk + 1) - 1))
           = Diff!AllNumbered(X) \o Diff!Numbered(file[hunk])
  BY <1>1, NextHunk
<1>4. X \o <<>> = X /\ <<>> \in Seq(H)
  <2> HIDE DEF X, H
  <2> QED BY <1>2
<1>5. Tokens(<<>>) = 0 /\ 0 <= Budget
  <2>1. Tokens(<<>>) = 0
    <3> HIDE DEF H, X
    <3>1. <<>> \in Seq(Diff!Hunks) /\ file[hunk] \in Diff!Hunks
      BY <1>3, <1>4 DEF H
    <3> QED BY <3>1, TokensAppend
  <2> QED BY <2>1, BudgetAssumption
<1>6. Diff!AllNumbered(Diff!FlattenSeq(chunks') \o current') \o Diff!Numbered(part')
        = Diff!AllNumbered(SubSeq(file', 1, hunk' - 1))
  BY <1>1, <1>2, <1>3, <1>4
<1>7. /\ file' \in Seq(H) /\ hunk' \in 1..(Len(file') + 1) /\ current' \in Seq(H) /\ part' \in H
      /\ chunks' \in Seq(Seq(H))
  BY <1>1, <1>2, <1>3, <1>4 DEF Diff!ChunksInv
<1>8. stage' = "packing" =>
        tokens' = Diff!Total([i \in DOMAIN current' |-> Diff!HunkTokens(current'[i])]) /\ tokens' <= Budget
  BY <1>1, <1>5 DEF Tokens
<1>9. \A i \in DOMAIN chunks' : Diff!Within(chunks'[i])
  BY <1>1, <1>2
<1> QED BY <1>1, <1>6, <1>7, <1>8, <1>9 DEF Diff!ChunksInv

\* ... as does one that fits, ...
LEMMA CollectsKeeps ==
  ASSUME Diff!ChunksInv, Diff!Collects
  PROVE  Diff!ChunksInv'
<1> DEFINE H == Diff!Hunks
           F == Diff!FlattenSeq(chunks)
           X == F \o current
           h == file[hunk]
           n == Diff!HunkTokens(h)
           full == tokens + n > Budget /\ current # <<>>
<1>1. /\ stage = "packing" /\ part.lines = <<>> /\ hunk <= Len(file) /\ n <= Budget
      /\ chunks' = IF full THEN Diff!Flushed ELSE chunks
      /\ current' = Append(IF full THEN <<>> ELSE current, h)
      /\ tokens' = n + IF full THEN 0 ELSE tokens
      /\ hunk' = hunk + 1 /\ UNCHANGED <<file, part, stage>>
  BY DEF Diff!Collects, Diff!Looks
<1>2. /\ Diff!Flushed \in Seq(Seq(H)) /\ F \in Seq(H) /\ X \in Seq(H) /\ Diff!FlattenSeq(Diff!Flushed) = X
      /\ \A i \in DOMAIN Diff!Flushed : Diff!Within(Diff!Flushed[i])
  BY <1>1, FlushedIs
<1>3. /\ h \in H /\ hunk + 1 \in 1..(Len(file) + 1)
      /\ Diff!AllNumbered(SubSeq(file, 1, (hunk + 1) - 1)) = Diff!AllNumbered(X) \o Diff!Numbered(h)
  BY <1>1, NextHunk
<1>4. /\ current \in Seq(H) /\ chunks \in Seq(Seq(H)) /\ part \in H /\ file \in Seq(H)
      /\ tokens = Tokens(current) /\ tokens <= Budget
      /\ \A i \in DOMAIN chunks : Diff!Within(chunks[i])
  BY <1>1 DEF Diff!ChunksInv, Tokens
<1>5. /\ Append(<<>>, h) \in Seq(H) /\ Append(current, h) \in Seq(H) /\ <<>> \in Seq(H)
      /\ X \o Append(<<>>, h) = Append(X, h)
      /\ F \o Append(current, h) = Append(X, h)
  <2> HIDE DEF H, F, h
  <2>1. X \o <<>> = X /\ <<>> \in Seq(H)
    BY <1>2, <1>3, <1>4, OneMore
  <2>2. Append(<<>>, h) \in Seq(H) /\ X \o Append(<<>>, h) = Append(X \o <<>>, h)
    BY <1>2, <1>3, <2>1, OneMore
  <2>3. Append(current, h) \in Seq(H) /\ F \o Append(current, h) = Append(X, h)
    BY <1>2, <1>3, <1>4, OneMore
  <2> QED BY <2>1, <2>2, <2>3
<1>6. Diff!FlattenSeq(chunks') \o current' = Append(X, h)
  BY <1>1, <1>2, <1>5
<1>7. Diff!AllNumbered(Append(X, h)) = Diff!AllNumbered(X) \o Diff!Numbered(h)
      /\ Diff!AllNumbered(X) \in Seq(NumberedLines) /\ Diff!Numbered(h) \in Seq(NumberedLines)
  BY <1>2, <1>3, AllAppend, NumberedIs
<1>8. Diff!AllNumbered(Diff!FlattenSeq(chunks') \o current') \o Diff!Numbered(part')
        = Diff!AllNumbered(SubSeq(file', 1, hunk' - 1))
  <2> DEFINE y == Diff!AllNumbered(X) \o Diff!Numbered(h)
  <2>1. Diff!Numbered(part') = <<>>
    BY <1>1, <1>4, NoLines
  <2>2. y \o <<>> = y
    <3>1. y \in Seq(NumberedLines)
      BY <1>7
    <3> HIDE DEF y
    <3> QED BY <3>1
  <2>3. Diff!AllNumbered(Diff!FlattenSeq(chunks') \o current') = y
    BY <1>6, <1>7
  <2>4. Diff!AllNumbered(SubSeq(file', 1, hunk' - 1)) = y
    BY <1>1, <1>3
  <2> HIDE DEF y
  <2> QED BY <2>1, <2>2, <2>3, <2>4
<1>9. tokens' = Tokens(current') /\ tokens' <= Budget
  <2>1. /\ Tokens(<<>>) = 0 /\ Tokens(current) \in Nat /\ n \in Nat
        /\ Tokens(Append(<<>>, h)) = Tokens(<<>>) + n
        /\ Tokens(Append(current, h)) = Tokens(current) + n
    BY <1>3, <1>4, <1>5, TokensAppend, TokensNat
  <2> HIDE DEF n, h
  <2>2. CASE full
    <3>1. tokens' = n + 0 /\ current' = Append(<<>>, h)
      BY <1>1, <2>2
    <3>2. n <= Budget /\ n + 0 = n /\ 0 + n = n
      BY <1>1, <2>1
    <3> HIDE DEF full, X, F, H
    <3>3. Tokens(Append(<<>>, h)) = n
      BY <2>1, <3>2
    <3> QED BY <3>1, <3>2, <3>3
  <2>3. CASE ~full
    <3>1. tokens' = n + tokens /\ current' = Append(current, h)
      BY <1>1, <2>3
    <3>2. tokens + n <= Budget
      <4>1. CASE current = <<>>
        BY <1>1, <1>4, <2>1, <4>1, BudgetAssumption
      <4>2. CASE current # <<>>
        BY <1>4, <2>1, <2>3, <4>2, BudgetAssumption
      <4> QED BY <4>1, <4>2
    <3> QED BY <1>4, <2>1, <3>1, <3>2
  <2> QED BY <2>2, <2>3
<1>10. /\ file' \in Seq(H) /\ hunk' \in 1..(Len(file') + 1) /\ current' \in Seq(H) /\ part' \in H
       /\ chunks' \in Seq(Seq(H))
  BY <1>1, <1>2, <1>3, <1>4, <1>5
<1>11. \A i \in DOMAIN chunks' : Diff!Within(chunks'[i])
  BY <1>1, <1>2, <1>4
<1>12. stage' = "packing" /\ part'.lines = <<>>
  BY <1>1
<1> HIDE DEF X, F, h, n, full
<1> QED BY <1>8, <1>9, <1>10, <1>11, <1>12 DEF Diff!ChunksInv, Tokens

\* ... a part that is cut off ...
LEMMA CutsSegmentKeeps ==
  ASSUME Diff!ChunksInv, Diff!CutsSegment
  PROVE  Diff!ChunksInv'
<1> DEFINE H == Diff!Hunks
           F == Diff!FlattenSeq(chunks)
           s == Diff!Segment(part.lines)
<1>1. /\ stage = "packing" /\ part.lines # <<>>
      /\ chunks' = Append(chunks, <<[part EXCEPT !.lines = s]>>)
      /\ part' = [source |-> part.source + Diff!SourceLength(s),
                  target |-> part.target + Diff!TargetLength(s),
                  lines  |-> SubSeq(part.lines, Len(s) + 1, Len(part.lines))]
      /\ UNCHANGED <<file, hunk, current, tokens, stage>>
  BY DEF Diff!CutsSegment
<1>2. /\ current = <<>> /\ chunks \in Seq(Seq(H)) /\ part \in H /\ part.lines \in Seq(Diff!Lines)
      /\ file \in Seq(H) /\ hunk \in 1..(Len(file) + 1) /\ <<>> \in Seq(H)
      /\ \A i \in DOMAIN chunks : Diff!Within(chunks[i])
      /\ tokens = Tokens(current) /\ tokens <= Budget
      /\ Diff!AllNumbered(F \o current) \o Diff!Numbered(part)
           = Diff!AllNumbered(SubSeq(file, 1, hunk - 1))
  BY <1>1 DEF Diff!ChunksInv, Diff!Hunks, Tokens
<1>3. PICK n \in 1..Len(part.lines) :
        /\ s = SubSeq(part.lines, 1, n)
        /\ n = 1 \/ Diff!Size(SubSeq(part.lines, 1, n)) <= Budget * 4
  BY <1>1, <1>2, SegmentIs
<1>4. n \in Nat /\ n <= Len(part.lines) /\ Len(part.lines) \in Nat
  <2> DEFINE L == Diff!Lines
  <2>1. part.lines \in Seq(L)
    BY <1>2
  <2> HIDE DEF L
  <2> QED BY <2>1
<1>5. Len(s) = n
  <2> DEFINE L == Diff!Lines
  <2>1. part.lines \in Seq(L)
    BY <1>2
  <2> HIDE DEF L, s
  <2> QED BY <1>3, <1>4, <2>1, Parts
<1> DEFINE first == First(part, n)
           rest == Rest(part, n)
<1>6. /\ first = [part EXCEPT !.lines = s] /\ rest = part'
      /\ first.lines = s
  <2> HIDE DEF s
  <2>1. first = [part EXCEPT !.lines = s]
    BY <1>3 DEF First
  <2>2. rest = part'
    BY <1>1, <1>3, <1>5, Lengths DEF Rest
  <2>3. first.lines = s
    BY <1>2, <2>1 DEF Diff!Hunks
  <2> QED BY <2>1, <2>2, <2>3
<1>7. /\ first \in H /\ rest \in H
      /\ Diff!Numbered(first) \o Diff!Numbered(rest) = Diff!Numbered(part)
  BY <1>2, <1>4, NumberedSplits
<1> HIDE DEF first, rest
<1>8. /\ <<first>> \in Seq(H) /\ F \in Seq(H) /\ F \o <<>> = F
      /\ Append(chunks, <<first>>) \in Seq(Seq(H))
      /\ Diff!FlattenSeq(Append(chunks, <<first>>)) = Append(F, first)
      /\ Append(F, first) \in Seq(H) /\ Append(F, first) \o <<>> = Append(F, first)
  <2> HIDE DEF H, F
  <2>1. <<first>> \in Seq(H)
    BY <1>7
  <2>2. /\ F \in Seq(H) /\ Append(chunks, <<first>>) \in Seq(Seq(H))
        /\ Diff!FlattenSeq(Append(chunks, <<first>>)) = F \o <<first>>
    BY <1>2, <2>1, DiffFlatten DEF F
  <2>3. F \o <<first>> = Append(F, first) /\ Append(F, first) \in Seq(H) /\ F \o <<>> = F
    BY <1>7, <2>2, OneMore
  <2>4. Append(F, first) \o <<>> = Append(F, first)
    BY <2>3
  <2> QED BY <2>1, <2>2, <2>3, <2>4
<1>9. /\ Diff!AllNumbered(Append(F, first)) = Diff!AllNumbered(F) \o Diff!Numbered(first)
      /\ Diff!AllNumbered(F) \in Seq(NumberedLines)
      /\ Diff!Numbered(first) \in Seq(NumberedLines) /\ Diff!Numbered(rest) \in Seq(NumberedLines)
  BY <1>7, <1>8, AllAppend, NumberedIs
<1>10. Diff!AllNumbered(Diff!FlattenSeq(chunks') \o current') \o Diff!Numbered(part')
         = Diff!AllNumbered(SubSeq(file', 1, hunk' - 1))
  <2> DEFINE a == Diff!AllNumbered(F)
             b == Diff!Numbered(first)
             c == Diff!Numbered(rest)
  <2>1. (a \o b) \o c = a \o (b \o c)
    <3>1. a \in Seq(NumberedLines) /\ b \in Seq(NumberedLines) /\ c \in Seq(NumberedLines)
      BY <1>9
    <3> HIDE DEF a, b, c
    <3> QED BY <3>1, ConcatAssociative
  <2>2. Diff!AllNumbered(Diff!FlattenSeq(chunks') \o current') = a \o b
    BY <1>1, <1>2, <1>6, <1>8, <1>9
  <2>3. a \o (b \o c) = Diff!AllNumbered(SubSeq(file', 1, hunk' - 1))
    BY <1>1, <1>2, <1>7, <1>8
  <2>4. Diff!Numbered(part') = c
    BY <1>6
  <2> HIDE DEF a, b, c
  <2> QED BY <2>1, <2>2, <2>3, <2>4
<1>11. Diff!Within(<<first>>)
  <2>1. Len(<<first>>) = 1 /\ <<first>>[1] = first
    OBVIOUS
  <2>2. Len(first.lines) = 1 \/ Diff!Size(first.lines) <= Budget * 4
    BY <1>3, <1>5, <1>6
  <2> QED BY <2>1, <2>2 DEF Diff!Within
<1>12. \A i \in DOMAIN chunks' : Diff!Within(chunks'[i])
  <2> DEFINE E == Seq(H)
             c == <<first>>
  <2>1. chunks \in Seq(E) /\ c \in E /\ chunks' = Append(chunks, c)
    BY <1>1, <1>2, <1>6, <1>8
  <2> HIDE DEF E, c
  <2>2. /\ DOMAIN chunks' = 1..(Len(chunks) + 1) /\ DOMAIN chunks = 1..Len(chunks)
        /\ Len(chunks) \in Nat
        /\ chunks'[Len(chunks) + 1] = c
        /\ \A i \in 1..Len(chunks) : chunks'[i] = chunks[i]
    BY <2>1
  <2>3. \A i \in 1..(Len(chunks) + 1) : i \in 1..Len(chunks) \/ i = Len(chunks) + 1
    BY <2>2
  <2>4. Diff!Within(c)
    BY <1>11 DEF c
  <2> QED BY <1>2, <2>2, <2>3, <2>4
<1>13. /\ file' \in Seq(H) /\ hunk' \in 1..(Len(file') + 1) /\ current' \in Seq(H) /\ part' \in H
       /\ chunks' \in Seq(Seq(H))
  BY <1>1, <1>2, <1>6, <1>7, <1>8
<1>14. stage' = "packing" /\ current' = <<>> /\ tokens' = Tokens(current') /\ tokens' <= Budget
  BY <1>1, <1>2
<1> HIDE DEF F, s
<1> QED BY <1>10, <1>12, <1>13, <1>14 DEF Diff!ChunksInv, Tokens

\* ... and the end of the file.
LEMMA PacksKeeps ==
  ASSUME Diff!ChunksInv, Diff!Packs
  PROVE  Diff!ChunksInv'
<1> DEFINE H == Diff!Hunks
           X == Diff!FlattenSeq(chunks) \o current
<1>1. /\ stage = "packing" /\ part.lines = <<>> /\ hunk > Len(file)
      /\ chunks' = Diff!Flushed /\ current' = <<>> /\ stage' = "packed"
      /\ UNCHANGED <<file, hunk, tokens, part>>
  BY DEF Diff!Packs
<1>2. /\ Diff!Flushed \in Seq(Seq(H)) /\ X \in Seq(H) /\ Diff!FlattenSeq(Diff!Flushed) = X
      /\ \A i \in DOMAIN Diff!Flushed : Diff!Within(Diff!Flushed[i])
  BY <1>1, FlushedIs
<1>3. X \o <<>> = X /\ <<>> \in Seq(H)
  <2> HIDE DEF X, H
  <2> QED BY <1>2
<1>4. /\ file \in Seq(H) /\ hunk \in 1..(Len(file) + 1) /\ part \in H
      /\ Diff!AllNumbered(X) \o Diff!Numbered(part) = Diff!AllNumbered(SubSeq(file, 1, hunk - 1))
  BY DEF Diff!ChunksInv
<1>5. hunk = Len(file) + 1
  <2>1. Len(file) \in Nat
    <3> HIDE DEF H
    <3> QED BY <1>4
  <2> QED BY <1>1, <1>4, <2>1
<1>6. Diff!AllNumbered(Diff!FlattenSeq(chunks') \o current') \o Diff!Numbered(part')
        = Diff!AllNumbered(SubSeq(file', 1, hunk' - 1))
  BY <1>1, <1>2, <1>3, <1>4
<1>7. /\ file' \in Seq(H) /\ hunk' \in 1..(Len(file') + 1) /\ current' \in Seq(H) /\ part' \in H
      /\ chunks' \in Seq(Seq(H)) /\ hunk' = Len(file') + 1 /\ part'.lines = <<>>
  BY <1>1, <1>2, <1>3, <1>4, <1>5
<1>8. \A i \in DOMAIN chunks' : Diff!Within(chunks'[i])
  BY <1>1, <1>2
<1> HIDE DEF X
<1> QED BY <1>1, <1>6, <1>7, <1>8 DEF Diff!ChunksInv

\* The invariant of the chunks holds at first ...
LEMMA ChunksStart ==
  ASSUME NEW files, files \subseteq Seq(Diff!Hunks), Diff!InitChunks(files), stage # "packed"
  PROVE  Diff!ChunksInv
<1> DEFINE H == Diff!Hunks
<1>1. /\ file \in Seq(H) /\ hunk = 1 /\ current = <<>> /\ tokens = 0 /\ part = Diff!NoPart
      /\ chunks = <<>>
  BY DEF Diff!InitChunks
<1>2. Diff!NoPart \in H /\ Diff!NoPart.lines = <<>>
  <2> DEFINE L == Diff!Lines
  <2>1. <<>> \in Seq(L)
    OBVIOUS
  <2> HIDE DEF L
  <2>2. Diff!NoPart \in [source : Nat, target : Nat, lines : Seq(L)]
    BY <2>1 DEF Diff!NoPart
  <2> QED BY <2>2 DEF Diff!NoPart, Diff!Hunks, L
<1>3. /\ <<>> \in Seq(H) /\ <<>> \in Seq(Seq(H)) /\ <<>> \o <<>> = <<>>
      /\ hunk \in 1..(Len(file) + 1) /\ SubSeq(file, 1, hunk - 1) = <<>>
  <2> HIDE DEF H
  <2>1. Len(file) \in Nat
    BY <1>1
  <2>2. \A T : <<>> \in Seq(T)
    OBVIOUS
  <2>3. SubSeq(file, 1, 0) = <<>> /\ hunk - 1 = 0
    BY <1>1
  <2>4. <<>> \o <<>> = <<>>
    BY <2>2, ConcatEmptySeq
  <2> QED BY <1>1, <2>1, <2>2, <2>3, <2>4
<1>4. Diff!FlattenSeq(<<>>) = <<>> /\ Diff!AllNumbered(<<>>) = <<>> /\ Tokens(<<>>) = 0 /\ 0 <= Budget
  <2>1. <<>> \in Seq(Diff!Hunks) /\ Diff!NoPart \in Diff!Hunks
    BY <1>2, <1>3
  <2>2. Diff!AllNumbered(<<>>) = <<>> /\ Tokens(<<>>) = 0
    BY <2>1, AllAppend, TokensAppend
  <2> QED BY <2>2, BudgetAssumption DEF Diff!FlattenSeq
<1>5. Diff!Numbered(part) = <<>>
  BY <1>1, <1>2, NoLines
<1>6. Diff!AllNumbered(Diff!FlattenSeq(chunks) \o current) \o Diff!Numbered(part)
        = Diff!AllNumbered(SubSeq(file, 1, hunk - 1))
  BY <1>1, <1>3, <1>4, <1>5
<1>7. \A i \in DOMAIN chunks : Diff!Within(chunks[i])
  BY <1>1
<1> QED BY <1>1, <1>2, <1>3, <1>4, <1>6, <1>7 DEF Diff!ChunksInv, Tokens

\* ... and while nothing is chunked.
LEMMA ChunksStay ==
  ASSUME Diff!ChunksInv, UNCHANGED chunkVars
  PROVE  Diff!ChunksInv'
<1>1. UNCHANGED <<file, hunk, current, tokens, part, chunks, stage>>
  BY DEF chunkVars
<1> QED BY <1>1 DEF Diff!ChunksInv

\* The chunks' invariant.
LEMMA ChunksInvariant == Spec => []Diff!ChunksInv
<1>1. Init => Diff!ChunksInv
  <2>1. {<<>>} \subseteq Seq(Diff!Hunks)
    OBVIOUS
  <2> QED BY <2>1, ChunksStart, FilesAssumption DEF Init, NoDiff
<1>2. Diff!ChunksInv /\ [Next]_vars => Diff!ChunksInv'
  <2> SUFFICES ASSUME Diff!ChunksInv, [Next]_vars PROVE Diff!ChunksInv'
    OBVIOUS
  <2>1. CASE UNCHANGED chunkVars
    BY <2>1, ChunksStay
  <2>2. CASE Diff!ChunkSteps
    BY <2>2, StartsCuttingKeeps, CutsSegmentKeeps, CollectsKeeps, PacksKeeps DEF Diff!ChunkSteps
  <2> QED BY <2>1, <2>2 DEF Next, vars
<1> QED BY <1>1, <1>2, PTL DEF Spec

\* However the hunks of a file are joined and cut, for any budget, the chunks hold every
\* line of them once, in order and under its numbers in both revisions, and only a chunk of
\* a single line is beyond the budget.
THEOREM ChunksWhole == Spec => []ChunksFaithful
<1>1. Diff!ChunksInv => ChunksFaithful
  <2> DEFINE H == Diff!Hunks
             x == Diff!AllNumbered(Diff!FlattenSeq(chunks))
  <2> SUFFICES ASSUME Diff!ChunksInv, stage = "packed"
               PROVE  /\ Diff!AllNumbered(Diff!FlattenSeq(chunks)) = Diff!AllNumbered(file)
                      /\ \A c \in Diff!ToSet(chunks) : Diff!Within(c)
    BY DEF ChunksFaithful, Diff!ChunksFaithful
  <2>1. /\ file \in Seq(H) /\ chunks \in Seq(Seq(H)) /\ part \in H
        /\ current = <<>> /\ part.lines = <<>> /\ hunk = Len(file) + 1
        /\ \A i \in DOMAIN chunks : Diff!Within(chunks[i])
        /\ Diff!AllNumbered(Diff!FlattenSeq(chunks) \o current) \o Diff!Numbered(part)
             = Diff!AllNumbered(SubSeq(file, 1, hunk - 1))
    BY DEF Diff!ChunksInv
  <2>2. SubSeq(file, 1, hunk - 1) = file
    <3> HIDE DEF H
    <3> QED BY <2>1
  <2>3. Diff!FlattenSeq(chunks) \in Seq(H) /\ Diff!FlattenSeq(chunks) \o current = Diff!FlattenSeq(chunks)
    <3>1. <<>> \in Seq(H)
      OBVIOUS
    <3> HIDE DEF H
    <3>2. Diff!FlattenSeq(chunks) \in Seq(H)
      BY <2>1, <3>1, DiffFlatten
    <3> QED BY <2>1, <3>2, ConcatEmptySeq
  <2>4. Diff!Numbered(part) = <<>>
    BY <2>1, NoLines
  <2>5. x \o <<>> = x
    <3>1. x \in Seq(NumberedLines)
      BY <2>1, <2>3, AllAppend
    <3> HIDE DEF x
    <3> QED BY <3>1
  <2>6. x = Diff!AllNumbered(file)
    BY <2>1, <2>2, <2>3, <2>4, <2>5
  <2>7. \A c \in Diff!ToSet(chunks) : Diff!Within(c)
    BY <2>1 DEF Diff!ToSet
  <2> QED BY <2>6, <2>7
<1> QED BY <1>1, ChunksInvariant, PTL

-----------------------------------------------------------------------------
(* The stream                                                              *)

\* One piece more of a run of pieces.
LEMMA OnePieceMore ==
  ASSUME NEW n \in Nat
  PROVE  /\ Append([k \in 1..n |-> k], n + 1) = [k \in 1..(n + 1) |-> k]
         /\ \A i : Append([k \in 1..n |-> <<i, k>>], <<i, n + 1>>)
                     = [k \in 1..(n + 1) |-> <<i, k>>]
OBVIOUS

\* The invariant of the stream holds at first.
LEMMA StreamStart ==
  ASSUME NEW answers, Stream!InitStream(answers), stream # "returned"
  PROVE  Stream!StreamInv
BY DEF Stream!InitStream, Stream!StreamInv

\* What can be parsed depends on the answer and its fragments only.
LEMMA ParsedStays ==
  ASSUME UNCHANGED <<answer, tools>>
  PROVE  Stream!Parsed' = Stream!Parsed
BY DEF Stream!Parsed

\* Every step of the stream keeps its invariant.
LEMMA StreamStep ==
  ASSUME Stream!StreamInv, Stream!StreamSteps
  PROVE  Stream!StreamInv'
<1> USE DEF Stream!StreamInv
<1>1. CASE Stream!TextPiece
  <2>1. stream = "open" /\ finish = "none" /\ stream' = stream /\ finish' = finish
    BY <1>1 DEF Stream!TextPiece
  <2>2. content' = [k \in 1..sentText' |-> k] /\ sentText' \in Nat
    BY <1>1, OnePieceMore DEF Stream!TextPiece
  <2> QED BY <1>1, <2>1, <2>2 DEF Stream!TextPiece
<1>2. ASSUME NEW i \in DOMAIN answer.tools, Stream!ToolFragment(i)
      PROVE  Stream!StreamInv'
  <2>1. /\ stream = "open" /\ finish = "none"
        /\ UNCHANGED <<answer, sentText, content, finish, stream>>
        /\ sentTool' = [sentTool EXCEPT ![i] = sentTool[i] + 1]
        /\ tools' = [tools EXCEPT ![i] = Append(tools[i], <<i, sentTool[i] + 1>>)]
    BY <1>2 DEF Stream!ToolFragment
  <2>2. sentTool' \in [DOMAIN answer.tools -> Nat]
    BY <2>1
  <2>3. Append(tools[i], <<i, sentTool[i] + 1>>) = [n \in 1..(sentTool[i] + 1) |-> <<i, n>>]
    BY OnePieceMore
  <2>4. tools' = [j \in DOMAIN answer.tools |-> [n \in 1..sentTool'[j] |-> <<j, n>>]]
    BY <2>1, <2>3
  <2> QED BY <2>1, <2>2, <2>4
<1>3. CASE Stream!LastChoice
  <2>1. /\ stream = "open" /\ UNCHANGED <<answer, sentText, sentTool, content, tools, stream>>
        /\ finish' \in {"length", "content_filter", "stop"}
        /\ finish' = "stop" => Stream!AllSent
    BY <1>3 DEF Stream!LastChoice
  <2> QED BY <2>1 DEF Stream!AllSent
<1>4. CASE Stream!UsageChunk
  BY <1>4 DEF Stream!UsageChunk, Stream!AllSent
<1>5. CASE Stream!Ends
  <2>1. /\ UNCHANGED <<answer, sentText, sentTool, content, tools, finish>>
        /\ stream' = "returned" =>
             /\ finish \notin {"none", "length"}
             /\ reply' = [text |-> content, tools |-> Stream!Parsed]
    BY <1>5 DEF Stream!Ends
  <2>2. Stream!Parsed' = Stream!Parsed
    BY <2>1, ParsedStays
  <2> QED BY <2>1, <2>2 DEF Stream!AllSent
<1>6. CASE Stream!Breaks
  <2>1. CASE stream' = "failed"
    BY <1>6, <2>1 DEF Stream!Breaks, Stream!AllSent
  <2>2. CASE stream' # "failed"
    <3>1. /\ sentText' = 0 /\ sentTool' = [i \in DOMAIN answer'.tools |-> 0]
          /\ content' = <<>> /\ tools' = [i \in DOMAIN answer'.tools |-> <<>>]
          /\ finish' = "none" /\ stream' = "open"
      BY <1>6, <2>2 DEF Stream!Breaks
    <3>2. content' = [k \in 1..sentText' |-> k]
      BY <3>1
    <3>3. \A i \in DOMAIN answer'.tools : [n \in 1..sentTool'[i] |-> <<i, n>>] = <<>>
      BY <3>1
    <3>4. tools' = [i \in DOMAIN answer'.tools |-> [n \in 1..sentTool'[i] |-> <<i, n>>]]
      BY <3>1, <3>3
    <3> QED BY <3>1, <3>2, <3>4
  <2> QED BY <2>1, <2>2
<1> QED BY <1>1, <1>2, <1>3, <1>4, <1>5, <1>6 DEF Stream!StreamSteps

\* The stream's invariant.
LEMMA StreamInvariant == Spec => []Stream!StreamInv
<1>1. Init => Stream!StreamInv
  BY StreamStart DEF Init, NoStream
<1>2. Stream!StreamInv /\ [Next]_vars => Stream!StreamInv'
  <2> SUFFICES ASSUME Stream!StreamInv, [Next]_vars PROVE Stream!StreamInv'
    OBVIOUS
  <2>1. CASE UNCHANGED streamVars
    <3>1. UNCHANGED <<answer, sentText, sentTool, content, tools, finish, stream, reply>>
      BY <2>1 DEF streamVars
    <3>2. Stream!Parsed' = Stream!Parsed /\ Stream!AllSent' = Stream!AllSent
      BY <3>1, ParsedStays DEF Stream!AllSent
    <3> QED BY <3>1, <3>2 DEF Stream!StreamInv
  <2>2. CASE Stream!StreamSteps
    BY <2>2, StreamStep
  <2> QED BY <2>1, <2>2 DEF Next, vars
<1> QED BY <1>1, <1>2, PTL DEF Spec

\* Whatever the interleaving of the fragments, wherever a stream breaks and on whichever
\* attempt it comes, what the caller is given is the whole answer.
THEOREM StreamWhole == Spec => []StreamAssembled
<1>1. Stream!StreamInv => StreamAssembled
  <2> SUFFICES ASSUME Stream!StreamInv, stream = "returned", finish # "content_filter"
               PROVE  Stream!StreamAssembled
    BY DEF StreamAssembled, Stream!StreamAssembled
  <2>1. Stream!AllSent /\ reply = [text |-> content, tools |-> Stream!Parsed]
    BY DEF Stream!StreamInv
  <2>2. sentText = answer.text /\ tools = Stream!Whole
    BY <2>1 DEF Stream!StreamInv, Stream!AllSent, Stream!Whole
  <2>3. \A i \in DOMAIN tools : Len(tools[i]) = answer.tools[i].pieces
    BY <2>1 DEF Stream!StreamInv, Stream!AllSent
  <2>4. {i \in DOMAIN tools : ~answer.tools[i].garbled
                              /\ Len(tools[i]) = answer.tools[i].pieces}
          = {i \in DOMAIN answer.tools : ~answer.tools[i].garbled}
    BY <2>3 DEF Stream!StreamInv
  <2> QED BY <2>1, <2>2, <2>4 DEF Stream!StreamInv, Stream!Parsed, Stream!StreamAssembled
<1> QED BY <1>1, StreamInvariant, PTL
=============================================================================
