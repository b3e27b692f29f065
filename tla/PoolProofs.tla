---------------------------- MODULE PoolProofs ----------------------------
(***************************************************************************)
(* The types, the bound and the results of WorkerPool, for any number of   *)
(* items and any bound; then what ScanPool, the pool over the scheduler,   *)
(* promises, from these and from the theorems of SchedulerProofs.  Nothing *)
(* here depends on fairness.                                               *)
(***************************************************************************)
EXTENDS ScanPool, FiniteSetTheorems, FunctionTheorems, TLAPS

\* What runs is waited for, and the pool never waits for more than the bound:
\* tasks are started only in the places of those that were done.  The place of the
\* task whose error raised is not given to another.
PoolInv ==
  /\ TypeOK
  /\ Running \subseteq pending
  /\ Cardinality(pending) <= MaxInFlight
  /\ pool = "raised" => Cardinality(pending) < MaxInFlight

-----------------------------------------------------------------------------
LEMMA ItemsFinite ==
  ASSUME NEW S \in SUBSET Items
  PROVE  IsFiniteSet(S) /\ Cardinality(S) \in Nat
<1>1. IsFiniteSet(Items)
  BY FS_Interval, NumItemsAssumption DEF Items
<1> QED BY <1>1, FS_Subset, FS_CardinalityType

\* The items started for n done tasks: at most n, and the next ones in order.
LEMMA StartedItems ==
  ASSUME NEW m \in 1..(NumItems + 1), NEW n \in Nat,
         NEW S, S = m..Smaller(m + n - 1, NumItems)
  PROVE  /\ S \subseteq Items
         /\ Cardinality(S) <= n
         /\ m + Cardinality(S) \in 1..(NumItems + 1)
<1>1. m \in Int /\ Smaller(m + n - 1, NumItems) \in Int
  BY NumItemsAssumption DEF Smaller
<1>2. Cardinality(S) = IF m > Smaller(m + n - 1, NumItems) THEN 0
                       ELSE Smaller(m + n - 1, NumItems) - m + 1
  BY <1>1, FS_Interval
<1> QED BY <1>1, <1>2, NumItemsAssumption DEF Smaller, Items

\* The results of the first n tasks visited are items.
LEMMA ResultsTyped ==
  ASSUME NEW s \in Seq(Items), NEW k \in Nat, NEW order \in [1..k -> Items],
         NEW n \in 0..k
  PROVE  s \o SubSeq(order, 1, n) \in Seq(Items)
<1>1. order \in Seq(Items)
  OBVIOUS
<1>2. SubSeq(order, 1, n) \in Seq(Items)
  BY <1>1
<1> QED BY <1>2

LEMMA PoolInvInit ==
  ASSUME Init
  PROVE  PoolInv
<1> DEFINE first == 1..Smaller(MaxInFlight, NumItems)
<1>1. /\ first \subseteq Items
      /\ Cardinality(first) <= MaxInFlight
      /\ Cardinality(first) + 1 \in 1..(NumItems + 1)
  <2>1. Smaller(MaxInFlight, NumItems) \in Nat
    BY NumItemsAssumption, MaxInFlightAssumption DEF Smaller
  <2>2. Cardinality(first) = Smaller(MaxInFlight, NumItems)
    BY <2>1, FS_Interval
  <2> QED BY <2>1, <2>2, NumItemsAssumption, MaxInFlightAssumption DEF Smaller, Items
<1>2. /\ task = [i \in Items |-> IF i \in first THEN "running" ELSE "none"]
      /\ next = Cardinality(first) + 1
      /\ pending = first
      /\ results = <<>>
      /\ pool \in {"running", "returned"}
  BY DEF Init
<1> HIDE DEF first
<1> QED BY <1>1, <1>2 DEF PoolInv, TypeOK, Running

LEMMA PoolInvWake ==
  ASSUME PoolInv, Wake
  PROVE  PoolInv'
<1>1. PICK order \in Orders(Done), n \in 0..Cardinality(Done) :
        LET started == next..Smaller(next + n - 1, NumItems) IN
        /\ Proceeds(order, n, started)
        /\ pending' = (pending \ Done) \cup started
        /\ pool' \in {"running", "returned", "raised"}
        /\ pool' = "raised" => n < Cardinality(Done)
  BY DEF Wake
<1> DEFINE started == next..Smaller(next + n - 1, NumItems)
<1>2. pending \subseteq Items /\ Done \subseteq pending
  BY DEF PoolInv, TypeOK, Done
<1>3. /\ IsFiniteSet(pending) /\ Cardinality(pending) \in Nat
      /\ IsFiniteSet(Done) /\ Cardinality(Done) \in Nat
  <2>1. Done \subseteq Items
    BY <1>2
  <2> QED BY <1>2, <2>1, ItemsFinite
<1>4. /\ started \subseteq Items
      /\ Cardinality(started) <= n
      /\ next + Cardinality(started) \in 1..(NumItems + 1)
  <2>1. n \in Nat /\ next \in 1..(NumItems + 1)
    BY <1>3 DEF PoolInv, TypeOK
  <2> QED BY <2>1, StartedItems
<1>5. IsFiniteSet(started) /\ Cardinality(started) \in Nat
  BY <1>4, ItemsFinite
<1>6. /\ results' = results \o SubSeq(order, 1, n)
      /\ task' = [i \in Items |-> IF i \in started THEN "running" ELSE task[i]]
      /\ next' = next + Cardinality(started)
      /\ pending' = (pending \ Done) \cup started
      /\ pool' \in {"running", "returned", "raised"}
      /\ pool' = "raised" => n < Cardinality(Done)
  BY <1>1 DEF Proceeds
<1> HIDE DEF started
<1>7. TypeOK'
  <2>1. results' \in Seq(Items)
    <3>1. order \in [1..Cardinality(Done) -> Items]
      BY <1>2 DEF Orders
    <3> QED BY <1>3, <1>6, <3>1, ResultsTyped DEF PoolInv, TypeOK
  <2> QED BY <1>2, <1>4, <1>6, <2>1 DEF PoolInv, TypeOK
<1>8. (Running \subseteq pending)'
  BY <1>2, <1>6 DEF PoolInv, Running, Done
<1>9. /\ Cardinality(pending') <= MaxInFlight
      /\ pool' = "raised" => Cardinality(pending') < MaxInFlight
  <2>1. /\ IsFiniteSet(pending \ Done)
        /\ Cardinality(pending \ Done) = Cardinality(pending) - Cardinality(Done)
    <3>1. pending \cap Done = Done
      BY <1>2
    <3> QED BY <1>3, <3>1, FS_Difference
  <2>2. Cardinality(pending') <= Cardinality(pending \ Done) + Cardinality(started)
    <3>1. Cardinality(pending') = Cardinality(pending \ Done) + Cardinality(started)
                                    - Cardinality((pending \ Done) \cap started)
      BY <1>5, <1>6, <2>1, FS_Union
    <3>2. Cardinality((pending \ Done) \cap started) \in Nat
      BY <1>4, ItemsFinite
    <3> QED BY <1>3, <1>5, <2>1, <3>1, <3>2
  <2>3. Cardinality(pending') \in Nat
    BY <1>7, ItemsFinite DEF TypeOK
  <2> QED BY <1>3, <1>4, <1>5, <1>6, <2>1, <2>2, <2>3, MaxInFlightAssumption DEF PoolInv
<1> QED BY <1>7, <1>8, <1>9 DEF PoolInv

LEMMA PoolInvStep ==
  ASSUME PoolInv, [Next]_poolVars
  PROVE  PoolInv'
<1>1. CASE Wake
  BY <1>1, PoolInvWake
<1>2. CASE \E i \in Items, outcome \in {"ok", "raised"} : TaskEnds(i, outcome)
  BY <1>2 DEF TaskEnds, PoolInv, TypeOK, Running
<1>3. CASE UNCHANGED poolVars
  BY <1>3 DEF poolVars, PoolInv, TypeOK, Running
<1> QED BY <1>1, <1>2, <1>3 DEF Next

LEMMA PoolInvariant == Spec => []PoolInv
<1>1. Init => PoolInv
  BY PoolInvInit
<1>2. PoolInv /\ [Next]_poolVars => PoolInv'
  BY PoolInvStep
<1> QED BY <1>1, <1>2, PTL DEF Spec

\* The variables of the pool keep their types; in particular next(it) never
\* passes the end of the items.
THEOREM PoolTypeCorrect == Spec => []TypeOK
<1>1. PoolInv => TypeOK
  BY DEF PoolInv
<1> QED BY <1>1, PoolInvariant, PTL

\* However many items there are and in whatever order their tasks end, never
\* more of them run than the bound allows, after a raise as well.
THEOREM ConcurrencyBounded == Spec => []BoundedConcurrency
<1>1. PoolInv => BoundedConcurrency
  <2>1. ASSUME PoolInv PROVE BoundedConcurrency
    <3>1. /\ IsFiniteSet(pending) /\ Cardinality(pending) \in Nat
          /\ Running \subseteq pending /\ Running \subseteq Items
      BY <2>1, ItemsFinite DEF PoolInv, TypeOK, Running
    <3>2. Cardinality(Running) <= Cardinality(pending) /\ Cardinality(Running) \in Nat
      BY <3>1, FS_Subset, ItemsFinite
    <3> QED BY <2>1, <3>1, <3>2, MaxInFlightAssumption DEF PoolInv, BoundedConcurrency
  <2> QED BY <2>1
<1> QED BY <1>1, PoolInvariant, PTL

-----------------------------------------------------------------------------
(* The results.                                                            *)

Collected(i) == \E j \in DOMAIN results : results[j] = i

\* Every item the iterator has yielded is waited for or has its result, once; the
\* items after it are untouched.  A raise gives this up, which the pool then tells.
ResultInv ==
  /\ \A j, k \in DOMAIN results : j # k => results[j] # results[k]
  /\ \A j \in DOMAIN results : task[results[j]] = "ok" /\ results[j] \notin pending
  /\ \A i \in Items : i >= next => task[i] = "none"
  /\ \A i \in pending : task[i] # "none"
  /\ pool # "raised" => \A i \in Items : i < next => i \in pending \/ Collected(i)
  /\ pool = "returned" => pending = {} /\ next = NumItems + 1

\* A visit of all done tasks meets each of them.
LEMMA OrderMeetsAll ==
  ASSUME NEW S \in SUBSET Items, NEW order \in Orders(S)
  PROVE  /\ order \in [1..Cardinality(S) -> S]
         /\ \A i, j \in 1..Cardinality(S) : i # j => order[i] # order[j]
         /\ \A x \in S : \E k \in 1..Cardinality(S) : order[k] = x
<1>1. /\ order \in [1..Cardinality(S) -> S]
      /\ \A i, j \in 1..Cardinality(S) : i # j => order[i] # order[j]
  BY DEF Orders
<1>2. order \in Injection(1..Cardinality(S), S)
  BY <1>1, Fun_IsInj
<1>3. IsFiniteSet(S) /\ Cardinality(S) \in Nat
  BY ItemsFinite
<1>4. Cardinality(1..Cardinality(S)) = Cardinality(S)
  BY <1>3, FS_Interval
<1>5. order \in Surjection(1..Cardinality(S), S)
  BY <1>2, <1>3, <1>4, FS_Injection
<1> QED BY <1>1, <1>5 DEF Surjection

LEMMA ResultInvInit ==
  ASSUME Init
  PROVE  ResultInv
<1> DEFINE n == Smaller(MaxInFlight, NumItems)
<1>1. n \in Nat /\ n <= NumItems /\ (n = 0 => NumItems = 0)
  BY NumItemsAssumption, MaxInFlightAssumption DEF Smaller
<1>2. Cardinality(1..n) = n
  BY <1>1, FS_Interval
<1>3. /\ task = [i \in Items |-> IF i \in 1..n THEN "running" ELSE "none"]
      /\ next = n + 1
      /\ pending = 1..n
      /\ results = <<>>
      /\ pool = IF NumItems = 0 THEN "returned" ELSE "running"
  BY <1>2 DEF Init
<1> HIDE DEF n
<1>4. DOMAIN results = {}
  BY <1>3
<1>5. \A i \in Items : i >= next => task[i] = "none"
  BY <1>1, <1>3 DEF Items
<1>6. \A i \in pending : task[i] # "none"
  BY <1>1, <1>3, NumItemsAssumption DEF Items
<1>7. \A i \in Items : i < next => i \in pending
  BY <1>1, <1>3, NumItemsAssumption DEF Items
<1>8. pool = "returned" => pending = {} /\ next = NumItems + 1
  BY <1>1, <1>3, NumItemsAssumption
<1> QED BY <1>4, <1>5, <1>6, <1>7, <1>8 DEF ResultInv

LEMMA ResultInvWake ==
  ASSUME PoolInv, ResultInv, Wake
  PROVE  ResultInv'
<1> DEFINE d == Cardinality(Done)
<1>1. PICK order \in Orders(Done), n \in 0..d :
        LET s == next..Smaller(next + n - 1, NumItems) IN
        /\ \A k \in 1..n : task[order[k]] = "ok"
        /\ Proceeds(order, n, s)
        /\ pending' = (pending \ Done) \cup s
        /\ pool' = IF n < d THEN "raised" ELSE IF pending' = {} THEN "returned" ELSE "running"
  BY DEF Wake
<1>2. Done \subseteq pending /\ Done \subseteq Items /\ Done # {} /\ pool = "running"
  BY DEF PoolInv, TypeOK, Done, Wake
<1>3. d \in Nat /\ d # 0 /\ n \in Nat
  <2>1. IsFiniteSet(Done) /\ d \in Nat
    BY <1>2, ItemsFinite
  <2> QED BY <1>2, <2>1, FS_EmptySet
<1>4. /\ order \in [1..d -> Done]
      /\ \A i, j \in 1..d : i # j => order[i] # order[j]
      /\ \A x \in Done : \E k \in 1..d : order[k] = x
  BY <1>2, OrderMeetsAll
<1> DEFINE last == Smaller(next + n - 1, NumItems)
<1> DEFINE started == next..last
<1>5. next \in 1..(NumItems + 1) /\ last \in Int /\ last <= NumItems
  BY <1>3, NumItemsAssumption DEF PoolInv, TypeOK, Smaller
<1>6. \/ started = {} /\ Cardinality(started) = 0 /\ next > last
      \/ Cardinality(started) = last - next + 1 /\ next <= last
  <2>1. next \in Int
    BY <1>5
  <2>2. Cardinality(started) = IF next > last THEN 0 ELSE last - next + 1
    BY <1>5, <2>1, FS_Interval
  <2>3. next > last => started = {}
    BY <1>5, <2>1
  <2> HIDE DEF started, last
  <2> QED BY <1>5, <2>1, <2>2, <2>3
<1>7. /\ results' = results \o SubSeq(order, 1, n)
      /\ task' = [i \in Items |-> IF i \in started THEN "running" ELSE task[i]]
      /\ next' = next + Cardinality(started)
      /\ pending' = (pending \ Done) \cup started
  BY <1>1 DEF Proceeds
<1>8. \A i \in Items : i \in started <=> next <= i /\ i < next'
  BY <1>5, <1>6, <1>7, NumItemsAssumption DEF Items
<1>9. started \subseteq Items
  BY <1>5, NumItemsAssumption DEF Items
<1>10. \A k \in 1..n : task[order[k]] = "ok" /\ k \in 1..d
  BY <1>1, <1>3
<1>11. next = NumItems + 1 \/ started # {} \/ n = 0
  <2>1. CASE n # 0 /\ next <= NumItems
    <3>1. next <= last
      BY <1>3, <1>5, <2>1, NumItemsAssumption DEF Smaller
    <3>2. next \in started
      BY <1>5, <3>1
    <3> QED BY <3>2
  <2>2. CASE next > NumItems
    BY <1>5, <2>2, NumItemsAssumption
  <2> QED BY <1>3, <1>5, <2>1, <2>2, NumItemsAssumption
<1>12. pool' = IF n < d THEN "raised" ELSE IF pending' = {} THEN "returned" ELSE "running"
  BY <1>1
<1> HIDE DEF d, last, started
<1>20. /\ Len(results) \in Nat /\ Len(results') = Len(results) + n
       /\ DOMAIN results = 1..Len(results) /\ DOMAIN results' = 1..(Len(results) + n)
       /\ \A j \in 1..Len(results) : results'[j] = results[j]
       /\ \A k \in 1..n : results'[Len(results) + k] = order[k]
  <2>1. results \in Seq(Items)
    BY DEF PoolInv, TypeOK
  <2>2. order \in Seq(Done) /\ Len(order) = d
    BY <1>3, <1>4
  <2>3. SubSeq(order, 1, n) \in Seq(Done) /\ Len(SubSeq(order, 1, n)) = n
    BY <1>3, <2>2
  <2>4. \A k \in 1..n : SubSeq(order, 1, n)[k] = order[k]
    BY <1>3, <2>2
  <2> QED BY <1>3, <1>7, <2>1, <2>3, <2>4
\* Where a result came from: kept from before, or one of the tasks visited.
<1>21. \A j \in DOMAIN results' :
         \/ j \in DOMAIN results /\ results'[j] = results[j]
         \/ \E k \in 1..n : j = Len(results) + k /\ results'[j] = order[k]
  <2> TAKE j \in DOMAIN results'
  <2>1. CASE j <= Len(results)
    BY <1>20, <2>1
  <2>2. CASE j > Len(results)
    <3>1. j - Len(results) \in 1..n /\ j = Len(results) + (j - Len(results))
      BY <1>3, <1>20, <2>2
    <3> QED BY <1>20, <3>1
  <2> QED BY <1>20, <2>1, <2>2
<1>22. \A i \in Items : Collected(i) => Collected(i)'
  BY <1>3, <1>20 DEF Collected
<1>23. \A k \in 1..n : Collected(order[k])'
  BY <1>3, <1>20 DEF Collected
<1>30. \A j, k \in DOMAIN results' : j # k => results'[j] # results'[k]
  <2>1. \A j \in DOMAIN results : results[j] \notin Done
    BY <1>2 DEF ResultInv
  <2>2. \A j \in 1..n : order[j] \in Done
    BY <1>4, <1>10
  <2>3. \A j, k \in 1..n : j # k => order[j] # order[k]
    BY <1>4, <1>10
  <2> QED BY <1>21, <2>1, <2>2, <2>3 DEF ResultInv
<1>31. \A j \in DOMAIN results' : task'[results'[j]] = "ok" /\ results'[j] \notin pending'
  <2>1. \A i \in Items : task[i] = "ok" => i \notin started /\ task'[i] = "ok"
    BY <1>7, <1>8, <1>9 DEF ResultInv
  <2>2. \A j \in DOMAIN results : results[j] \in Items
    BY DEF PoolInv, TypeOK
  <2>3. \A k \in 1..n : order[k] \in Done /\ order[k] \in Items /\ task[order[k]] = "ok"
    BY <1>2, <1>4, <1>10
  <2> TAKE j \in DOMAIN results'
  <2>4. CASE j \in DOMAIN results /\ results'[j] = results[j]
    BY <1>7, <2>1, <2>2, <2>4 DEF ResultInv
  <2>5. CASE \E k \in 1..n : results'[j] = order[k]
    BY <1>7, <2>1, <2>3, <2>5
  <2> QED BY <1>21, <2>4, <2>5
<1>32. \A i \in Items : i >= next' => task'[i] = "none"
  BY <1>5, <1>6, <1>7, <1>8 DEF ResultInv, Items
<1>33. \A i \in pending' : task'[i] # "none"
  BY <1>7, <1>9 DEF ResultInv, PoolInv, TypeOK
<1>34. pool' # "raised" => \A i \in Items : i < next' => i \in pending' \/ Collected(i)'
  <2> SUFFICES ASSUME pool' # "raised", NEW i \in Items, i < next'
               PROVE  i \in pending' \/ Collected(i)'
    OBVIOUS
  <2>1. n = d
    BY <1>3, <1>12
  <2>2. CASE i >= next
    BY <1>5, <1>7, <1>8, <2>2 DEF Items
  <2>3. CASE i < next
    <3>1. i \in pending \/ Collected(i)
      BY <1>2, <2>3 DEF ResultInv
    <3>2. CASE i \in Done
      BY <1>4, <1>23, <2>1, <3>2
    <3>3. CASE i \notin Done
      BY <1>7, <1>22, <3>1, <3>3
    <3> QED BY <3>2, <3>3
  <2> QED BY <1>5, <2>2, <2>3 DEF Items
<1>35. pool' = "returned" => pending' = {} /\ next' = NumItems + 1
  <2> SUFFICES ASSUME pool' = "returned" PROVE pending' = {} /\ next' = NumItems + 1
    OBVIOUS
  <2>1. n = d /\ pending' = {}
    BY <1>3, <1>12
  <2>2. started = {}
    BY <1>7, <2>1
  <2>3. next = NumItems + 1
    BY <1>3, <1>11, <2>1, <2>2
  <2>4. Cardinality(started) = 0
    BY <2>2, FS_EmptySet
  <2> QED BY <1>7, <2>1, <2>3, <2>4, NumItemsAssumption
<1> QED BY <1>30, <1>31, <1>32, <1>33, <1>34, <1>35 DEF ResultInv

LEMMA ResultInvEnds ==
  ASSUME PoolInv, ResultInv, NEW i \in Items, NEW outcome \in {"ok", "raised"},
         TaskEnds(i, outcome)
  PROVE  ResultInv'
<1>1. /\ task[i] = "running" /\ task' = [task EXCEPT ![i] = outcome]
      /\ UNCHANGED <<next, pending, results, pool>>
  BY DEF TaskEnds
<1>2. \A j \in DOMAIN results : results[j] # i /\ results[j] \in Items
  BY <1>1 DEF ResultInv, PoolInv, TypeOK
<1>3. \A k \in Items : k # i => task'[k] = task[k]
  BY <1>1 DEF PoolInv, TypeOK
<1>4. task'[i] # "none"
  BY <1>1 DEF PoolInv, TypeOK
<1>5. \A k \in Items : k >= next => k # i
  BY <1>1 DEF ResultInv
<1>6. pending \subseteq Items
  BY DEF PoolInv, TypeOK
<1>7. /\ \A j \in DOMAIN results : task'[results[j]] = "ok" /\ results[j] \notin pending
      /\ \A k \in Items : k >= next => task'[k] = "none"
      /\ \A k \in pending : task'[k] # "none"
  BY <1>2, <1>3, <1>4, <1>5, <1>6 DEF ResultInv
<1>8. \A k \in Items : Collected(k) <=> Collected(k)'
  BY <1>1 DEF Collected
<1> QED BY <1>1, <1>7, <1>8 DEF ResultInv

LEMMA ResultInvariant == Spec => []ResultInv
<1>1. Init => ResultInv
  BY ResultInvInit
<1>2. PoolInv /\ ResultInv /\ [Next]_poolVars => ResultInv'
  <2> SUFFICES ASSUME PoolInv, ResultInv, [Next]_poolVars PROVE ResultInv'
    OBVIOUS
  <2>1. CASE UNCHANGED poolVars
    BY <2>1 DEF poolVars, ResultInv, Collected
  <2> QED BY <2>1, ResultInvWake, ResultInvEnds DEF Next
<1> QED BY <1>1, <1>2, PoolInvariant, PTL DEF Spec

\* A sequence that holds each of 1..m once has i - 1 elements below i.
LEMMA CountBelow ==
  ASSUME NEW m \in Nat, NEW f \in [1..m -> 1..m],
         \A j, k \in 1..m : j # k => f[j] # f[k], NEW i \in 1..m
  PROVE  Cardinality({j \in 1..m : f[j] < i}) = i - 1
<1>1. IsFiniteSet(1..m) /\ Cardinality(1..m) = m
  BY FS_Interval
<1>2. f \in Injection(1..m, 1..m)
  BY Fun_IsInj
<1>3. f \in Surjection(1..m, 1..m)
  BY <1>1, <1>2, FS_Injection
<1> DEFINE below == {j \in 1..m : f[j] < i}
           g == [j \in below |-> f[j]]
<1>4. g \in [below -> 1..(i - 1)] /\ \A a, b \in below : g[a] = g[b] => a = b
  <2>1. \A j \in below : j \in 1..m /\ f[j] \in 1..(i - 1) /\ g[j] = f[j]
    OBVIOUS
  <2>2. g \in [below -> 1..(i - 1)]
    BY <2>1
  <2>3. \A a, b \in below : g[a] = g[b] => a = b
    BY <2>1
  <2> QED BY <2>2, <2>3
<1>5. \A t \in 1..(i - 1) : \E s \in below : g[s] = t
  <2> TAKE t \in 1..(i - 1)
  <2>1. t \in 1..m /\ t < i
    OBVIOUS
  <2>2. PICK s \in 1..m : f[s] = t
    BY <1>3, <2>1, Zenon DEF Surjection
  <2> QED BY <2>1, <2>2
<1>6. g \in Bijection(below, 1..(i - 1))
  BY <1>4, <1>5, Fun_IsBij
<1>7. ExistsBijection(below, 1..(i - 1))
  BY <1>6, Fun_ExistsBij
<1>8. IsFiniteSet(below)
  BY <1>1, FS_Subset
<1>9. Cardinality(1..(i - 1)) = i - 1
  BY FS_Interval
<1> HIDE DEF below
<1> QED BY <1>7, <1>8, <1>9, FS_Bijection DEF below

\* A pool that returns has run every item once, all with success, and hands the
\* results out in the order of the items, for any number of items and any order in
\* which their tasks end and are visited.
THEOREM ResultsOrdered == Spec => []ResultsInOrder
<1>1. PoolInv /\ ResultInv => ResultsInOrder
  <2> SUFFICES ASSUME PoolInv, ResultInv, pool = "returned"
               PROVE  /\ \A i \in Items : task[i] = "ok"
                      /\ Len(results) = NumItems
                      /\ Returned = [i \in Items |-> i]
    BY DEF ResultsInOrder
  <2> DEFINE m == Len(results)
  <2>1. results \in [1..m -> Items] /\ m \in Nat /\ DOMAIN results = 1..m
    BY DEF PoolInv, TypeOK
  <2>2. \A i \in Items : Collected(i)
    BY NumItemsAssumption DEF ResultInv, Items
  <2>3. \A i \in Items : task[i] = "ok"
    BY <2>2 DEF ResultInv, Collected
  <2>4. m = NumItems
    <3>1. \A a, b \in 1..m : results[a] = results[b] => a = b
      BY <2>1 DEF ResultInv
    <3>2. \A i \in Items : \E j \in 1..m : results[j] = i
      BY <2>1, <2>2 DEF Collected
    <3>3. results \in Bijection(1..m, Items)
      BY <2>1, <3>1, <3>2, Fun_IsBij
    <3>4. ExistsBijection(1..m, Items)
      BY <3>3, Fun_ExistsBij
    <3>5. Cardinality(Items) = m
      BY <2>1, <3>4, FS_CountingElements
    <3>6. Cardinality(1..NumItems) = NumItems
      BY FS_Interval, NumItemsAssumption
    <3> QED BY <3>5, <3>6 DEF Items
  <2>5. \A k \in Items :
          (CHOOSE i \in Items :
             /\ \E j \in DOMAIN results : results[j] = i
             /\ Cardinality({j \in DOMAIN results : results[j] < i}) = k - 1) = k
    <3> TAKE k \in Items
    <3>1. \A i \in Items : Cardinality({j \in DOMAIN results : results[j] < i}) = i - 1
      <4>1. results \in [1..m -> 1..m] /\ \A a, b \in 1..m : a # b => results[a] # results[b]
        BY <2>1, <2>4 DEF Items, ResultInv
      <4> QED BY <2>1, <2>4, <4>1, CountBelow DEF Items
    <3>2. \E j \in DOMAIN results : results[j] = k
      BY <2>2 DEF Collected
    <3>3. \A i \in Items : i - 1 = k - 1 => i = k
      BY DEF Items
    <3> HIDE DEF m
    <3> QED BY <3>1, <3>2, <3>3
  <2>6. Returned = [i \in Items |-> i]
    BY <2>1, <2>4, <2>5 DEF Returned, Items
  <2> QED BY <2>3, <2>4, <2>6
<1> QED BY <1>1, PoolInvariant, ResultInvariant, PTL
-----------------------------------------------------------------------------
(* The phase of a scan.                                                    *)

SchedP == INSTANCE SchedulerProofs WITH Requests <- Items, ToolCalls <- Turns

\* To the pool, the steps of a phase are its own: a wake, the end of a task, or none.
LEMMA PhaseIsPool == ScanSpec => Spec
<1>1. ScanInit => Init
  BY DEF ScanInit
<1>2. [ScanNext]_vars => [Next]_poolVars
  <2> SUFFICES ASSUME [ScanNext]_vars PROVE [Next]_poolVars
    OBVIOUS
  <2>1. ASSUME NEW i \in Items, TaskFinishes(i) \/ TaskBreaks(i) \/ TaskConcludes(i)
        PROVE  \E outcome \in {"ok", "raised"} : TaskEnds(i, outcome)
    BY <2>1 DEF TaskFinishes, Endings, TaskBreaks, TaskConcludes
  <2>2. ASSUME NEW i \in Items, TaskAsks(i) \/ TaskCalls(i)
        PROVE  UNCHANGED poolVars
    BY <2>2 DEF TaskAsks, TaskCalls
  <2>3. ASSUME PoolWakes PROVE Wake
    BY <2>3 DEF PoolWakes
  <2>4. ASSUME ScanCloses \/ SchedulerSteps \/ UNCHANGED vars
        PROVE  UNCHANGED poolVars
    BY <2>4 DEF ScanCloses, SchedulerSteps, vars
  <2> QED BY <2>1, <2>2, <2>3, <2>4 DEF ScanNext, TaskSteps, Next
<1> QED BY <1>1, <1>2, PTL DEF ScanSpec, Spec

\* SchedulerProofs speaks of the same scheduler as ScanPool.
LEMMA SameScheduler ==
  /\ Sched!Init <=> SchedP!Init
  /\ Sched!Next <=> SchedP!Next
  /\ \A e : Sched!In(sent, e) <=> SchedP!In(sent, e)
  /\ \A r : /\ Sched!Held(r) <=> SchedP!Held(r)
            /\ Sched!BehindSentinels(r) <=> SchedP!BehindSentinels(r)
<1> USE DEF Sched!callVars, SchedP!callVars, Sched!workerVars, SchedP!workerVars,
            Sched!closeVars, SchedP!closeVars, Sched!In, SchedP!In, Sched!Full, SchedP!Full
<1>1. ASSUME NEW r
      PROVE  /\ Sched!CallRefused(r) <=> SchedP!CallRefused(r)
             /\ Sched!CallStarts(r) <=> SchedP!CallStarts(r)
             /\ Sched!CancelCall(r) <=> SchedP!CancelCall(r)
             /\ Sched!CallSteps(r) <=> SchedP!CallSteps(r)
  <2>1. /\ Sched!CallRefused(r) <=> SchedP!CallRefused(r)
        /\ Sched!CallStarts(r) <=> SchedP!CallStarts(r)
    BY DEF Sched!CallRefused, SchedP!CallRefused, Sched!CallStarts, SchedP!CallStarts
  <2>2. Sched!CancelCall(r) <=> SchedP!CancelCall(r)
    BY DEF Sched!CancelCall, SchedP!CancelCall, Sched!InFlight, SchedP!InFlight
  <2>3. /\ Sched!PutDone(r) <=> SchedP!PutDone(r)
        /\ Sched!CallQuota(r) <=> SchedP!CallQuota(r)
    BY DEF Sched!PutDone, SchedP!PutDone, Sched!CallQuota, SchedP!CallQuota
  <2>4. /\ Sched!CallEnqueued(r) <=> SchedP!CallEnqueued(r)
        /\ Sched!CallSettled(r) <=> SchedP!CallSettled(r)
    BY DEF Sched!CallEnqueued, SchedP!CallEnqueued, Sched!CallSettled, SchedP!CallSettled
  <2>5. Sched!CallEnds(r) <=> SchedP!CallEnds(r)
    BY DEF Sched!CallEnds, SchedP!CallEnds, Sched!Outcome, SchedP!Outcome
  <2> QED BY <2>1, <2>2, <2>3, <2>4, <2>5 DEF Sched!CallSteps, SchedP!CallSteps
<1>2. ASSUME NEW w
      PROVE  /\ Sched!Takes(w) <=> SchedP!Takes(w)
             /\ Sched!WorkerSends(w) <=> SchedP!WorkerSends(w)
             /\ Sched!Answers(w) <=> SchedP!Answers(w)
  <2>1. /\ Sched!WorkerExits(w) <=> SchedP!WorkerExits(w)
        /\ Sched!WorkerDrops(w) <=> SchedP!WorkerDrops(w)
    BY DEF Sched!WorkerExits, SchedP!WorkerExits, Sched!WorkerDrops, SchedP!WorkerDrops
  <2>2. /\ Sched!WorkerRefuses(w) <=> SchedP!WorkerRefuses(w)
        /\ Sched!WorkerTakes(w) <=> SchedP!WorkerTakes(w)
    BY DEF Sched!WorkerRefuses, SchedP!WorkerRefuses, Sched!WorkerTakes, SchedP!WorkerTakes
  <2>3. Sched!WorkerSends(w) <=> SchedP!WorkerSends(w)
    BY DEF Sched!WorkerSends, SchedP!WorkerSends
  <2>4. \A f : Sched!ProviderAnswers(w, f) <=> SchedP!ProviderAnswers(w, f)
    BY DEF Sched!ProviderAnswers, SchedP!ProviderAnswers
  <2>5. Sched!ProviderQuota(w) <=> SchedP!ProviderQuota(w)
    BY DEF Sched!ProviderQuota, SchedP!ProviderQuota, Sched!Drained, SchedP!Drained
  <2> QED BY <2>1, <2>2, <2>3, <2>4, <2>5
          DEF Sched!Takes, SchedP!Takes, Sched!Answers, SchedP!Answers
<1>3. ASSUME NEW t
      PROVE  /\ Sched!ToolRefused(t) <=> SchedP!ToolRefused(t)
             /\ Sched!ToolStarts(t) <=> SchedP!ToolStarts(t)
             /\ Sched!CancelTool(t) <=> SchedP!CancelTool(t)
             /\ Sched!ToolSends(t) <=> SchedP!ToolSends(t)
             /\ Sched!ToolAnswers(t) <=> SchedP!ToolAnswers(t)
  <2>1. /\ Sched!ToolRefused(t) <=> SchedP!ToolRefused(t)
        /\ Sched!ToolStarts(t) <=> SchedP!ToolStarts(t)
    BY DEF Sched!ToolRefused, SchedP!ToolRefused, Sched!ToolStarts, SchedP!ToolStarts
  <2>2. Sched!CancelTool(t) <=> SchedP!CancelTool(t)
    BY DEF Sched!CancelTool, SchedP!CancelTool
  <2>3. Sched!ToolSends(t) <=> SchedP!ToolSends(t)
    BY DEF Sched!ToolSends, SchedP!ToolSends
  <2>4. \A o : Sched!ToolEnds(t, o) <=> SchedP!ToolEnds(t, o)
    BY DEF Sched!ToolEnds, SchedP!ToolEnds
  <2> QED BY <2>1, <2>2, <2>3, <2>4 DEF Sched!ToolAnswers, SchedP!ToolAnswers
<1>4. /\ Sched!CloseStarts <=> SchedP!CloseStarts
      /\ Sched!CloseSteps <=> SchedP!CloseSteps
  <2>1. Sched!Cardinality(Workers) = SchedP!Cardinality(Workers)
    BY DEF Sched!Cardinality, SchedP!Cardinality, Sched!IsFiniteSet, SchedP!IsFiniteSet
  <2> QED BY <2>1
          DEF Sched!CloseStarts, SchedP!CloseStarts, Sched!CloseSteps, SchedP!CloseSteps,
              Sched!PutSentinel, SchedP!PutSentinel, Sched!CloseEnds, SchedP!CloseEnds
<1>5. Sched!UserSteps <=> SchedP!UserSteps
  BY <1>1, <1>3, <1>4 DEF Sched!UserSteps, SchedP!UserSteps
<1>6. Sched!SystemSteps <=> SchedP!SystemSteps
  BY <1>1, <1>2, <1>3, <1>4 DEF Sched!SystemSteps, SchedP!SystemSteps
<1>7. Sched!Init <=> SchedP!Init
  BY DEF Sched!Init, SchedP!Init
<1>8. \A r : /\ Sched!Held(r) <=> SchedP!Held(r)
             /\ Sched!BehindSentinels(r) <=> SchedP!BehindSentinels(r)
  BY DEF Sched!Held, SchedP!Held, Sched!BehindSentinels, SchedP!BehindSentinels,
         Sched!Sentinels, SchedP!Sentinels
<1> QED BY <1>5, <1>6, <1>7, <1>8 DEF Sched!Next, SchedP!Next

\* To the scheduler, the steps of a phase are those of some of its users.
LEMMA PhaseStepsOfScheduler == [ScanNext]_vars => [SchedP!Next]_(SchedP!vars)
<1> SUFFICES ASSUME [ScanNext]_vars PROVE [Sched!Next]_schedVars
  BY SameScheduler DEF schedVars, SchedP!vars
<1>1. ASSUME NEW i \in Items, TaskFinishes(i) \/ TaskBreaks(i) \/ TaskConcludes(i)
      PROVE  UNCHANGED schedVars
  BY <1>1 DEF TaskFinishes, TaskBreaks, TaskConcludes
<1>2. ASSUME NEW i \in Items, TaskAsks(i) PROVE Sched!UserSteps
  <2>1. PICK k \in 1..MaxTurns : Sched!ToolRefused(<<i, k>>) \/ Sched!ToolStarts(<<i, k>>)
    BY <1>2 DEF TaskAsks
  <2>2. <<i, k>> \in Turns
    BY DEF Turns
  <2> QED BY <2>1, <2>2 DEF Sched!UserSteps
<1>3. ASSUME NEW i \in Items, TaskCalls(i) PROVE Sched!UserSteps
  BY <1>3 DEF TaskCalls, Sched!UserSteps
<1>4. ASSUME ScanCloses PROVE Sched!UserSteps
  BY <1>4 DEF ScanCloses, Sched!UserSteps
<1>5. ASSUME SchedulerSteps PROVE Sched!SystemSteps
  BY <1>5 DEF SchedulerSteps
<1>6. ASSUME PoolWakes \/ UNCHANGED vars PROVE UNCHANGED schedVars
  BY <1>6 DEF PoolWakes, vars
<1> QED BY <1>1, <1>2, <1>3, <1>4, <1>5, <1>6 DEF ScanNext, TaskSteps, Sched!Next

LEMMA PhaseIsScheduler == ScanSpec => SchedP!Spec
<1>1. ScanInit => SchedP!Init
  BY SameScheduler DEF ScanInit
<1> QED BY <1>1, PhaseStepsOfScheduler, PTL DEF ScanSpec, SchedP!Spec

\* What the scheduler promises its users, it promises the tasks of the phase.
LEMMA PhaseScheduler ==
  ScanSpec => [](SchedP!TypeOK /\ SchedP!RequestInv /\ SchedP!SentinelInv)
<1>1. QueueMax \in Nat \ {0}
  BY QueueMaxAssumption
<1>2. SchedP!IsFiniteSet(Workers) /\ Workers # {}
  BY WorkersAssumption DEF IsFiniteSet, SchedP!IsFiniteSet
<1>3. FailFast \in BOOLEAN
  BY FailFastAssumption
<1>4. Sentinel \notin Items /\ NoRequest \notin Items /\ Workers \cap Turns = {}
  BY DistinctAssumption DEF Turns
<1>5. SchedP!Spec => []SchedP!TypeOK
  BY <1>1, <1>2, <1>3, <1>4, SchedP!TypeCorrect
<1>6. SchedP!Spec => []SchedP!RequestInv
  BY <1>1, <1>2, <1>3, <1>4, SchedP!RequestsSafe
<1>7. SchedP!Spec => []SchedP!SentinelInv
  BY <1>1, <1>2, <1>3, <1>4, SchedP!SentinelsSafe
<1> QED BY <1>5, <1>6, <1>7, PhaseIsScheduler, PTL

\* What is behind the sentinels stays with no worker, whatever the phase does.
LEMMA PhaseBehind ==
  ASSUME SchedP!TypeOK, SchedP!RequestInv, SchedP!SentinelInv, [ScanNext]_vars,
         NEW i \in Items, Sched!BehindSentinels(i)
  PROVE  ~Sched!Held(i)'
<1>1. [SchedP!Next]_(SchedP!vars)
  BY PhaseStepsOfScheduler
<1>2. SchedP!IsFiniteSet(Workers) /\ Workers # {}
  BY WorkersAssumption DEF IsFiniteSet, SchedP!IsFiniteSet
<1>3. Sentinel \notin Items /\ NoRequest \notin Items /\ Workers \cap Turns = {}
  BY DistinctAssumption DEF Turns
<1>4. SchedP!PlaceInv /\ SchedP!BehindSentinels(i)
  BY SameScheduler DEF SchedP!RequestInv
<1>5. ~SchedP!Held(i)'
  BY <1>1, <1>2, <1>3, <1>4, QueueMaxAssumption, FailFastAssumption, SchedP!BehindStep
<1> QED BY <1>5 DEF Sched!Held, SchedP!Held

\* Nobody cancels a call of the phase, and one that ends for the quota in a fallback
\* mode has been to the provider itself: nobody is refused there.
CallsInv ==
  \A i \in Items :
    /\ call[i] # "cancelled"
    /\ call[i] \in Sched!InFlight => fut[i] \notin {"none", "cancelled"}
    /\ ~FailFast /\ (fut[i] = "quota" \/ call[i] = "quota") => Sched!In(sent, i)

\* The provider was asked about a chunk whose task ended well.  A task raises when its
\* call has ended or before it makes one, and for the quota in fail_fast mode only.
TasksInv ==
  /\ \A i \in Items :
       task[i] = "ok" =>
         Sched!In(sent, i) \/ \E k \in 1..MaxTurns : tpc[<<i, k>>] = "returned"
  /\ \A i \in Items :
       task[i] = "raised" =>
         /\ call[i] \in {"idle"} \cup Sched!Ended
         /\ call[i] = "quota" => FailFast

PhaseInv == CallsInv /\ TasksInv

\* What the scheduler has proved of itself, in the words of ScanPool.
LEMMA SchedulerFacts ==
  ASSUME SchedP!TypeOK, SchedP!RequestInv
  PROVE  /\ call \in [Items -> {"idle"} \cup Sched!InFlight \cup Sched!Ended]
         /\ fut \in [Items -> {"none", "pending", "result", "error", "quota", "cancelled"}]
         /\ quotaError \in BOOLEAN
         /\ wreq \in [Workers -> Items \cup {NoRequest}]
         /\ \A w \in Workers : wpc[w] = "calling" => wreq[w] \in Items /\ Sched!In(sent, wreq[w])
         /\ sent \in Seq(Items)
         /\ tpc \in [Turns -> {"idle", "rpm", "calling"} \cup Sched!Ended]
         /\ \A i \in Items : fut[i] \in {"result", "error"} => Sched!In(sent, i)
         /\ \A i \in Items : call[i] \in {"returned", "failed"} => Sched!In(sent, i)
         /\ \A i \in Items : fut[i] = "quota" \/ call[i] = "quota" => quotaError
<1>1. /\ call \in [Items -> {"idle"} \cup Sched!InFlight \cup Sched!Ended]
      /\ fut \in [Items -> {"none", "pending", "result", "error", "quota", "cancelled"}]
      /\ quotaError \in BOOLEAN
      /\ wreq \in [Workers -> Items \cup {NoRequest}]
      /\ sent \in Seq(Items)
      /\ tpc \in [Turns -> {"idle", "rpm", "calling"} \cup Sched!Ended]
      /\ \A w \in Workers : wreq[w] # NoRequest <=> wpc[w] \in {"rpm", "calling"}
  BY DEF SchedP!TypeOK, SchedP!InFlight, SchedP!Ended, Sched!InFlight, Sched!Ended
<1>2. /\ \A w \in Workers : wpc[w] = "calling" => wreq[w] \in Items /\ Sched!In(sent, wreq[w])
  BY <1>1, SameScheduler DEF SchedP!RequestInv, SchedP!PlaceInv
<1>3. /\ \A i \in Items : fut[i] \in {"result", "error"} => Sched!In(sent, i)
      /\ \A i \in Items : call[i] \in {"returned", "failed"} => Sched!In(sent, i)
      /\ \A i \in Items : fut[i] = "quota" \/ call[i] = "quota" => quotaError
  BY SameScheduler DEF SchedP!RequestInv, SchedP!CallInv, SchedP!AnswersAreReal
<1> QED BY <1>1, <1>2, <1>3

\* The steps of a phase, told apart by what they do to the scheduler.
LEMMA PhaseSteps ==
  ASSUME [ScanNext]_vars
  PROVE  \/ \E i \in Items : Sched!CallRefused(i) \/ Sched!CallStarts(i) \/ Sched!CallSteps(i)
         \/ \E w \in Workers : Sched!Takes(w) \/ Sched!WorkerSends(w) \/ Sched!Answers(w)
         \/ \E t \in Turns : \/ Sched!ToolRefused(t) \/ Sched!ToolStarts(t)
                             \/ Sched!ToolSends(t) \/ Sched!ToolAnswers(t)
         \/ Sched!CloseStarts \/ Sched!CloseSteps
         \/ UNCHANGED schedVars
<1>1. ASSUME NEW i \in Items, TaskAsks(i)
      PROVE  \E t \in Turns : Sched!ToolRefused(t) \/ Sched!ToolStarts(t)
  <2>1. PICK k \in 1..MaxTurns : Sched!ToolRefused(<<i, k>>) \/ Sched!ToolStarts(<<i, k>>)
    BY <1>1 DEF TaskAsks
  <2>2. <<i, k>> \in Turns
    BY DEF Turns
  <2> QED BY <2>1, <2>2
<1>2. ASSUME NEW i \in Items, TaskCalls(i)
      PROVE  Sched!CallRefused(i) \/ Sched!CallStarts(i)
  BY <1>2 DEF TaskCalls
<1>3. ASSUME NEW i \in Items, TaskFinishes(i) \/ TaskBreaks(i) \/ TaskConcludes(i)
      PROVE  UNCHANGED schedVars
  BY <1>3 DEF TaskFinishes, TaskBreaks, TaskConcludes
<1>4. ASSUME PoolWakes \/ UNCHANGED vars PROVE UNCHANGED schedVars
  BY <1>4 DEF PoolWakes, vars
<1>5. ASSUME ScanCloses PROVE Sched!CloseStarts
  BY <1>5 DEF ScanCloses
<1>6. ASSUME SchedulerSteps PROVE Sched!SystemSteps
  BY <1>6 DEF SchedulerSteps
<1> QED BY <1>1, <1>2, <1>3, <1>4, <1>5, <1>6 DEF ScanNext, TaskSteps, Sched!SystemSteps

\* What was sent stays sent, a turn that was answered stays answered, and the quota
\* once exhausted stays so.
LEMMA PhaseHistory ==
  ASSUME SchedP!TypeOK, SchedP!RequestInv, [ScanNext]_vars
  PROVE  /\ \A i \in Items : Sched!In(sent, i) => Sched!In(sent', i)
         /\ \A t \in Turns : tpc[t] = "returned" => tpc'[t] = "returned"
         /\ quotaError => quotaError'
<1> USE DEF Sched!callVars, Sched!workerVars, Sched!closeVars
<1>1. sent \in Seq(Items) /\ tpc \in [Turns -> {"idle", "rpm", "calling"} \cup Sched!Ended]
  BY SchedulerFacts
<1>2. CASE \E i \in Items : Sched!CallRefused(i) \/ Sched!CallStarts(i) \/ Sched!CallSteps(i)
  BY <1>2 DEF Sched!CallRefused, Sched!CallStarts, Sched!CallSteps, Sched!PutDone,
              Sched!CallQuota, Sched!CallEnqueued, Sched!CallSettled, Sched!CallEnds
<1>3. CASE \E w \in Workers : Sched!Takes(w)
  BY <1>3 DEF Sched!Takes, Sched!WorkerExits, Sched!WorkerDrops, Sched!WorkerRefuses,
              Sched!WorkerTakes
<1>4. CASE \E w \in Workers : Sched!WorkerSends(w)
  <2>1. PICK w \in Workers : Sched!WorkerSends(w)
    BY <1>4
  <2>2. sent' = Append(sent, wreq[w]) /\ UNCHANGED <<quotaError, tpc>>
    BY <2>1 DEF Sched!WorkerSends
  <2>3. \A j \in DOMAIN sent : j \in DOMAIN sent' /\ sent'[j] = sent[j]
    BY <1>1, <2>2
  <2> QED BY <2>2, <2>3 DEF Sched!In
<1>5. CASE \E w \in Workers : Sched!Answers(w)
  BY <1>5 DEF Sched!Answers, Sched!ProviderAnswers, Sched!ProviderQuota
<1>6. CASE \E t \in Turns : \/ Sched!ToolRefused(t) \/ Sched!ToolStarts(t)
                            \/ Sched!ToolSends(t) \/ Sched!ToolAnswers(t)
  BY <1>1, <1>6 DEF Sched!ToolRefused, Sched!ToolStarts, Sched!ToolSends, Sched!ToolAnswers,
                    Sched!ToolEnds
<1>7. CASE Sched!CloseStarts \/ Sched!CloseSteps
  BY <1>7 DEF Sched!CloseStarts, Sched!CloseSteps, Sched!PutSentinel, Sched!CloseEnds
<1>8. CASE UNCHANGED schedVars
  BY <1>8 DEF schedVars
<1> QED BY <1>2, <1>3, <1>4, <1>5, <1>6, <1>7, <1>8, PhaseSteps

LEMMA CallsInvStep ==
  ASSUME SchedP!TypeOK, SchedP!RequestInv, CallsInv, [ScanNext]_vars
  PROVE  CallsInv'
<1> USE DEF Sched!callVars, Sched!workerVars, Sched!closeVars, Sched!InFlight, Sched!Ended
<1>1. /\ call \in [Items -> {"idle"} \cup Sched!InFlight \cup Sched!Ended]
      /\ fut \in [Items -> {"none", "pending", "result", "error", "quota", "cancelled"}]
      /\ \A w \in Workers : wpc[w] = "calling" => wreq[w] \in Items /\ Sched!In(sent, wreq[w])
      /\ \A i \in Items : Sched!In(sent, i) => Sched!In(sent', i)
  BY SchedulerFacts, PhaseHistory
<1>2. ASSUME UNCHANGED <<call, fut>>
      PROVE  CallsInv'
  BY <1>1, <1>2 DEF CallsInv
<1>3. ASSUME NEW r \in Items,
             \/ Sched!CallRefused(r) \/ Sched!CallStarts(r)
             \/ Sched!CallQuota(r) \/ Sched!CallEnqueued(r) \/ Sched!CallSettled(r)
      PROVE  CallsInv'
  BY <1>1, <1>3 DEF CallsInv, Sched!CallRefused, Sched!CallStarts,
                    Sched!CallQuota, Sched!CallEnqueued, Sched!CallSettled
<1>4. ASSUME NEW r \in Items, Sched!CallEnds(r)
      PROVE  CallsInv'
  BY <1>1, <1>4 DEF CallsInv, Sched!CallEnds, Sched!Outcome
<1>5. ASSUME NEW w \in Workers, Sched!WorkerRefuses(w)
      PROVE  CallsInv'
  BY <1>1, <1>5 DEF CallsInv, Sched!WorkerRefuses
<1>6. ASSUME NEW w \in Workers, NEW f \in {"result", "error"}, Sched!ProviderAnswers(w, f)
      PROVE  CallsInv'
  BY <1>1, <1>6 DEF CallsInv, Sched!ProviderAnswers
<1>7. ASSUME NEW w \in Workers, Sched!ProviderQuota(w)
      PROVE  CallsInv'
  <2>1. /\ wpc[w] = "calling" /\ call' = call
        /\ \A i \in Items : \/ fut'[i] = fut[i]
                            \/ fut[i] = "pending" /\ fut'[i] = "quota" /\ (FailFast \/ i = wreq[w])
    BY <1>1, <1>7 DEF Sched!ProviderQuota, Sched!Drained
  <2> QED BY <1>1, <2>1 DEF CallsInv
<1>8. CASE \E i \in Items : Sched!PutDone(i)
  BY <1>2, <1>8 DEF Sched!PutDone
<1>9. CASE \E w \in Workers : \/ Sched!WorkerExits(w) \/ Sched!WorkerDrops(w)
                              \/ Sched!WorkerTakes(w) \/ Sched!WorkerSends(w)
  BY <1>2, <1>9 DEF Sched!WorkerExits, Sched!WorkerDrops, Sched!WorkerTakes,
                    Sched!WorkerSends
<1>10. CASE \E t \in Turns : \/ Sched!ToolRefused(t) \/ Sched!ToolStarts(t)
                             \/ Sched!ToolSends(t) \/ Sched!ToolAnswers(t)
  BY <1>2, <1>10 DEF Sched!ToolRefused, Sched!ToolStarts, Sched!ToolSends, Sched!ToolAnswers,
                     Sched!ToolEnds
<1>11. CASE Sched!CloseStarts \/ Sched!CloseSteps
  BY <1>2, <1>11 DEF Sched!CloseStarts, Sched!CloseSteps, Sched!PutSentinel, Sched!CloseEnds
<1>12. CASE UNCHANGED schedVars
  BY <1>2, <1>12 DEF schedVars
<1> QED BY <1>3, <1>4, <1>5, <1>6, <1>7, <1>8, <1>9, <1>10, <1>11, <1>12, PhaseSteps
        DEF Sched!CallSteps, Sched!Takes, Sched!Answers

\* How the tasks move: one is started, or one ends, well or not.
LEMMA TaskMoves ==
  ASSUME PoolInv, [ScanNext]_vars, NEW i \in Items
  PROVE  \/ task'[i] = task[i]
         \/ task'[i] = "running"
         \/ task'[i] = "ok" /\ call[i] \in {"returned", "failed"}
         \/ task'[i] = "ok" /\ call[i] = "quota" /\ ~FailFast
         \/ task'[i] = "ok" /\ \E k \in 1..MaxTurns : tpc[<<i, k>>] = "returned"
         \/ /\ task'[i] = "raised" /\ call[i] \in {"idle", "failed", "quota"}
            /\ call[i] = "quota" => FailFast
            /\ call' = call
<1>1. task \in [Items -> {"none", "running", "ok", "raised"}]
  BY DEF PoolInv, TypeOK
<1>2. ASSUME NEW j \in Items, TaskFinishes(j)
      PROVE  /\ i # j => task'[i] = task[i]
             /\ task'[j] \in Endings(j)
             /\ call' = call
  BY <1>1, <1>2 DEF TaskFinishes, TaskEnds, schedVars
<1>3. ASSUME NEW j \in Items, TaskConcludes(j)
      PROVE  /\ i # j => task'[i] = task[i]
             /\ task'[j] = "ok" /\ \E k \in 1..MaxTurns : tpc[<<j, k>>] = "returned"
  BY <1>1, <1>3 DEF TaskConcludes, LastAnswer, TaskEnds
<1>4. ASSUME NEW j \in Items, TaskBreaks(j)
      PROVE  /\ i # j => task'[i] = task[i]
             /\ task'[j] = "raised" /\ call[j] = "idle" /\ call' = call
  BY <1>1, <1>4 DEF TaskBreaks, TaskEnds, schedVars
<1>5. ASSUME PoolWakes PROVE task'[i] = "running" \/ task'[i] = task[i]
  BY <1>5 DEF PoolWakes, Wake, Proceeds
<1>6. ASSUME \/ \E j \in Items : TaskAsks(j) \/ TaskCalls(j)
             \/ ScanCloses \/ SchedulerSteps \/ UNCHANGED vars
      PROVE  task' = task
  BY <1>6 DEF TaskAsks, TaskCalls, ScanCloses, SchedulerSteps, vars, poolVars
<1>7. ASSUME NEW j \in Items, TaskFinishes(j)
      PROVE  \/ task'[j] = "ok" /\ call[j] \in {"returned", "failed"}
             \/ task'[j] = "ok" /\ call[j] = "quota" /\ ~FailFast
             \/ /\ task'[j] = "raised" /\ call[j] \in {"failed", "quota"}
                /\ call[j] = "quota" => FailFast
  BY <1>2, <1>7, FailFastAssumption DEF Endings
<1> QED BY <1>2, <1>3, <1>4, <1>5, <1>6, <1>7 DEF ScanNext, TaskSteps

\* A task that has raised makes no call any more.
LEMMA RaisedCallsNoMore ==
  ASSUME SchedP!TypeOK, SchedP!RequestInv, [ScanNext]_vars, NEW i \in Items,
         task[i] = "raised", call[i] \in {"idle"} \cup Sched!Ended
  PROVE  call'[i] = call[i]
<1> USE DEF Sched!callVars, Sched!workerVars, Sched!closeVars
<1>1. /\ call \in [Items -> {"idle"} \cup Sched!InFlight \cup Sched!Ended]
      /\ call[i] \notin Sched!InFlight
  BY SchedulerFacts DEF Sched!InFlight, Sched!Ended
<1>2. ASSUME NEW j \in Items, TaskCalls(j) PROVE call'[i] = call[i]
  <2>1. i # j
    BY <1>2 DEF TaskCalls
  <2> QED BY <1>1, <1>2, <2>1 DEF TaskCalls, Sched!CallRefused, Sched!CallStarts
<1>3. ASSUME NEW j \in Items, Sched!CallSteps(j) PROVE call'[i] = call[i]
  BY <1>1, <1>3 DEF Sched!CallSteps, Sched!PutDone, Sched!CallQuota, Sched!CallEnqueued,
                    Sched!CallSettled, Sched!CallEnds, Sched!InFlight
<1>4. ASSUME NEW w \in Workers, Sched!Takes(w) \/ Sched!WorkerSends(w) \/ Sched!Answers(w)
      PROVE  call' = call
  BY <1>4 DEF Sched!Takes, Sched!WorkerExits, Sched!WorkerDrops, Sched!WorkerRefuses,
              Sched!WorkerTakes, Sched!WorkerSends, Sched!Answers, Sched!ProviderAnswers,
              Sched!ProviderQuota
<1>5. ASSUME NEW t, \/ Sched!ToolRefused(t) \/ Sched!ToolStarts(t)
                    \/ Sched!ToolSends(t) \/ Sched!ToolAnswers(t)
      PROVE  call' = call
  BY <1>5 DEF Sched!ToolRefused, Sched!ToolStarts, Sched!ToolSends, Sched!ToolAnswers,
              Sched!ToolEnds
<1>6. ASSUME Sched!CloseStarts \/ Sched!CloseSteps PROVE call' = call
  BY <1>6 DEF Sched!CloseStarts, Sched!CloseSteps, Sched!PutSentinel, Sched!CloseEnds
<1>7. CASE \E j \in Items : TaskSteps(j)
  BY <1>2, <1>5, <1>7 DEF TaskSteps, TaskAsks, TaskFinishes, TaskBreaks, TaskConcludes, schedVars
<1>8. CASE SchedulerSteps
  BY <1>3, <1>4, <1>5, <1>6, <1>8 DEF SchedulerSteps, Sched!SystemSteps
<1>9. CASE PoolWakes \/ ScanCloses \/ UNCHANGED vars
  BY <1>6, <1>9 DEF PoolWakes, ScanCloses, vars, schedVars
<1> QED BY <1>7, <1>8, <1>9 DEF ScanNext

LEMMA TasksInvStep ==
  ASSUME PoolInv, SchedP!TypeOK, SchedP!RequestInv, PhaseInv, [ScanNext]_vars
  PROVE  TasksInv'
<1> DEFINE Asked(i) == Sched!In(sent, i) \/ \E k \in 1..MaxTurns : tpc[<<i, k>>] = "returned"
<1>1. \A i \in Items : Asked(i) => Asked(i)'
  <2>1. \A i \in Items : \A k \in 1..MaxTurns : <<i, k>> \in Turns
    BY DEF Turns
  <2>2. \A t \in Turns : tpc[t] = "returned" => tpc'[t] = "returned"
    BY PhaseHistory
  <2>3. \A i \in Items : Sched!In(sent, i) => Sched!In(sent', i)
    BY PhaseHistory
  <2> QED BY <2>1, <2>2, <2>3
<1>2. ASSUME NEW i \in Items, task'[i] = "ok"
      PROVE  Asked(i)'
  <2>1. CASE task[i] = "ok"
    BY <1>1, <2>1 DEF PhaseInv, TasksInv
  <2>2. CASE call[i] \in {"returned", "failed"}
    BY <1>1, <2>2, SchedulerFacts
  <2>3. CASE call[i] = "quota" /\ ~FailFast
    BY <1>1, <2>3 DEF PhaseInv, CallsInv
  <2>4. CASE \E k \in 1..MaxTurns : tpc[<<i, k>>] = "returned"
    BY <1>1, <2>4
  <2> HIDE DEF Asked
  <2> QED BY <1>2, <2>1, <2>2, <2>3, <2>4, TaskMoves
<1>3. ASSUME NEW i \in Items, task'[i] = "raised"
      PROVE  call'[i] \in {"idle"} \cup Sched!Ended /\ (call'[i] = "quota" => FailFast)
  <2>1. CASE task[i] = "raised"
    BY <2>1, RaisedCallsNoMore DEF PhaseInv, TasksInv
  <2>2. CASE task[i] # "raised"
    BY <1>3, <2>2, TaskMoves DEF Sched!Ended
  <2> QED BY <2>1, <2>2
<1> QED BY <1>2, <1>3 DEF TasksInv

LEMMA PhaseInvariant ==
  ScanSpec => [](PoolInv /\ SchedP!TypeOK /\ SchedP!RequestInv /\ SchedP!SentinelInv /\ PhaseInv)
<1>1. ScanInit => PhaseInv
  <2> SUFFICES ASSUME ScanInit PROVE PhaseInv
    OBVIOUS
  <2>1. \A i \in Items : task[i] \in {"none", "running"}
    BY DEF ScanInit, Init
  <2>2. \A i \in Items : call[i] = "idle" /\ fut[i] = "none"
    BY DEF ScanInit, Sched!Init
  <2> QED BY <2>1, <2>2 DEF PhaseInv, CallsInv, TasksInv, Sched!InFlight
<1>2. PoolInv /\ SchedP!TypeOK /\ SchedP!RequestInv /\ PhaseInv /\ [ScanNext]_vars => PhaseInv'
  BY CallsInvStep, TasksInvStep DEF PhaseInv
<1>3. ScanSpec => []PoolInv
  BY PhaseIsPool, PoolInvariant, PTL
<1> QED BY <1>1, <1>2, <1>3, PhaseScheduler, PTL DEF ScanSpec

\* The pool keeps its bound and the order of its results also when its tasks are those
\* of a phase, which wait on the scheduler and which a raise abandons.
THEOREM PhaseBounded == ScanSpec => [](BoundedConcurrency /\ ResultsInOrder)
  BY PhaseIsPool, ConcurrencyBounded, ResultsOrdered, PTL

\* A phase that returned has asked the provider about every chunk, in each quota mode:
\* no refusal, drain or dropped request passes for a result.
THEOREM PhaseSentAll == ScanSpec => []ReturnedSentAll
<1>1. PhaseInv /\ ResultsInOrder => ReturnedSentAll
  BY DEF PhaseInv, TasksInv, ResultsInOrder, ReturnedSentAll
<1> QED BY <1>1, PhaseInvariant, PhaseBounded, PTL

\* Whatever tasks a raise abandons and whatever they do: they are fewer than the bound,
\* after a quota error they are only refused, and what they put behind the sentinels of
\* close() is sent to nobody.
THEOREM AbandonedContained == ScanSpec => AbandonedAreContained
<1>1. ASSUME PoolInv, pool = "raised" PROVE Cardinality(Running) < MaxInFlight
  <2>1. /\ IsFiniteSet(pending) /\ Cardinality(pending) \in Nat
        /\ Running \subseteq pending /\ Running \subseteq Items
    BY <1>1, ItemsFinite DEF PoolInv, TypeOK, Running
  <2>2. Cardinality(Running) <= Cardinality(pending) /\ Cardinality(Running) \in Nat
    BY <2>1, FS_Subset, ItemsFinite
  <2> QED BY <1>1, <2>1, <2>2, MaxInFlightAssumption DEF PoolInv
<1>2. ASSUME SchedP!TypeOK, SchedP!RequestInv, PhaseInv, [ScanNext]_vars,
             NEW q \in Items, task[q] = "raised", call[q] = "quota"
      PROVE  /\ \A i \in Items : call[i] = "idle" => call'[i] \in {"idle", "quota"}
             /\ \A t \in Turns : tpc[t] = "idle" => tpc'[t] \in {"idle", "quota"}
  <2> USE DEF Sched!callVars, Sched!workerVars, Sched!closeVars
  <2>1. /\ FailFast /\ quotaError
        /\ call \in [Items -> {"idle"} \cup Sched!InFlight \cup Sched!Ended]
        /\ tpc \in [Turns -> {"idle", "rpm", "calling"} \cup Sched!Ended]
    BY <1>2, SchedulerFacts DEF PhaseInv, TasksInv
  <2>2. CASE \E i \in Items : Sched!CallRefused(i)
    BY <2>1, <2>2 DEF Sched!CallRefused
  <2>3. ~\E i \in Items : Sched!CallStarts(i)
    BY <2>1 DEF Sched!CallStarts
  <2>4. CASE \E i \in Items : Sched!CallSteps(i)
    BY <2>1, <2>4 DEF Sched!CallSteps, Sched!PutDone, Sched!CallQuota, Sched!CallEnqueued,
                      Sched!CallSettled, Sched!CallEnds
  <2>5. CASE \E w \in Workers : Sched!Takes(w) \/ Sched!WorkerSends(w) \/ Sched!Answers(w)
    BY <2>5 DEF Sched!Takes, Sched!WorkerExits, Sched!WorkerDrops, Sched!WorkerRefuses,
                Sched!WorkerTakes, Sched!WorkerSends, Sched!Answers, Sched!ProviderAnswers,
                Sched!ProviderQuota
  <2>6. CASE \E t \in Turns : Sched!ToolRefused(t) \/ Sched!ToolSends(t) \/ Sched!ToolAnswers(t)
    BY <2>1, <2>6 DEF Sched!ToolRefused, Sched!ToolSends, Sched!ToolAnswers, Sched!ToolEnds
  <2>7. ~\E t \in Turns : Sched!ToolStarts(t)
    BY <2>1 DEF Sched!ToolStarts
  <2>8. CASE Sched!CloseStarts \/ Sched!CloseSteps
    BY <2>8 DEF Sched!CloseStarts, Sched!CloseSteps, Sched!PutSentinel, Sched!CloseEnds
  <2>9. CASE UNCHANGED schedVars
    BY <2>9 DEF schedVars
  <2> QED BY <1>2, <2>2, <2>3, <2>4, <2>5, <2>6, <2>7, <2>8, <2>9, PhaseSteps
<1> DEFINE Contained ==
      pool = "raised" =>
       /\ Cardinality(Running) < MaxInFlight
       /\ (\E i \in Items : task[i] = "raised" /\ call[i] = "quota") =>
            /\ \A i \in Items : call[i] = "idle" => call'[i] \in {"idle", "quota"}
            /\ \A t \in Turns : tpc[t] = "idle" => tpc'[t] \in {"idle", "quota"}
       /\ \A i \in Items : Sched!BehindSentinels(i) => ~Sched!Held(i)'
<1>3. PoolInv /\ SchedP!TypeOK /\ SchedP!RequestInv /\ SchedP!SentinelInv /\ PhaseInv
        /\ [ScanNext]_vars => [Contained]_vars
  BY <1>1, <1>2, PhaseBehind
<1> QED BY <1>3, PhaseInvariant, PTL DEF ScanSpec, AbandonedAreContained
=============================================================================
