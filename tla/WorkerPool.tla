---------------------------- MODULE WorkerPool ----------------------------
(***************************************************************************)
(* run_bounded_pool (analyzers/worker_pool.py): runs worker(index, item)   *)
(* for every item with at most MaxInFlight tasks at a time and returns the *)
(* results in the order of the items.  The first task seen to have raised  *)
(* makes the pool raise; the tasks that still run are left running.        *)
(***************************************************************************)
EXTENDS Naturals, Sequences, FiniteSets

CONSTANTS NumItems, MaxInFlight

ASSUME NumItemsAssumption == NumItems \in Nat
ASSUME MaxInFlightAssumption == MaxInFlight \in Nat \ {0}

VARIABLES
  task,     \* what became of the task of each item
  next,     \* the next index that next(it) yields
  pending,  \* the tasks the pool waits for
  results,  \* the indices of the results appended so far
  pool      \* whether the pool runs, returned or raised

poolVars == <<task, next, pending, results, pool>>

Items == 1..NumItems

Smaller(a, b) == IF a <= b THEN a ELSE b

Running == {i \in Items : task[i] = "running"}

Init ==
  LET first == 1..Smaller(MaxInFlight, NumItems) IN
  /\ task = [i \in Items |-> IF i \in first THEN "running" ELSE "none"]
  /\ next = Cardinality(first) + 1
  /\ pending = first
  /\ results = <<>>
  /\ pool = IF NumItems = 0 THEN "returned" ELSE "running"

\* A task ends by itself, whether or not the pool still waits for it.
TaskEnds(i, outcome) ==
  /\ task[i] = "running"
  /\ task' = [task EXCEPT ![i] = outcome]
  /\ UNCHANGED <<next, pending, results, pool>>

Done == {i \in pending : task[i] \in {"ok", "raised"}}

\* The sequences of the elements of S, each once: the orders in which the loop
\* may visit a set of done tasks.
Orders(S) ==
  {o \in [1..Cardinality(S) -> S] : \A i, j \in DOMAIN o : i # j => o[i] # o[j]}

\* The results of the first n done tasks are kept, the items started run.
Proceeds(order, n, started) ==
  /\ results' = results \o SubSeq(order, 1, n)
  /\ task' = [i \in Items |-> IF i \in started THEN "running" ELSE task[i]]
  /\ next' = next + Cardinality(started)

\* Faulty variants of Wake: one item too many is started; a task that raised is
\* passed over.
WakeStartsExtra ==
  /\ pool = "running" /\ Done # {}
  /\ \E order \in Orders(Done) :
       LET n == Cardinality(Done)
           started == next..Smaller(next + n, NumItems) IN
       /\ Proceeds(order, n, started)
       /\ pending' = (pending \ Done) \cup started
       /\ pool' = IF pending' = {} THEN "returned" ELSE "running"

WakeSwallowsRaise ==
  LET ok == {i \in Done : task[i] = "ok"}
      started == next..Smaller(next + Cardinality(ok) - 1, NumItems) IN
  /\ pool = "running" /\ Done # {}
  /\ \E order \in Orders(ok) : Proceeds(order, Cardinality(ok), started)
  /\ pending' = (pending \ Done) \cup started
  /\ pool' = IF Len(results') = NumItems THEN "returned" ELSE "running"

\* asyncio.wait returns with every task that is done by now.  They are visited
\* in some order; the first n of them succeeded, so their results are kept and
\* as many items are started as there are left; one that raised ends the visit
\* and the pool.
Wake ==
  /\ pool = "running"
  /\ Done # {}
  /\ \E order \in Orders(Done), n \in 0..Cardinality(Done) :
       LET started == next..Smaller(next + n - 1, NumItems) IN
       /\ \A k \in 1..n : task[order[k]] = "ok"
       /\ n < Cardinality(Done) => task[order[n + 1]] = "raised"
       /\ Proceeds(order, n, started)
       /\ pending' = (pending \ Done) \cup started
       /\ pool' = IF n < Cardinality(Done) THEN "raised"
                  ELSE IF pending' = {} THEN "returned" ELSE "running"

Next == Wake \/ \E i \in Items, outcome \in {"ok", "raised"} : TaskEnds(i, outcome)

\* The event loop resumes the pool and the tasks, and every task ends.
Fairness ==
  /\ WF_poolVars(Wake)
  /\ \A i \in Items : WF_poolVars(\E o \in {"ok", "raised"} : TaskEnds(i, o))

Spec == Init /\ [][Next]_poolVars

FairSpec == Spec /\ Fairness

\* Faulty variant of Returned: the order in which the tasks ended.
Unsorted == results

\* results.sort(key=index): what the pool returns.
Returned == [k \in DOMAIN results |->
               CHOOSE i \in Items :
                 /\ \E j \in DOMAIN results : results[j] = i
                 /\ Cardinality({j \in DOMAIN results : results[j] < i}) = k - 1]

-----------------------------------------------------------------------------
TypeOK ==
  /\ task \in [Items -> {"none", "running", "ok", "raised"}]
  /\ next \in 1..(NumItems + 1)
  /\ pending \subseteq Items
  /\ results \in Seq(Items)
  /\ pool \in {"running", "returned", "raised"}

\* "Execute ... with bounded concurrency": the tasks that run never exceed the
\* bound, those the pool has abandoned included.
BoundedConcurrency == Cardinality(Running) <= MaxInFlight

\* "Returns results sorted by original index": a pool that returned has run
\* every item once, all with success, and hands the results out in the order of
\* the items whatever the order in which they ended.
ResultsInOrder ==
  pool = "returned" =>
    /\ \A i \in Items : task[i] = "ok"
    /\ Len(results) = NumItems
    /\ Returned = [i \in Items |-> i]

\* The pool comes to an end: no task that ends is forgotten, however they end.
PoolEnds == <>(pool \in {"returned", "raised"})
=============================================================================
