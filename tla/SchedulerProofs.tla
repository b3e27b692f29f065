-------------------------- MODULE SchedulerProofs --------------------------
(***************************************************************************)
(* What holds of Scheduler for every number of requests, tool calls and    *)
(* workers, every queue size and both quota modes.  Nothing here depends   *)
(* on fairness.                                                            *)
(***************************************************************************)
EXTENDS Scheduler, SequenceTheorems, FiniteSetTheorems, TLAPS

-----------------------------------------------------------------------------
(* Membership and uniqueness in a sequence.                                *)

LEMMA InEmpty == ASSUME NEW x PROVE ~In(<<>>, x)
  BY DEF In

LEMMA InAppend ==
  ASSUME NEW S, NEW s \in Seq(S), NEW e \in S, NEW x
  PROVE  In(Append(s, e), x) <=> In(s, x) \/ x = e
<1>1. DOMAIN Append(s, e) = 1..(Len(s) + 1) /\ DOMAIN s = 1..Len(s) /\ Len(s) \in Nat
  OBVIOUS
<1>2. \A i \in 1..Len(s) : Append(s, e)[i] = s[i]
  OBVIOUS
<1>3. Append(s, e)[Len(s) + 1] = e
  OBVIOUS
<1> QED BY <1>1, <1>2, <1>3 DEF In

LEMMA InTail ==
  ASSUME NEW S, NEW s \in Seq(S), s # <<>>, NEW x
  PROVE  In(s, x) <=> x = Head(s) \/ In(Tail(s), x)
<1>1. Len(s) \in Nat \ {0} /\ DOMAIN s = 1..Len(s)
  OBVIOUS
<1>2. DOMAIN Tail(s) = 1..(Len(s) - 1) /\ \A i \in 1..(Len(s) - 1) : Tail(s)[i] = s[i + 1]
  BY <1>1
<1>3. Head(s) = s[1]
  OBVIOUS
<1>4. ASSUME In(s, x) PROVE x = Head(s) \/ In(Tail(s), x)
  <2>1. PICK i \in 1..Len(s) : s[i] = x BY <1>1, <1>4 DEF In
  <2>2. CASE i = 1 BY <2>1, <2>2, <1>3
  <2>3. CASE i # 1
    <3>1. i - 1 \in 1..(Len(s) - 1) /\ (i - 1) + 1 = i BY <2>3, <1>1
    <3> QED BY <3>1, <2>1, <1>2 DEF In
  <2> QED BY <2>2, <2>3
<1>5. ASSUME In(Tail(s), x) PROVE In(s, x)
  <2>1. PICK i \in 1..(Len(s) - 1) : Tail(s)[i] = x BY <1>5, <1>2 DEF In
  <2>2. i + 1 \in 1..Len(s) BY <1>1
  <2> QED BY <2>1, <2>2, <1>1, <1>2 DEF In
<1>6. In(s, Head(s)) BY <1>1, <1>3 DEF In
<1> QED BY <1>4, <1>5, <1>6

LEMMA UniqueAppend ==
  ASSUME NEW T, NEW S, NEW s \in Seq(T), NEW e \in T, Unique(s, S), e \in S => ~In(s, e)
  PROVE  Unique(Append(s, e), S)
<1>1. DOMAIN Append(s, e) = 1..(Len(s) + 1) /\ DOMAIN s = 1..Len(s) /\ Len(s) \in Nat
  OBVIOUS
<1>2. \A i \in 1..Len(s) : Append(s, e)[i] = s[i]
  OBVIOUS
<1>3. Append(s, e)[Len(s) + 1] = e
  OBVIOUS
<1> QED BY <1>1, <1>2, <1>3 DEF Unique, In

LEMMA UniqueTail ==
  ASSUME NEW T, NEW S, NEW s \in Seq(T), s # <<>>, Unique(s, S)
  PROVE  /\ Unique(Tail(s), S)
         /\ Head(s) \in S => ~In(Tail(s), Head(s))
<1>1. Len(s) \in Nat \ {0} /\ DOMAIN s = 1..Len(s) /\ Head(s) = s[1]
  OBVIOUS
<1>2. DOMAIN Tail(s) = 1..(Len(s) - 1) /\ \A i \in 1..(Len(s) - 1) : Tail(s)[i] = s[i + 1]
  BY <1>1
<1>3. \A i \in 1..(Len(s) - 1) : i + 1 \in DOMAIN s /\ i + 1 # 1 /\ 1 \in DOMAIN s
  BY <1>1
<1>4. \A i, j \in 1..(Len(s) - 1) : i # j => i + 1 # j + 1
  OBVIOUS
<1> QED BY <1>1, <1>2, <1>3, <1>4 DEF Unique, In

\* Where x stands in s.
Places(s, x) == {i \in DOMAIN s : s[i] = x}

LEMMA PlacesAppend ==
  ASSUME NEW S, NEW s \in Seq(S), NEW e \in S, NEW x
  PROVE  /\ IsFiniteSet(Places(s, x)) /\ Cardinality(Places(s, x)) \in Nat
         /\ IsFiniteSet(Places(Append(s, e), x))
         /\ Cardinality(Places(Append(s, e), x)) =
              IF e = x THEN Cardinality(Places(s, x)) + 1 ELSE Cardinality(Places(s, x))
<1> DEFINE P == Places(s, x)
           Q == Places(Append(s, e), x)
<1>p. /\ P = {i \in DOMAIN s : s[i] = x}
      /\ Q = {i \in DOMAIN Append(s, e) : Append(s, e)[i] = x}
  BY DEF Places
<1> HIDE DEF P, Q
<1>1. /\ DOMAIN Append(s, e) = 1..(Len(s) + 1) /\ DOMAIN s = 1..Len(s) /\ Len(s) \in Nat
      /\ \A i \in 1..Len(s) : Append(s, e)[i] = s[i]
      /\ Append(s, e)[Len(s) + 1] = e
  OBVIOUS
<1>2. IsFiniteSet(P) /\ Cardinality(P) \in Nat
  <2>1. IsFiniteSet(1..Len(s)) BY <1>1, FS_Interval
  <2>2. P \subseteq 1..Len(s) BY <1>1, <1>p
  <2> QED BY <2>1, <2>2, FS_Subset, FS_CardinalityType
<1>3. CASE e = x
  <2>1. Q = P \cup {Len(s) + 1} /\ Len(s) + 1 \notin P
    BY <1>1, <1>3, <1>p
  <2> QED BY <2>1, <1>2, <1>3, FS_AddElement DEF P, Q
<1>4. CASE e # x
  <2>1. Q = P
    BY <1>1, <1>4, <1>p
  <2> QED BY <2>1, <1>2, <1>4 DEF P, Q
<1> QED BY <1>3, <1>4

LEMMA PlacesTail ==
  ASSUME NEW S, NEW s \in Seq(S), s # <<>>, NEW x
  PROVE  /\ IsFiniteSet(Places(Tail(s), x)) /\ Cardinality(Places(Tail(s), x)) \in Nat
         /\ Cardinality(Places(s, x)) =
              IF Head(s) = x THEN Cardinality(Places(Tail(s), x)) + 1
                             ELSE Cardinality(Places(Tail(s), x))
<1> DEFINE P == Places(s, x)
           Q == Places(Tail(s), x)
           R == P \ {1}
           f == [i \in Q |-> i + 1]
<1>p. /\ P = {i \in DOMAIN s : s[i] = x}
      /\ Q = {i \in DOMAIN Tail(s) : Tail(s)[i] = x}
  BY DEF Places
<1> HIDE DEF P, Q
<1>1. /\ Len(s) \in Nat \ {0} /\ DOMAIN s = 1..Len(s) /\ Head(s) = s[1]
      /\ DOMAIN Tail(s) = 1..(Len(s) - 1)
      /\ \A i \in 1..(Len(s) - 1) : Tail(s)[i] = s[i + 1]
  OBVIOUS
<1>2. IsFiniteSet(P) /\ Cardinality(P) \in Nat /\ IsFiniteSet(Q) /\ Cardinality(Q) \in Nat
  <2>1. IsFiniteSet(1..Len(s)) /\ IsFiniteSet(1..(Len(s) - 1)) BY <1>1, FS_Interval
  <2>2. P \subseteq 1..Len(s) /\ Q \subseteq 1..(Len(s) - 1) BY <1>1, <1>p
  <2> QED BY <2>1, <2>2, FS_Subset, FS_CardinalityType
<1>3. Cardinality(R) = Cardinality(Q)
  <2>1. \A i \in Q : i \in Nat /\ i + 1 \in R
    BY <1>1, <1>p
  <2>2. \A j \in R : j - 1 \in Q /\ (j - 1) + 1 = j
    BY <1>1, <1>p
  <2>3. f \in Surjection(Q, R)
    <3>1. f \in [Q -> R] BY <2>1
    <3>2. \A j \in R : \E i \in Q : f[i] = j
      <4> TAKE j \in R
      <4>1. f[j - 1] = j BY <2>2
      <4> QED BY <4>1, <2>2
    <3> QED BY <3>1, <3>2 DEF Surjection
  <2>4. f \in Injection(Q, R)
    <3>1. f \in [Q -> R] BY <2>1
    <3>2. \A i, j \in Q : f[i] = f[j] => i = j BY <2>1
    <3> QED BY <3>1, <3>2 DEF Injection, IsInjective
  <2> HIDE DEF f, R
  <2> QED BY <2>3, <2>4, <1>2, FS_Surjection
<1>4. Cardinality(R) = IF Head(s) = x THEN Cardinality(P) - 1 ELSE Cardinality(P)
  <2>1. 1 \in P <=> Head(s) = x
    BY <1>1, <1>p
  <2> QED BY <2>1, <1>2, FS_RemoveElement
<1> HIDE DEF R
<1>5. Cardinality(P) = IF Head(s) = x THEN Cardinality(Q) + 1 ELSE Cardinality(Q)
  BY <1>2, <1>3, <1>4
<1> QED BY <1>2, <1>5 DEF P, Q

-----------------------------------------------------------------------------
(* Types                                                                   *)

LEMMA WorkersCount == Cardinality(Workers) \in Nat
  BY WorkersAssumption, FS_CardinalityType

\* Every variable keeps its type; a worker holds a request exactly while it
\* waits for the limiter or for the provider.
THEOREM TypeCorrect == Spec => []TypeOK
<1> USE DEF InFlight, Ended
<1>1. Init => TypeOK
  <2> SUFFICES ASSUME Init PROVE TypeOK
    OBVIOUS
  <2>1. /\ call \in [Requests -> {"idle"} \cup InFlight \cup Ended]
        /\ fut \in [Requests -> {"none", "pending", "result", "error", "quota", "cancelled"}]
        /\ tpc \in [ToolCalls -> {"idle", "rpm", "calling"} \cup Ended]
        /\ wpc \in [Workers -> {"get", "rpm", "calling", "exited"}]
        /\ wreq \in [Workers -> Requests \cup {NoRequest}]
    BY DEF Init
  <2>2. \A w \in Workers : wreq[w] # NoRequest <=> wpc[w] \in {"rpm", "calling"}
    BY DEF Init
  <2>3. /\ queue \in Seq(Requests \cup {Sentinel})
        /\ rpmQueue \in Seq(Workers \cup ToolCalls)
        /\ accepted \in Seq(Requests)
        /\ sent \in Seq(Requests)
    BY DEF Init
  <2>4. /\ quotaError \in BOOLEAN /\ cancelReq \subseteq Requests
        /\ closer \in {"open", "putting", "joining", "closed"}
    BY DEF Init
  <2>5. lateSends \in Nat /\ toPut \in 0..Cardinality(Workers)
    BY WorkersCount DEF Init
  <2> QED BY <2>1, <2>2, <2>3, <2>4, <2>5 DEF TypeOK
<1>2. TypeOK /\ [Next]_vars => TypeOK'
  <2> SUFFICES ASSUME TypeOK, [Next]_vars PROVE TypeOK'
    OBVIOUS
  <2> USE DEF TypeOK
  <2>1. ASSUME NEW r \in Requests, CallRefused(r) PROVE TypeOK'
    BY <2>1 DEF CallRefused, workerVars, closeVars
  <2>2. ASSUME NEW r \in Requests, CallStarts(r) PROVE TypeOK'
    BY <2>2 DEF CallStarts, workerVars, closeVars
  <2>3. ASSUME NEW r \in Requests, PutDone(r) PROVE TypeOK'
    BY <2>3 DEF PutDone, workerVars, closeVars
  <2>4. ASSUME NEW r \in Requests, CallQuota(r) PROVE TypeOK'
    BY <2>4 DEF CallQuota, workerVars, closeVars
  <2>5. ASSUME NEW r \in Requests, CallEnqueued(r) \/ CallSettled(r) PROVE TypeOK'
    BY <2>5 DEF CallEnqueued, CallSettled, workerVars, closeVars
  <2>6. ASSUME NEW r \in Requests, CallEnds(r) PROVE TypeOK'
    BY <2>6 DEF CallEnds, Outcome, workerVars, closeVars
  <2>7. ASSUME NEW r \in Requests, CancelCall(r) PROVE TypeOK'
    BY <2>7 DEF CancelCall, workerVars, closeVars
  <2>8. ASSUME NEW w \in Workers, WorkerExits(w) PROVE TypeOK'
    BY <2>8 DEF WorkerExits, callVars, closeVars
  <2>9. ASSUME NEW w \in Workers, WorkerDrops(w) PROVE TypeOK'
    BY <2>9 DEF WorkerDrops, callVars, workerVars, closeVars
  <2>10. ASSUME NEW w \in Workers, WorkerRefuses(w) PROVE TypeOK'
    <3>1. Head(queue) \in Requests BY <2>10 DEF WorkerRefuses
    <3> QED BY <2>10, <3>1 DEF WorkerRefuses, workerVars, closeVars
  <2>11. ASSUME NEW w \in Workers, WorkerTakes(w) PROVE TypeOK'
    <3>1. Head(queue) \in Requests /\ Tail(queue) \in Seq(Requests \cup {Sentinel})
      BY <2>11 DEF WorkerTakes
    <3>2. Append(rpmQueue, w) \in Seq(Workers \cup ToolCalls) OBVIOUS
    <3>3. Head(queue) # NoRequest BY <3>1, DistinctAssumption
    <3> QED BY <2>11, <3>1, <3>2, <3>3 DEF WorkerTakes, callVars, closeVars
  <2>12. ASSUME NEW w \in Workers, WorkerSends(w) PROVE TypeOK'
    <3>1. wreq[w] \in Requests BY <2>12 DEF WorkerSends
    <3>2. Append(sent, wreq[w]) \in Seq(Requests) BY <3>1
    <3>3. Tail(rpmQueue) \in Seq(Workers \cup ToolCalls) BY <2>12 DEF WorkerSends
    <3> QED BY <2>12, <3>1, <3>2, <3>3 DEF WorkerSends, callVars, closeVars
  <2>13. ASSUME NEW w \in Workers, Answers(w) PROVE TypeOK'
    <3>1. CASE \E f \in {"result", "error"} : ProviderAnswers(w, f)
      BY <3>1 DEF ProviderAnswers, closeVars
    <3>2. CASE ProviderQuota(w)
      <4>1. fut' \in [Requests -> {"none", "pending", "result", "error", "quota", "cancelled"}]
        BY <3>2 DEF ProviderQuota, Drained
      <4>2. queue' \in Seq(Requests \cup {Sentinel})
        <5>1. CASE FailFast BY <5>1, <3>2 DEF ProviderQuota
        <5>2. CASE ~FailFast BY <5>2, <3>2 DEF ProviderQuota
        <5> QED BY <5>1, <5>2
      <4>3. UNCHANGED <<call, accepted, cancelReq, sent, lateSends, rpmQueue, tpc, closer, toPut>>
        BY <3>2 DEF ProviderQuota, closeVars
      <4>4. /\ wpc' = [wpc EXCEPT ![w] = "get"] /\ wreq' = [wreq EXCEPT ![w] = NoRequest]
            /\ quotaError' \in BOOLEAN
        BY <3>2 DEF ProviderQuota
      <4> QED BY <4>1, <4>2, <4>3, <4>4
    <3> QED BY <2>13, <3>1, <3>2 DEF Answers
  <2>14. ASSUME NEW t \in ToolCalls, ToolRefused(t) \/ ToolStarts(t) \/ ToolSends(t)
         PROVE  TypeOK'
    <3>1. CASE ToolRefused(t)
      BY <3>1 DEF ToolRefused, callVars, workerVars, closeVars
    <3>2. CASE ToolStarts(t)
      <4>1. Append(rpmQueue, t) \in Seq(Workers \cup ToolCalls) OBVIOUS
      <4> QED BY <3>2, <4>1 DEF ToolStarts, callVars, workerVars, closeVars
    <3>3. CASE ToolSends(t)
      <4>1. Tail(rpmQueue) \in Seq(Workers \cup ToolCalls) BY <3>3 DEF ToolSends
      <4> QED BY <3>3, <4>1 DEF ToolSends, callVars, workerVars, closeVars
    <3> QED BY <2>14, <3>1, <3>2, <3>3
  <2>15. ASSUME NEW t \in ToolCalls, ToolAnswers(t) PROVE TypeOK'
    BY <2>15 DEF ToolAnswers, ToolEnds, callVars, workerVars, closeVars
  <2>16. ASSUME NEW t \in ToolCalls, CancelTool(t) PROVE TypeOK'
    <3>1. \A i \in DOMAIN rpmQueue :
            SubSeq(rpmQueue, 1, i - 1) \o SubSeq(rpmQueue, i + 1, Len(rpmQueue))
              \in Seq(Workers \cup ToolCalls)
      OBVIOUS
    <3>2. rpmQueue' \in Seq(Workers \cup ToolCalls)
      BY <2>16, <3>1 DEF CancelTool
    <3> QED BY <2>16, <3>2 DEF CancelTool, callVars, workerVars, closeVars
  <2>17. ASSUME CloseStarts PROVE TypeOK'
    BY <2>17, WorkersCount DEF CloseStarts, callVars, workerVars
  <2>18. ASSUME PutSentinel PROVE TypeOK'
    BY <2>18, WorkersCount DEF PutSentinel, callVars, workerVars
  <2>19. ASSUME CloseEnds PROVE TypeOK'
    BY <2>19 DEF CloseEnds, callVars, workerVars
  <2>20. ASSUME UNCHANGED vars PROVE TypeOK'
    BY <2>20 DEF vars
  <2> QED BY <2>1, <2>2, <2>3, <2>4, <2>5, <2>6, <2>7, <2>8, <2>9, <2>10, <2>11, <2>12,
             <2>13, <2>14, <2>15, <2>16, <2>17, <2>18, <2>19, <2>20
          DEF Next, UserSteps, SystemSteps, CallSteps, Takes, CloseSteps
<1> QED BY <1>1, <1>2, PTL DEF Spec

-----------------------------------------------------------------------------
(* The places of a request                                                 *)

\* What PlaceInv is about is left alone by the steps of the callers, of the
\* tool calls and of close(), but for the two puts.
LEMMA PlaceStutter ==
  ASSUME PlaceInv, UNCHANGED <<queue, accepted, sent, wpc, wreq>>
  PROVE  PlaceInv'
<1>1. \A r : In(queue, r)' <=> In(queue, r)
  BY DEF In
<1>2. \A r : In(accepted, r)' <=> In(accepted, r)
  BY DEF In
<1> QED BY <1>1, <1>2 DEF PlaceInv, Held

LEMMA PlaceStep == TypeOK /\ PlaceInv /\ [Next]_vars => PlaceInv'
<1> SUFFICES ASSUME TypeOK, PlaceInv, [Next]_vars PROVE PlaceInv'
  OBVIOUS
<1>t. /\ queue \in Seq(Requests \cup {Sentinel})
      /\ accepted \in Seq(Requests) /\ sent \in Seq(Requests)
      /\ wpc \in [Workers -> {"get", "rpm", "calling", "exited"}]
      /\ wreq \in [Workers -> Requests \cup {NoRequest}]
      /\ \A w \in Workers : wreq[w] # NoRequest <=> wpc[w] \in {"rpm", "calling"}
      /\ Sentinel \notin Requests /\ NoRequest \notin Requests
  BY DistinctAssumption DEF TypeOK
<1>1. ASSUME NEW r \in Requests, PutDone(r) PROVE PlaceInv'
  <2>1. /\ queue' = Append(queue, r) /\ accepted' = Append(accepted, r)
        /\ UNCHANGED <<sent, wpc, wreq>> /\ ~In(accepted, r)
    BY <1>1 DEF PutDone, workerVars
  <2>2. \A q : In(queue', q) <=> In(queue, q) \/ q = r
    <3> DEFINE E == Requests \cup {Sentinel}
    <3>1. r \in E /\ queue \in Seq(E) BY <1>t
    <3> HIDE DEF E
    <3> QED BY <3>1, <2>1, InAppend
  <2>3. \A q : In(accepted', q) <=> In(accepted, q) \/ q = r
    BY <2>1, <1>t, InAppend
  <2>4. ~In(queue, r) /\ ~Held(r) /\ ~In(sent, r)
    BY <2>1 DEF PlaceInv
  <2>5. Unique(queue', Requests)
    BY <2>1, <2>4, <1>t, UniqueAppend DEF PlaceInv
  <2>6. \A q : In(sent', q) <=> In(sent, q)
    BY <2>1
  <2>7. \A q : Held(q)' <=> Held(q)
    BY <2>1 DEF Held
  <2> QED BY <2>1, <2>2, <2>3, <2>4, <2>5, <2>6, <2>7 DEF PlaceInv
<1>2. ASSUME PutSentinel PROVE PlaceInv'
  <2>1. queue' = Append(queue, Sentinel) /\ UNCHANGED <<accepted, sent, wpc, wreq>>
    BY <1>2 DEF PutSentinel, workerVars, callVars
  <2>2. \A q \in Requests : In(queue', q) <=> In(queue, q)
    BY <2>1, <1>t, InAppend
  <2>3. Unique(queue', Requests)
    BY <2>1, <1>t, UniqueAppend DEF PlaceInv
  <2>4. \A q : Held(q)' <=> Held(q)
    BY <2>1 DEF Held
  <2> QED BY <2>1, <2>2, <2>3, <2>4 DEF PlaceInv
<1>3. ASSUME NEW w \in Workers, WorkerExits(w) PROVE PlaceInv'
  <2>1. /\ queue # <<>> /\ queue' = Tail(queue) /\ wpc[w] = "get"
        /\ wpc' = [wpc EXCEPT ![w] = "exited"] /\ UNCHANGED <<accepted, sent, wreq>>
    BY <1>3 DEF WorkerExits, callVars
  <2>2. \A q : In(queue', q) => In(queue, q)
    BY <2>1, <1>t, InTail
  <2>3. Unique(queue', Requests)
    BY <2>1, <1>t, UniqueTail DEF PlaceInv
  <2>4. \A q : Held(q)' <=> Held(q)
    BY <2>1 DEF Held
  <2>5. \A v \in Workers : wreq[v] # NoRequest => wpc'[v] = wpc[v]
    BY <2>1, <1>t
  <2> QED BY <2>1, <2>2, <2>3, <2>4, <2>5 DEF PlaceInv
<1>4. ASSUME NEW w \in Workers, WorkerDrops(w) \/ WorkerRefuses(w) PROVE PlaceInv'
  <2>1. /\ queue # <<>> /\ queue' = Tail(queue)
        /\ UNCHANGED <<accepted, sent, wpc, wreq>>
    BY <1>4 DEF WorkerDrops, WorkerRefuses, callVars, workerVars
  <2>2. \A q : In(queue', q) => In(queue, q)
    BY <2>1, <1>t, InTail
  <2>3. Unique(queue', Requests)
    BY <2>1, <1>t, UniqueTail DEF PlaceInv
  <2>4. \A q : Held(q)' <=> Held(q)
    BY <2>1 DEF Held
  <2> QED BY <2>1, <2>2, <2>3, <2>4 DEF PlaceInv
<1>5. ASSUME NEW w \in Workers, WorkerTakes(w) PROVE PlaceInv'
  <2> DEFINE h == Head(queue)
  <2>1. /\ queue # <<>> /\ queue' = Tail(queue) /\ wpc[w] = "get" /\ h # Sentinel
        /\ wpc' = [wpc EXCEPT ![w] = "rpm"] /\ wreq' = [wreq EXCEPT ![w] = h]
        /\ UNCHANGED <<accepted, sent>>
    BY <1>5 DEF WorkerTakes, callVars
  <2>2. h \in Requests
    BY <2>1, <1>t
  <2>3. \A q : In(queue, q) <=> q = h \/ In(queue', q)
    BY <2>1, <1>t, InTail
  <2>4. Unique(queue', Requests) /\ ~In(queue', h)
    BY <2>1, <2>2, <1>t, UniqueTail DEF PlaceInv
  <2>5. In(queue, h) /\ ~Held(h) /\ ~In(sent, h) /\ In(accepted, h)
    BY <2>2, <2>3 DEF PlaceInv
  <2>6. wreq[w] = NoRequest
    BY <2>1, <1>t
  <2> HIDE DEF h
  <2>7. \A q \in Requests : Held(q)' <=> Held(q) \/ q = h
    BY <2>1, <2>2, <2>6, <1>t DEF Held
  <2>8. \A v \in Workers : v # w => wreq'[v] = wreq[v] /\ wpc'[v] = wpc[v] /\ wreq[v] # h
    BY <2>1, <2>5, <1>t DEF Held
  <2>9. wreq'[w] = h /\ wpc'[w] = "rpm"
    BY <2>1, <1>t
  <2>10. \A u, v \in Workers : wreq'[u] = wreq'[v] /\ wreq'[u] # NoRequest => u = v
    BY <2>8, <2>9 DEF PlaceInv
  <2>11. \A v \in Workers :
          wreq'[v] # NoRequest => (In(sent, wreq'[v]) <=> wpc'[v] = "calling")
    BY <2>8, <2>9, <2>5 DEF PlaceInv
  <2>12. \A q \in Requests :
           /\ In(queue', q) \/ Held(q)' \/ In(sent, q) => In(accepted, q)
           /\ In(queue', q) => ~Held(q)'
           /\ In(sent, q) => ~In(queue', q)
    BY <2>3, <2>4, <2>5, <2>7 DEF PlaceInv
  <2>13. Unique(sent, Requests) /\ sent' = sent /\ accepted' = accepted
    BY <2>1 DEF PlaceInv
  <2> QED BY <2>4, <2>10, <2>11, <2>12, <2>13 DEF PlaceInv
<1>6. ASSUME NEW w \in Workers, WorkerSends(w) PROVE PlaceInv'
  <2> DEFINE h == wreq[w]
  <2>1. /\ wpc[w] = "rpm" /\ wpc' = [wpc EXCEPT ![w] = "calling"]
        /\ sent' = Append(sent, h) /\ UNCHANGED <<queue, accepted, wreq>>
    BY <1>6 DEF WorkerSends, callVars
  <2>2. h \in Requests /\ h # NoRequest
    BY <2>1, <1>t
  <2>3. Held(h) /\ ~In(sent, h) /\ ~In(queue, h) /\ In(accepted, h)
    BY <2>1, <2>2 DEF PlaceInv, Held
  <2>4. \A q : In(sent', q) <=> In(sent, q) \/ q = h
    BY <2>1, <2>2, <1>t, InAppend
  <2>5. Unique(sent', Requests)
    BY <2>1, <2>2, <2>3, <1>t, UniqueAppend DEF PlaceInv
  <2>6. \A q : Held(q)' <=> Held(q)
    BY <2>1 DEF Held
  <2> HIDE DEF h
  <2>7. \A v \in Workers :
          wreq[v] # NoRequest => (In(sent', wreq[v]) <=> wpc'[v] = "calling")
    <3> SUFFICES ASSUME NEW v \in Workers, wreq[v] # NoRequest
                 PROVE  In(sent', wreq[v]) <=> wpc'[v] = "calling"
      OBVIOUS
    <3>1. CASE v = w BY <3>1, <2>1, <2>4, <1>t DEF h
    <3>2. CASE v # w
      <4>1. wreq[v] # h BY <3>2, <2>2 DEF h, PlaceInv
      <4>2. wpc'[v] = wpc[v] BY <3>2, <2>1, <1>t
      <4> QED BY <4>1, <4>2, <2>4 DEF PlaceInv
    <3> QED BY <3>1, <3>2
  <2>8. \A q \in Requests :
          /\ In(queue, q) \/ Held(q) \/ In(sent', q) => In(accepted, q)
          /\ In(queue, q) => ~Held(q)
          /\ In(sent', q) => ~In(queue, q)
    BY <2>3, <2>4 DEF PlaceInv
  <2>9. UNCHANGED <<queue, accepted, wreq>>
    BY <2>1
  <2> QED BY <2>5, <2>6, <2>7, <2>8, <2>9 DEF PlaceInv
<1>7. ASSUME NEW w \in Workers, Answers(w) PROVE PlaceInv'
  <2>1. /\ wpc' = [wpc EXCEPT ![w] = "get"] /\ wreq' = [wreq EXCEPT ![w] = NoRequest]
        /\ UNCHANGED <<accepted, sent>>
    BY <1>7 DEF Answers, ProviderAnswers, ProviderQuota
  <2>2. queue' = queue \/ queue' = <<>>
    BY <1>7 DEF Answers, ProviderAnswers, ProviderQuota
  <2>3. \A q : In(queue', q) => In(queue, q)
    BY <2>2, InEmpty
  <2>4. Unique(queue', Requests)
    BY <2>2 DEF PlaceInv, Unique
  <2>5. \A q \in Requests : Held(q)' => Held(q)
    BY <2>1, <1>t DEF Held
  <2>6. \A v \in Workers :
          wreq'[v] # NoRequest => v # w /\ wreq'[v] = wreq[v] /\ wpc'[v] = wpc[v]
    BY <2>1, <1>t
  <2> QED BY <2>1, <2>3, <2>4, <2>5, <2>6 DEF PlaceInv
<1>8. CASE UNCHANGED <<queue, accepted, sent, wpc, wreq>>
  BY <1>8, PlaceStutter
<1>9. ASSUME NEW r \in Requests,
             \/ CallRefused(r) \/ CallStarts(r) \/ CancelCall(r) \/ CallQuota(r)
             \/ CallEnqueued(r) \/ CallSettled(r) \/ CallEnds(r)
      PROVE  UNCHANGED <<queue, accepted, sent, wpc, wreq>>
  BY <1>9 DEF CallRefused, CallStarts, CancelCall, CallQuota, CallEnqueued, CallSettled,
              CallEnds, workerVars
<1>10. ASSUME NEW t \in ToolCalls,
              \/ ToolRefused(t) \/ ToolStarts(t) \/ CancelTool(t)
              \/ ToolSends(t) \/ ToolAnswers(t)
       PROVE  UNCHANGED <<queue, accepted, sent, wpc, wreq>>
  BY <1>10 DEF ToolRefused, ToolStarts, CancelTool, ToolSends, ToolAnswers, ToolEnds,
               callVars, workerVars
<1>11. ASSUME CloseStarts \/ CloseEnds \/ UNCHANGED vars
       PROVE  UNCHANGED <<queue, accepted, sent, wpc, wreq>>
  BY <1>11 DEF CloseStarts, CloseEnds, vars, callVars, workerVars
<1> QED BY <1>1, <1>2, <1>3, <1>4, <1>5, <1>6, <1>7, <1>8, <1>9, <1>10, <1>11
        DEF Next, UserSteps, SystemSteps, CallSteps, Takes, CloseSteps

-----------------------------------------------------------------------------
(* The calls and their futures                                             *)

\* The steps of a caller, from the call to its end or its cancellation.
LEMMA CallerStep ==
  ASSUME TypeOK, PlaceInv, CallInv, NEW r \in Requests,
         \/ CallRefused(r) \/ CallStarts(r) \/ CancelCall(r) \/ CallQuota(r)
         \/ CallEnqueued(r) \/ CallSettled(r) \/ CallEnds(r)
  PROVE  CallInv'
<1> USE DEF InFlight, Ended
<1>t. /\ call \in [Requests -> {"idle"} \cup InFlight \cup Ended]
      /\ fut \in [Requests -> {"none", "pending", "result", "error", "quota", "cancelled"}]
  BY DEF TypeOK
<1>1. UNCHANGED <<accepted, sent, queue, wreq, quotaError>>
  BY DEF CallRefused, CallStarts, CancelCall, CallQuota, CallEnqueued, CallSettled,
         CallEnds, workerVars
<1>2. \A q \in Requests : q # r => call'[q] = call[q] /\ fut'[q] = fut[q]
  BY <1>t DEF CallRefused, CallStarts, CancelCall, CallQuota, CallEnqueued, CallSettled,
              CallEnds
<1>3. call'[r] # "idle"
  BY <1>t DEF CallRefused, CallStarts, CancelCall, CallQuota, CallEnqueued, CallSettled,
              CallEnds, Outcome
<1>4. fut'[r] = "pending" => call'[r] \in InFlight
  BY <1>t DEF CallRefused, CallStarts, CancelCall, CallQuota, CallEnqueued, CallSettled,
              CallEnds, CallInv, NoOrphanFuture
<1>5. call'[r] \in {"settling", "waiting"} => In(accepted, r)
  BY <1>t DEF CallRefused, CallStarts, CancelCall, CallQuota, CallEnqueued, CallSettled,
              CallEnds, CallInv, Outcome
<1>6. In(accepted, r) /\ fut'[r] = "pending" => In(queue, r) \/ Held(r)
  <2>1. CASE fut[r] = "pending"
    BY <2>1 DEF CallInv, NoLostRequest
  <2>2. CASE fut[r] # "pending" /\ fut'[r] = "pending"
    <3>1. call[r] = "idle"
      BY <2>2, <1>t DEF CallRefused, CallStarts, CancelCall, CallQuota, CallEnqueued,
                        CallSettled, CallEnds
    <3> QED BY <3>1 DEF CallInv
  <2> QED BY <2>1, <2>2
<1>7. /\ fut'[r] \in {"result", "error"} => fut[r] = fut'[r]
      /\ fut'[r] = "quota" => fut[r] = "quota"
      /\ call'[r] \in {"returned", "failed"} => fut[r] \in {"result", "error"}
      /\ call'[r] = "quota" => quotaError \/ fut[r] = "quota"
  BY <1>t DEF CallRefused, CallStarts, CancelCall, CallQuota, CallEnqueued, CallSettled,
              CallEnds, Outcome
<1>8. /\ fut'[r] \in {"result", "error"} => In(sent, r)
      /\ call'[r] \in {"returned", "failed"} => In(sent, r)
      /\ fut'[r] = "quota" \/ call'[r] = "quota" => quotaError
  BY <1>7 DEF CallInv, AnswersAreReal
<1>9. NoOrphanFuture'
  BY <1>2, <1>4 DEF CallInv, NoOrphanFuture
<1>10. NoLostRequest'
  BY <1>1, <1>2, <1>6 DEF CallInv, NoLostRequest, Held
<1>11. AnswersAreReal'
  BY <1>1, <1>2, <1>8 DEF CallInv, AnswersAreReal
<1>12. \A q \in Requests :
         /\ call'[q] \in {"settling", "waiting"} => In(accepted, q)
         /\ In(accepted, q) => call'[q] # "idle"
  BY <1>2, <1>3, <1>5 DEF CallInv
<1> QED BY <1>1, <1>9, <1>10, <1>11, <1>12 DEF CallInv

\* A step of a worker that answers some pending futures and gives up no other
\* request.
LEMMA WorkerStep ==
  ASSUME CallInv, UNCHANGED <<call, accepted>>,
         quotaError => quotaError',
         \A q \in Requests : In(sent, q) => In(sent', q),
         \A q \in Requests :
           \/ /\ fut'[q] = fut[q]
              /\ fut[q] = "pending" => (In(queue, q) \/ Held(q) => In(queue', q) \/ Held(q)')
           \/ fut'[q] = "quota" /\ quotaError'
           \/ fut'[q] \in {"result", "error"} /\ In(sent', q)
  PROVE  CallInv'
<1>1. NoOrphanFuture'
  BY DEF CallInv, NoOrphanFuture
<1>2. NoLostRequest'
  BY DEF CallInv, NoLostRequest
<1>3. AnswersAreReal'
  BY DEF CallInv, AnswersAreReal
<1> QED BY <1>1, <1>2, <1>3 DEF CallInv

LEMMA CallStep == TypeOK /\ PlaceInv /\ CallInv /\ [Next]_vars => CallInv'
<1> SUFFICES ASSUME TypeOK, PlaceInv, CallInv, [Next]_vars PROVE CallInv'
  OBVIOUS
<1>t. /\ queue \in Seq(Requests \cup {Sentinel})
      /\ accepted \in Seq(Requests) /\ sent \in Seq(Requests)
      /\ fut \in [Requests -> {"none", "pending", "result", "error", "quota", "cancelled"}]
      /\ wpc \in [Workers -> {"get", "rpm", "calling", "exited"}]
      /\ wreq \in [Workers -> Requests \cup {NoRequest}]
      /\ \A w \in Workers : wreq[w] # NoRequest <=> wpc[w] \in {"rpm", "calling"}
      /\ Sentinel \notin Requests /\ NoRequest \notin Requests
  BY DistinctAssumption DEF TypeOK
<1>1. ASSUME NEW r \in Requests, PutDone(r) PROVE CallInv'
  <2>1. /\ queue' = Append(queue, r) /\ accepted' = Append(accepted, r)
        /\ UNCHANGED <<call, fut, sent, wreq, quotaError>> /\ call[r] = "putting"
    BY <1>1 DEF PutDone, workerVars
  <2>2. \A q \in Requests : In(queue', q) <=> In(queue, q) \/ q = r
    <3> DEFINE E == Requests \cup {Sentinel}
    <3>1. r \in E /\ queue \in Seq(E) BY <1>t
    <3> HIDE DEF E
    <3> QED BY <3>1, <2>1, InAppend
  <2>3. \A q : In(accepted', q) <=> In(accepted, q) \/ q = r
    BY <2>1, <1>t, InAppend
  <2>4. NoOrphanFuture' /\ AnswersAreReal'
    BY <2>1 DEF CallInv, NoOrphanFuture, AnswersAreReal
  <2>5. NoLostRequest'
    BY <2>1, <2>2, <2>3 DEF CallInv, NoLostRequest, Held
  <2>6. \A q \in Requests :
          /\ call'[q] \in {"settling", "waiting"} => In(accepted', q)
          /\ In(accepted', q) => call'[q] # "idle"
    BY <2>1, <2>3 DEF CallInv
  <2> QED BY <2>4, <2>5, <2>6 DEF CallInv
<1>2. ASSUME PutSentinel PROVE CallInv'
  <2>1. /\ queue' = Append(queue, Sentinel)
        /\ UNCHANGED <<call, fut, accepted, sent, wreq, quotaError>>
    BY <1>2 DEF PutSentinel, callVars, workerVars
  <2>2. \A q \in Requests : In(queue', q) <=> In(queue, q)
    BY <2>1, <1>t, InAppend
  <2>3. \A q : Held(q)' <=> Held(q)
    BY <2>1 DEF Held
  <2> QED BY <2>1, <2>2, <2>3, WorkerStep
<1>3. ASSUME NEW w \in Workers, Takes(w) PROVE CallInv'
  <2> DEFINE h == Head(queue)
  <2>1. /\ queue # <<>> /\ queue' = Tail(queue)
        /\ UNCHANGED <<call, accepted, sent, quotaError>>
    BY <1>3 DEF Takes, WorkerExits, WorkerDrops, WorkerRefuses, WorkerTakes, callVars,
                workerVars
  <2>2. \A q \in Requests : In(queue, q) <=> q = h \/ In(queue', q)
    BY <2>1, <1>t, InTail
  <2>3. CASE WorkerExits(w) \/ WorkerDrops(w)
    <3>1. UNCHANGED <<fut, wreq>>
      BY <2>3 DEF WorkerExits, WorkerDrops, callVars, workerVars
    <3>2. h \in Requests => fut[h] = "cancelled"
      BY <2>3, <1>t DEF WorkerExits, WorkerDrops
    <3>3. \A q : Held(q)' <=> Held(q)
      BY <3>1 DEF Held
    <3> HIDE DEF h
    <3> QED BY <2>1, <2>2, <3>1, <3>2, <3>3, WorkerStep
  <2>4. CASE WorkerRefuses(w)
    <3>1. fut' = [fut EXCEPT ![h] = IF @ = "pending" THEN "quota" ELSE @]
      BY <2>4 DEF WorkerRefuses
    <3>2. UNCHANGED wreq /\ quotaError'
      BY <2>4 DEF WorkerRefuses, workerVars
    <3>3. \A q : Held(q)' <=> Held(q)
      BY <3>2 DEF Held
    <3> HIDE DEF h
    <3>4. \A q \in Requests :
            /\ q # h => fut'[q] = fut[q]
            /\ q = h => fut'[q] = "quota" \/ (fut'[q] = fut[q] /\ fut[q] # "pending")
      BY <3>1, <1>t
    <3> QED BY <2>1, <2>2, <3>2, <3>3, <3>4, WorkerStep
  <2>5. CASE WorkerTakes(w)
    <3>1. UNCHANGED fut /\ wreq' = [wreq EXCEPT ![w] = h] /\ wpc[w] = "get"
      BY <2>5 DEF WorkerTakes, callVars
    <3> HIDE DEF h
    <3>2. wreq[w] = NoRequest
      BY <3>1, <1>t
    <3>3. \A q \in Requests : Held(q) \/ q = h => Held(q)'
      BY <3>1, <3>2, <1>t DEF Held
    <3> QED BY <2>1, <2>2, <3>1, <3>3, WorkerStep
  <2> QED BY <1>3, <2>3, <2>4, <2>5 DEF Takes
<1>4. ASSUME NEW w \in Workers, WorkerSends(w) PROVE CallInv'
  <2>1. sent' = Append(sent, wreq[w]) /\ UNCHANGED <<call, fut, accepted, queue, wreq, quotaError>>
    BY <1>4 DEF WorkerSends, callVars
  <2>2. wreq[w] \in Requests
    BY <1>4, <1>t DEF WorkerSends
  <2>3. \A q : In(sent, q) => In(sent', q)
    BY <2>1, <2>2, <1>t, InAppend
  <2>4. \A q : Held(q)' <=> Held(q)
    BY <2>1 DEF Held
  <2> QED BY <2>1, <2>3, <2>4, WorkerStep
<1>5. ASSUME NEW w \in Workers, Answers(w) PROVE CallInv'
  <2> DEFINE h == wreq[w]
  <2>1. /\ wpc[w] = "calling" /\ wreq' = [wreq EXCEPT ![w] = NoRequest]
        /\ UNCHANGED <<call, accepted, sent>> /\ (quotaError => quotaError')
    BY <1>5 DEF Answers, ProviderAnswers, ProviderQuota
  <2>2. h \in Requests /\ In(sent, h)
    BY <2>1, <1>t DEF PlaceInv
  <2>3. \A q \in Requests : Held(q) /\ q # h => Held(q)'
    BY <2>1, <1>t DEF Held
  <2>4. CASE \E f \in {"result", "error"} : ProviderAnswers(w, f)
    <3>1. PICK f \in {"result", "error"} :
            fut' = [fut EXCEPT ![h] = IF @ = "pending" THEN f ELSE @]
      BY <2>4 DEF ProviderAnswers
    <3>2. UNCHANGED queue
      BY <2>4 DEF ProviderAnswers
    <3> HIDE DEF h
    <3>3. \A q \in Requests :
            /\ q # h => fut'[q] = fut[q]
            /\ q = h => \/ fut'[q] \in {"result", "error"}
                        \/ fut'[q] = fut[q] /\ fut[q] # "pending"
      BY <3>1, <1>t
    <3> QED BY <2>1, <2>2, <2>3, <3>2, <3>3, WorkerStep
  <2>5. CASE ProviderQuota(w)
    <3> DEFINE g == [fut EXCEPT ![h] = IF @ = "pending" THEN "quota" ELSE @]
    <3>1. quotaError' /\ (fut' = Drained(g) \/ (fut' = g /\ UNCHANGED queue))
      <4>1. CASE FailFast BY <4>1, <2>5 DEF ProviderQuota
      <4>2. CASE ~FailFast BY <4>2, <2>5 DEF ProviderQuota
      <4> QED BY <4>1, <4>2
    <3> HIDE DEF h
    <3>2. \A q \in Requests :
            /\ q # h => g[q] = fut[q]
            /\ q = h => g[q] = "quota" \/ (g[q] = fut[q] /\ fut[q] # "pending")
      BY <1>t
    <3> HIDE DEF g
    <3>3. CASE fut' = Drained(g)
      <4>1. \A q \in Requests :
              \/ fut'[q] = "quota"
              \/ fut'[q] = g[q] /\ (g[q] = "pending" => ~In(queue, q))
        BY <3>3 DEF Drained
      <4> QED BY <2>1, <2>2, <2>3, <3>1, <3>2, <4>1, WorkerStep
    <3>4. CASE fut' = g /\ UNCHANGED queue
      BY <2>1, <2>2, <2>3, <3>1, <3>2, <3>4, WorkerStep
    <3> QED BY <3>1, <3>3, <3>4
  <2> QED BY <1>5, <2>4, <2>5 DEF Answers
<1>6. ASSUME NEW t \in ToolCalls,
             \/ ToolRefused(t) \/ ToolStarts(t) \/ CancelTool(t)
             \/ ToolSends(t) \/ ToolAnswers(t)
      PROVE  UNCHANGED <<call, fut, accepted, queue, sent, wreq, quotaError>>
  BY <1>6 DEF ToolRefused, ToolStarts, CancelTool, ToolSends, ToolAnswers, ToolEnds,
              callVars, workerVars
<1>7. ASSUME CloseStarts \/ CloseEnds \/ UNCHANGED vars
      PROVE  UNCHANGED <<call, fut, accepted, queue, sent, wreq, quotaError>>
  BY <1>7 DEF CloseStarts, CloseEnds, vars, callVars, workerVars
<1>8. CASE UNCHANGED <<call, fut, accepted, queue, sent, wreq, quotaError>>
  BY <1>8, WorkerStep DEF Held
<1> QED BY <1>1, <1>2, <1>3, <1>4, <1>5, <1>6, <1>7, <1>8, CallerStep
        DEF Next, UserSteps, SystemSteps, CallSteps, CloseSteps

\* The inductive invariant holds in every reachable state.
THEOREM RequestsSafe == Spec => []RequestInv
<1>1. Init => RequestInv
  BY InEmpty, DistinctAssumption
     DEF Init, RequestInv, PlaceInv, CallInv, NoOrphanFuture, NoLostRequest,
         AnswersAreReal, Held, Unique
<1>2. TypeOK /\ RequestInv /\ [Next]_vars => RequestInv'
  BY PlaceStep, CallStep DEF RequestInv
<1> QED BY <1>1, <1>2, TypeCorrect, PTL DEF Spec

\* No caller leaves a pending future behind, and no request is lost while its
\* caller waits for it.
THEOREM RequestsKept == Spec => [](NoOrphanFuture /\ NoLostRequest)
<1>1. RequestInv => NoOrphanFuture /\ NoLostRequest
  BY DEF RequestInv, CallInv
<1> QED BY <1>1, RequestsSafe, PTL

\* No request goes to the provider twice, and none before it was queued.
THEOREM SentOnce == Spec => []SentAtMostOnce
<1>1. TypeOK /\ RequestInv => SentAtMostOnce
  <2> SUFFICES ASSUME TypeOK, RequestInv PROVE SentAtMostOnce
    OBVIOUS
  <2>1. \A i \in DOMAIN sent : sent[i] \in Requests /\ In(sent, sent[i])
    BY DEF TypeOK, In
  <2>2. \A i, j \in DOMAIN sent : i # j => sent[i] # sent[j]
    BY <2>1 DEF RequestInv, PlaceInv, Unique
  <2>3. \A i \in DOMAIN sent : In(accepted, sent[i])
    BY <2>1 DEF RequestInv, PlaceInv
  <2> QED BY <2>2, <2>3 DEF SentAtMostOnce
<1> QED BY <1>1, TypeCorrect, RequestsSafe, PTL

\* A caller gets the provider's word only for a request that was sent, and a
\* quota error only when there was one.
THEOREM AnswersReal == Spec => []AnswersAreReal
<1>1. RequestInv => AnswersAreReal
  BY DEF RequestInv, CallInv
<1> QED BY <1>1, RequestsSafe, PTL

-----------------------------------------------------------------------------
(* The sends after the quota was exhausted                                 *)

LEMMA LimiterCount ==
  ASSUME NEW S \in SUBSET Workers
  PROVE  /\ IsFiniteSet(S) /\ Cardinality(S) \in Nat
         /\ Cardinality(S) <= Cardinality(Workers)
         /\ S # Workers => Cardinality(S) < Cardinality(Workers)
  BY WorkersAssumption, FS_Subset, FS_CardinalityType

LEMMA LateStep == TypeOK /\ LateInv /\ [Next]_vars => LateInv'
<1> SUFFICES ASSUME TypeOK, LateInv, [Next]_vars PROVE LateInv'
  OBVIOUS
<1>t. /\ wpc \in [Workers -> {"get", "rpm", "calling", "exited"}]
      /\ lateSends \in Nat /\ Cardinality(AtLimiter) \in Nat
      /\ Cardinality(Workers) \in Nat /\ IsFiniteSet(AtLimiter)
  BY WorkersCount, LimiterCount DEF TypeOK, AtLimiter
<1>1. ASSUME UNCHANGED <<quotaError, lateSends>>, AtLimiter' \subseteq AtLimiter
      PROVE  LateInv'
  <2>1. Cardinality(AtLimiter') <= Cardinality(AtLimiter) /\ Cardinality(AtLimiter') \in Nat
    BY <1>1, <1>t, FS_Subset, FS_CardinalityType
  <2> QED BY <1>1, <1>t, <2>1 DEF LateInv
<1>2. ASSUME NEW w \in Workers, WorkerTakes(w) PROVE LateInv'
  <2>1. UNCHANGED <<quotaError, lateSends>> /\ ~(quotaError /\ FailFast)
    BY <1>2 DEF WorkerTakes
  <2> QED BY <2>1 DEF LateInv
<1>3. ASSUME NEW w \in Workers, WorkerSends(w) PROVE LateInv'
  <2>1. /\ wpc[w] = "rpm" /\ wpc' = [wpc EXCEPT ![w] = "calling"] /\ UNCHANGED quotaError
        /\ lateSends' = IF quotaError THEN lateSends + 1 ELSE lateSends
    BY <1>3 DEF WorkerSends
  <2>2. w \in AtLimiter /\ AtLimiter' = AtLimiter \ {w}
    BY <2>1, <1>t DEF AtLimiter
  <2>3. Cardinality(AtLimiter') = Cardinality(AtLimiter) - 1
    BY <2>2, <1>t, FS_RemoveElement
  <2>4. CASE quotaError
    BY <2>1, <2>3, <2>4, <1>t DEF LateInv
  <2>5. CASE ~quotaError
    BY <2>1, <2>5 DEF LateInv
  <2> QED BY <2>4, <2>5
<1>4. ASSUME NEW w \in Workers, ProviderQuota(w) PROVE LateInv'
  <2>1. /\ wpc[w] = "calling" /\ wpc' = [wpc EXCEPT ![w] = "get"]
        /\ quotaError' /\ UNCHANGED lateSends
    BY <1>4 DEF ProviderQuota
  <2>2. AtLimiter' = AtLimiter /\ w \notin AtLimiter
    BY <2>1, <1>t DEF AtLimiter
  <2>3. Cardinality(AtLimiter) < Cardinality(Workers)
    BY <2>2, LimiterCount DEF AtLimiter
  <2>4. CASE quotaError
    BY <2>1, <2>2, <2>4 DEF LateInv
  <2>5. CASE ~quotaError
    BY <2>1, <2>2, <2>3, <2>5, <1>t DEF LateInv
  <2> QED BY <2>4, <2>5
<1>5. ASSUME NEW w \in Workers,
             \/ WorkerExits(w) \/ WorkerDrops(w) \/ WorkerRefuses(w)
             \/ \E f \in {"result", "error"} : ProviderAnswers(w, f)
      PROVE  UNCHANGED <<quotaError, lateSends>> /\ AtLimiter' \subseteq AtLimiter
  BY <1>5, <1>t DEF WorkerExits, WorkerDrops, WorkerRefuses, ProviderAnswers, workerVars,
                    AtLimiter
<1>6. ASSUME NEW r \in Requests,
             \/ CallRefused(r) \/ CallStarts(r) \/ CancelCall(r) \/ PutDone(r)
             \/ CallQuota(r) \/ CallEnqueued(r) \/ CallSettled(r) \/ CallEnds(r)
      PROVE  UNCHANGED <<quotaError, lateSends, wpc>>
  BY <1>6 DEF CallRefused, CallStarts, CancelCall, PutDone, CallQuota, CallEnqueued,
              CallSettled, CallEnds, workerVars
<1>7. ASSUME NEW t \in ToolCalls,
             \/ ToolRefused(t) \/ ToolStarts(t) \/ CancelTool(t)
             \/ ToolSends(t) \/ ToolAnswers(t)
      PROVE  UNCHANGED <<quotaError, lateSends, wpc>>
  BY <1>7 DEF ToolRefused, ToolStarts, CancelTool, ToolSends, ToolAnswers, ToolEnds,
              workerVars
<1>8. ASSUME CloseStarts \/ PutSentinel \/ CloseEnds \/ UNCHANGED vars
      PROVE  UNCHANGED <<quotaError, lateSends, wpc>>
  BY <1>8 DEF CloseStarts, PutSentinel, CloseEnds, vars, workerVars
<1>9. CASE UNCHANGED <<quotaError, lateSends, wpc>>
  BY <1>9, <1>1 DEF AtLimiter
<1> QED BY <1>1, <1>2, <1>3, <1>4, <1>5, <1>6, <1>7, <1>8, <1>9
        DEF Next, UserSteps, SystemSteps, CallSteps, Takes, Answers, CloseSteps

\* In fail_fast mode fewer requests than there are workers are sent after the
\* quota was exhausted.
THEOREM LateSendsBounded == Spec => []FewLateSends
<1>1. Init => LateInv
  BY DEF Init, LateInv
<1>2. TypeOK /\ LateInv => FewLateSends
  <2> SUFFICES ASSUME TypeOK, LateInv, FailFast PROVE lateSends < Cardinality(Workers)
    BY DEF FewLateSends
  <2>1. Cardinality(AtLimiter) \in Nat /\ Cardinality(Workers) \in Nat /\ lateSends \in Nat
    BY WorkersCount, LimiterCount DEF TypeOK, AtLimiter
  <2>2. CASE quotaError
    BY <2>1, <2>2 DEF LateInv
  <2>3. CASE ~quotaError
    <3>1. Cardinality(Workers) # 0
      BY WorkersAssumption, FS_EmptySet
    <3> QED BY <2>1, <2>3, <3>1 DEF LateInv
  <2> QED BY <2>2, <2>3
<1> QED BY <1>1, <1>2, LateStep, TypeCorrect, PTL DEF Spec

-----------------------------------------------------------------------------
(* The sentinels of close()                                                *)

LEMMA SentinelStep == TypeOK /\ SentinelInv /\ [Next]_vars => SentinelInv'
<1> SUFFICES ASSUME TypeOK, SentinelInv, [Next]_vars PROVE SentinelInv'
  OBVIOUS
<1>t. /\ wpc \in [Workers -> {"get", "rpm", "calling", "exited"}]
      /\ queue \in Seq(Requests \cup {Sentinel}) /\ toPut \in Nat
      /\ Cardinality(Workers) \in Nat /\ Cardinality(Workers) > 0
      /\ IsFiniteSet(Exited) /\ Cardinality(Exited) \in Nat
      /\ IsFiniteSet(Sentinels) /\ Cardinality(Sentinels) \in Nat
      /\ Sentinels = Places(queue, Sentinel) /\ Sentinels' = Places(queue', Sentinel)
      /\ closer \in {"open", "putting", "joining", "closed"}
  <2>1. Cardinality(Workers) > 0
    BY WorkersAssumption, WorkersCount, FS_EmptySet
  <2>2. IsFiniteSet(Sentinels) /\ Cardinality(Sentinels) \in Nat
    <3>1. queue \in Seq(Requests \cup {Sentinel}) BY DEF TypeOK
    <3>2. Sentinels = Places(queue, Sentinel) BY DEF Sentinels, Places
    <3> QED BY <3>1, <3>2, PlacesAppend
  <2>3. Sentinels = Places(queue, Sentinel) /\ Sentinels' = Places(queue', Sentinel)
    BY DEF Sentinels, Places
  <2> QED BY <2>1, <2>2, <2>3, WorkersCount, LimiterCount DEF TypeOK, Exited
<1>0. ASSUME closer # "open", closer' # "open", closer' = "putting" <=> toPut' > 0,
             Cardinality(Exited') + Cardinality(Sentinels') + toPut' =
               Cardinality(Exited) + Cardinality(Sentinels) + toPut,
             UNCHANGED quotaError
      PROVE  SentinelInv'
  BY <1>0 DEF SentinelInv, SentinelBalance
<1>1. ASSUME UNCHANGED <<closer, toPut>>, quotaError => quotaError',
             Cardinality(Exited') = Cardinality(Exited),
             Cardinality(Sentinels') = Cardinality(Sentinels),
             closer = "open" => Exited' = {} /\ Sentinels' = {}
      PROVE  SentinelInv'
  BY <1>1, <1>t DEF SentinelInv, SentinelBalance
<1>2. ASSUME NEW w \in Workers, WorkerExits(w) PROVE SentinelInv'
  <2>1. /\ queue # <<>> /\ Head(queue) = Sentinel /\ queue' = Tail(queue)
        /\ wpc[w] = "get" /\ wpc' = [wpc EXCEPT ![w] = "exited"]
        /\ UNCHANGED <<closer, toPut, quotaError>>
    BY <1>2 DEF WorkerExits, closeVars
  <2>2. Exited' = Exited \cup {w} /\ w \notin Exited
    BY <2>1, <1>t DEF Exited
  <2>3. Cardinality(Exited') = Cardinality(Exited) + 1
    BY <2>2, <1>t, FS_AddElement
  <2>4. Cardinality(Sentinels') \in Nat /\ Cardinality(Sentinels) = Cardinality(Sentinels') + 1
    BY <2>1, <1>t, PlacesTail
  <2>5. closer # "open"
    <3>1. 1 \in Sentinels BY <2>1, <1>t DEF Sentinels
    <3> QED BY <3>1 DEF SentinelInv
  <2>6. Cardinality(Exited') + Cardinality(Sentinels') + toPut' =
          Cardinality(Exited) + Cardinality(Sentinels) + toPut
    BY <2>1, <2>3, <2>4, <1>t
  <2>7. closer' # "open" /\ (closer' = "putting" <=> toPut' > 0)
    BY <2>1, <2>5 DEF SentinelInv
  <2> QED BY <1>0, <2>1, <2>5, <2>6, <2>7
<1>3. ASSUME NEW w \in Workers, WorkerDrops(w) \/ WorkerRefuses(w) \/ WorkerTakes(w)
      PROVE  SentinelInv'
  <2>1. /\ queue # <<>> /\ Head(queue) # Sentinel /\ queue' = Tail(queue)
        /\ wpc' = wpc \/ (wpc[w] = "get" /\ wpc' = [wpc EXCEPT ![w] = "rpm"])
        /\ UNCHANGED <<closer, toPut, quotaError>>
    BY <1>3 DEF WorkerDrops, WorkerRefuses, WorkerTakes, workerVars, closeVars
  <2>2. Exited' = Exited
    BY <2>1, <1>t DEF Exited
  <2>3. IsFiniteSet(Sentinels') /\ Cardinality(Sentinels) = Cardinality(Sentinels')
    BY <2>1, <1>t, PlacesTail
  <2>4. closer = "open" => Exited' = {} /\ Sentinels' = {}
    <3> SUFFICES ASSUME closer = "open" PROVE Exited' = {} /\ Sentinels' = {}
      OBVIOUS
    <3>1. Exited = {} /\ Cardinality(Sentinels) = 0
      BY FS_EmptySet DEF SentinelInv
    <3> QED BY <3>1, <2>2, <2>3, FS_EmptySet
  <2> QED BY <1>1, <2>1, <2>2, <2>3, <2>4
<1>4. ASSUME NEW w \in Workers,
             WorkerSends(w) \/ \E f \in {"result", "error"} : ProviderAnswers(w, f)
      PROVE  UNCHANGED <<queue, closer, toPut, quotaError>> /\ Exited' = Exited
  BY <1>4, <1>t DEF WorkerSends, ProviderAnswers, closeVars, Exited
<1>5. ASSUME NEW w \in Workers, ProviderQuota(w) PROVE SentinelInv'
  <2>1. /\ wpc[w] = "calling" /\ wpc' = [wpc EXCEPT ![w] = "get"]
        /\ quotaError' /\ UNCHANGED <<closer, toPut>>
        /\ queue' = IF FailFast THEN <<>> ELSE queue
    BY <1>5 DEF ProviderQuota, closeVars
  <2>2. Exited' = Exited
    BY <2>1, <1>t DEF Exited
  <2>3. CASE FailFast
    <3>1. Sentinels' = {} /\ Cardinality({}) = 0
      BY <2>1, <2>3, FS_EmptySet DEF Sentinels
    <3> QED BY <2>1, <2>2, <2>3, <3>1, <1>t DEF SentinelInv
  <2>4. CASE ~FailFast
    <3>1. Sentinels' = Sentinels
      BY <2>1, <2>4 DEF Sentinels
    <3> QED BY <2>1, <2>2, <2>4, <3>1, <1>t DEF SentinelInv, SentinelBalance
  <2> QED BY <2>3, <2>4
<1>6. ASSUME NEW r \in Requests, PutDone(r) PROVE SentinelInv'
  <2>1. queue' = Append(queue, r) /\ UNCHANGED <<closer, toPut, quotaError, wpc>>
    BY <1>6 DEF PutDone, closeVars, workerVars
  <2>2. r # Sentinel
    BY DistinctAssumption
  <2>3. IsFiniteSet(Sentinels') /\ Cardinality(Sentinels') = Cardinality(Sentinels)
    BY <2>1, <2>2, <1>t, PlacesAppend
  <2>4. Exited' = Exited
    BY <2>1 DEF Exited
  <2>5. closer = "open" => Exited' = {} /\ Sentinels' = {}
    <3> SUFFICES ASSUME closer = "open" PROVE Exited' = {} /\ Sentinels' = {}
      OBVIOUS
    <3>1. Exited = {} /\ Cardinality(Sentinels) = 0
      BY FS_EmptySet DEF SentinelInv
    <3> QED BY <3>1, <2>3, <2>4, FS_EmptySet
  <2> QED BY <1>1, <2>1, <2>3, <2>4, <2>5
<1>7. ASSUME NEW r \in Requests,
             \/ CallRefused(r) \/ CallStarts(r) \/ CancelCall(r)
             \/ CallQuota(r) \/ CallEnqueued(r) \/ CallSettled(r) \/ CallEnds(r)
      PROVE  UNCHANGED <<queue, closer, toPut, quotaError, wpc>>
  BY <1>7 DEF CallRefused, CallStarts, CancelCall, CallQuota, CallEnqueued,
              CallSettled, CallEnds, workerVars, closeVars
<1>8. ASSUME NEW t \in ToolCalls,
             \/ ToolRefused(t) \/ ToolStarts(t) \/ CancelTool(t)
             \/ ToolSends(t) \/ ToolAnswers(t)
      PROVE  UNCHANGED <<queue, closer, toPut, quotaError, wpc>>
  BY <1>8 DEF ToolRefused, ToolStarts, CancelTool, ToolSends, ToolAnswers, ToolEnds,
              workerVars, closeVars
<1>9. ASSUME CloseStarts PROVE SentinelInv'
  <2>1. /\ closer = "open" /\ closer' = "putting" /\ toPut' = Cardinality(Workers)
        /\ UNCHANGED <<queue, quotaError, wpc>>
    BY <1>9 DEF CloseStarts, workerVars
  <2>2. Exited' = {} /\ Sentinels' = {} /\ Cardinality({}) = 0
    BY <2>1, FS_EmptySet DEF SentinelInv, Exited, Sentinels
  <2> QED BY <2>1, <2>2, <1>t DEF SentinelInv, SentinelBalance
<1>10. ASSUME PutSentinel PROVE SentinelInv'
  <2>1. /\ closer = "putting" /\ toPut > 0 /\ toPut' = toPut - 1
        /\ closer' = IF toPut = 1 THEN "joining" ELSE "putting"
        /\ queue' = Append(queue, Sentinel) /\ UNCHANGED <<quotaError, wpc>>
    BY <1>10 DEF PutSentinel, workerVars
  <2>2. Cardinality(Sentinels') = Cardinality(Sentinels) + 1
    BY <2>1, <1>t, PlacesAppend
  <2>3. Exited' = Exited
    BY <2>1 DEF Exited
  <2>4. Cardinality(Exited') + Cardinality(Sentinels') + toPut' =
          Cardinality(Exited) + Cardinality(Sentinels) + toPut
    BY <2>1, <2>2, <2>3, <1>t
  <2>5. closer' # "open" /\ (closer' = "putting" <=> toPut' > 0)
    BY <2>1, <1>t
  <2> QED BY <1>0, <2>1, <2>4, <2>5
<1>11. ASSUME CloseEnds PROVE SentinelInv'
  <2>1. /\ closer = "joining" /\ closer' = "closed"
        /\ UNCHANGED <<toPut, queue, quotaError, wpc>>
    BY <1>11 DEF CloseEnds, workerVars
  <2> QED BY <2>1 DEF SentinelInv, SentinelBalance, Exited, Sentinels
<1>12. CASE UNCHANGED vars
  BY <1>12 DEF vars, SentinelInv, SentinelBalance, Exited, Sentinels
<1>13. ASSUME UNCHANGED <<queue, closer, toPut, quotaError>>, Exited' = Exited
       PROVE  SentinelInv'
  BY <1>13 DEF SentinelInv, SentinelBalance, Sentinels
<1>14. CASE UNCHANGED <<queue, closer, toPut, quotaError, wpc>>
  BY <1>13, <1>14 DEF Exited
<1> QED BY <1>2, <1>3, <1>4, <1>5, <1>6, <1>7, <1>8, <1>9, <1>10, <1>11, <1>12, <1>13, <1>14
        DEF Next, UserSteps, SystemSteps, CallSteps, Takes, Answers, CloseSteps

\* However puts, drains, workers and close() interleave: no worker stops before close(),
\* which waits for them only when it has put its last sentinel, and no more sentinels
\* are about than there are workers left to stop, as many outside a drain.
THEOREM SentinelsSafe == Spec => []SentinelInv
<1>1. Init => SentinelInv
  <2> SUFFICES ASSUME Init PROVE SentinelInv
    OBVIOUS
  <2>1. Exited = {} /\ Sentinels = {} /\ Cardinality({}) = 0 /\ closer = "open" /\ toPut = 0
    BY FS_EmptySet DEF Init, Exited, Sentinels
  <2> QED BY <2>1, WorkersCount DEF SentinelInv, SentinelBalance
<1>2. TypeOK /\ SentinelInv /\ [Next]_vars => SentinelInv'
  BY SentinelStep
<1> QED BY <1>1, <1>2, TypeCorrect, PTL DEF Spec

\* From close() on, each worker that has not left its loop has a sentinel in the queue
\* or still to be put ("Stop workers by sending sentinel values", scheduler.py:276),
\* until a drain of fail_fast mode; in the modes with a fallback that is so for ever.
THEOREM SentinelsKept == Spec => [](~(FailFast /\ quotaError) => SentinelBalance)
<1>1. SentinelInv => (~(FailFast /\ quotaError) => SentinelBalance)
  BY DEF SentinelInv
<1> QED BY <1>1, SentinelsSafe, PTL

\* What is put behind the last sentinel finds no worker: the one that could take it has
\* a sentinel of its own before it.
LEMMA BehindStep ==
  ASSUME TypeOK, PlaceInv, SentinelInv, [Next]_vars,
         NEW r \in Requests, BehindSentinels(r)
  PROVE  ~Held(r)'
<1> SUFFICES ASSUME NEW v \in Workers, wreq'[v] = r PROVE FALSE
  BY DEF Held
<1>1. PICK i \in DOMAIN queue : queue[i] = r /\ \A j \in Sentinels : j < i
  BY DEF BehindSentinels
<1>2. wreq[v] # r /\ r # NoRequest
  BY <1>1, DistinctAssumption DEF PlaceInv, In, Held
<1>3. PICK w \in Workers : WorkerTakes(w)
  <2>1. wreq' # wreq
    BY <1>2
  <2>2. \A w \in Workers : ~ProviderQuota(w) /\ \A f : ~ProviderAnswers(w, f)
    BY <1>2 DEF ProviderQuota, ProviderAnswers, TypeOK
  <2> QED BY <2>1, <2>2 DEF Next, UserSteps, SystemSteps, CallSteps, Takes, Answers,
         CloseSteps, CallRefused, CallStarts, CancelCall, ToolRefused, ToolStarts, CancelTool,
         CloseStarts, PutDone, CallQuota, CallEnqueued, CallSettled, CallEnds, WorkerExits,
         WorkerDrops, WorkerRefuses, WorkerSends, ToolSends, ToolAnswers, ToolEnds,
         PutSentinel, CloseEnds, vars, workerVars
<1>4. wpc[w] = "get" /\ queue # <<>> /\ Head(queue) = r /\ ~(quotaError /\ FailFast)
  BY <1>2, <1>3 DEF WorkerTakes, TypeOK
<1>5. queue \in Seq(Requests \cup {Sentinel}) /\ DOMAIN queue = 1..Len(queue)
      /\ Len(queue) \in Nat
  BY DEF TypeOK
<1>6. i = 1
  <2>1. 1 \in DOMAIN queue /\ queue[1] = r
    BY <1>4, <1>5
  <2> QED BY <1>1, <2>1 DEF PlaceInv, Unique
<1>7. Sentinels = {}
  BY <1>1, <1>5, <1>6 DEF Sentinels
<1>8. toPut = 0 /\ closer # "open"
  BY DEF BehindSentinels, SentinelInv, TypeOK
<1>9. Cardinality(Exited) = Cardinality(Workers)
  <2>1. Cardinality(Exited) \in Nat
    BY WorkersAssumption, FS_Subset, FS_CardinalityType DEF Exited
  <2> QED BY <1>4, <1>7, <1>8, <2>1, WorkersCount, FS_EmptySet
          DEF SentinelInv, SentinelBalance
<1>10. Exited = Workers
  BY <1>9, WorkersAssumption, FS_Subset DEF Exited
<1> QED BY <1>4, <1>10, <1>3 DEF Exited

-----------------------------------------------------------------------------
(* The order of the requests                                               *)

LEMMA OrderedAppend ==
  ASSUME NEW T, NEW S, NEW R, NEW s \in Seq(T), NEW e \in T, Ordered(s, S, R),
         \A x \in S : In(s, x) /\ e \in S => <<x, e>> \in R
  PROVE  Ordered(Append(s, e), S, R)
<1>1. DOMAIN Append(s, e) = 1..(Len(s) + 1) /\ DOMAIN s = 1..Len(s) /\ Len(s) \in Nat
  OBVIOUS
<1>2. \A i \in 1..Len(s) : Append(s, e)[i] = s[i]
  OBVIOUS
<1>3. Append(s, e)[Len(s) + 1] = e
  OBVIOUS
<1> DEFINE t == Append(s, e)
<1> HIDE DEF t
<1>4. ASSUME NEW i \in DOMAIN t, NEW j \in DOMAIN t, i < j, t[i] \in S, t[j] \in S
      PROVE  <<t[i], t[j]>> \in R
  <2>1. i \in 1..Len(s) /\ (j \in 1..Len(s) \/ j = Len(s) + 1)
    BY <1>1, <1>4 DEF t
  <2>2. t[i] = s[i] /\ In(s, s[i])
    BY <2>1, <1>1, <1>2 DEF t, In
  <2>3. CASE j \in 1..Len(s)
    BY <2>1, <2>2, <2>3, <1>1, <1>2, <1>4 DEF t, Ordered
  <2>4. CASE j = Len(s) + 1
    BY <2>2, <2>4, <1>3, <1>4 DEF t
  <2> QED BY <2>1, <2>3, <2>4
<1> QED BY <1>4 DEF t, Ordered

LEMMA OrderedTail ==
  ASSUME NEW T, NEW S, NEW R, NEW s \in Seq(T), s # <<>>, Ordered(s, S, R)
  PROVE  /\ Ordered(Tail(s), S, R)
         /\ Head(s) \in S => \A x \in S : In(Tail(s), x) => <<Head(s), x>> \in R
<1>1. Len(s) \in Nat \ {0} /\ DOMAIN s = 1..Len(s) /\ Head(s) = s[1]
  OBVIOUS
<1>2. DOMAIN Tail(s) = 1..(Len(s) - 1) /\ \A i \in 1..(Len(s) - 1) : Tail(s)[i] = s[i + 1]
  BY <1>1
<1>3. \A i \in 1..(Len(s) - 1) : i + 1 \in DOMAIN s /\ 1 < i + 1 /\ 1 \in DOMAIN s
  BY <1>1
<1>4. \A i, j \in 1..(Len(s) - 1) : i < j => i + 1 < j + 1
  OBVIOUS
<1> QED BY <1>1, <1>2, <1>3, <1>4 DEF Ordered, In

LEMMA ConcatElements ==
  ASSUME NEW T, NEW a \in Seq(T), NEW b \in Seq(T)
  PROVE  /\ DOMAIN (a \o b) = 1..(Len(a) + Len(b))
         /\ \A i \in 1..(Len(a) + Len(b)) :
              (a \o b)[i] = IF i <= Len(a) THEN a[i] ELSE b[i - Len(a)]
<1>1. a \o b \in Seq(T) /\ Len(a \o b) = Len(a) + Len(b)
  BY ConcatProperties
<1>2. DOMAIN (a \o b) = 1..Len(a \o b)
  BY <1>1
<1> QED BY <1>1, <1>2, ConcatProperties

\* Taking one element out keeps the order of the others.
LEMMA OrderedRemove ==
  ASSUME NEW T, NEW S, NEW R, NEW s \in Seq(T), NEW k \in DOMAIN s, s[k] \notin S,
         Ordered(s, S, R)
  PROVE  LET t == SubSeq(s, 1, k - 1) \o SubSeq(s, k + 1, Len(s))
         IN  /\ Ordered(t, S, R)
             /\ \A x \in S : In(t, x) <=> In(s, x)
<1> DEFINE a == SubSeq(s, 1, k - 1)
           b == SubSeq(s, k + 1, Len(s))
           t == a \o b
<1>1. Len(s) \in Nat /\ DOMAIN s = 1..Len(s) /\ k \in 1..Len(s)
  OBVIOUS
<1>2. a \in Seq(T) /\ Len(a) = k - 1 /\ \A i \in 1..(k - 1) : a[i] = s[i]
  BY <1>1
<1>3. b \in Seq(T) /\ Len(b) = Len(s) - k /\ \A i \in 1..(Len(s) - k) : b[i] = s[k + i]
  BY <1>1
<1>4. /\ DOMAIN t = 1..(Len(s) - 1)
      /\ \A i \in 1..(k - 1) : t[i] = s[i]
      /\ \A i \in 1..(Len(s) - k) : t[(k - 1) + i] = s[k + i]
  <2> HIDE DEF a, b
  <2>1. /\ DOMAIN t = 1..(Len(a) + Len(b))
        /\ \A i \in 1..(Len(a) + Len(b)) :
             t[i] = IF i <= Len(a) THEN a[i] ELSE b[i - Len(a)]
    <3>1. a \in Seq(T) /\ b \in Seq(T)
      BY <1>2, <1>3
    <3> QED BY <3>1, ConcatElements
  <2> HIDE DEF t
  <2>2. DOMAIN t = 1..(Len(s) - 1)
    BY <2>1, <1>1, <1>2, <1>3
  <2>3. ASSUME NEW i \in 1..(k - 1) PROVE t[i] = s[i]
    BY <2>1, <1>1, <1>2, <1>3
  <2>4. ASSUME NEW i \in 1..(Len(s) - k) PROVE t[(k - 1) + i] = s[k + i]
    <3>1. /\ (k - 1) + i \in 1..(Len(a) + Len(b)) /\ ~((k - 1) + i <= Len(a))
          /\ ((k - 1) + i) - Len(a) = i
      BY <1>1, <1>2, <1>3
    <3> QED BY <3>1, <2>1, <1>3
  <2> QED BY <2>2, <2>3, <2>4
<1> HIDE DEF a, b, t
<1>5. ASSUME NEW i \in DOMAIN t, ~(i < k)
      PROVE  t[i] = s[i + 1]
  <2>1. i - (k - 1) \in 1..(Len(s) - k)
    BY <1>1, <1>4, <1>5
  <2>2. (k - 1) + (i - (k - 1)) = i /\ k + (i - (k - 1)) = i + 1
    BY <1>1, <1>4
  <2> QED BY <2>1, <2>2, <1>4
<1> DEFINE f(i) == IF i < k THEN i ELSE i + 1
<1>6. \A i \in DOMAIN t : f(i) \in DOMAIN s /\ f(i) # k
  BY <1>1, <1>4
<1>7. ASSUME NEW i \in DOMAIN t PROVE t[i] = s[f(i)]
  <2>1. CASE i < k
    <3>1. i \in 1..(k - 1) BY <2>1, <1>1, <1>4
    <3> QED BY <3>1, <2>1, <1>4
  <2>2. CASE ~(i < k)
    BY <2>2, <1>5
  <2> QED BY <2>1, <2>2
<1>8. \A i, j \in DOMAIN t : i < j => f(i) < f(j)
  BY <1>1, <1>4
<1>9. ASSUME NEW j \in DOMAIN s, j # k PROVE \E i \in DOMAIN t : f(i) = j
  <2>1. CASE j < k
    <3>1. j \in DOMAIN t /\ f(j) = j BY <2>1, <1>1, <1>4
    <3> QED BY <3>1
  <2>2. CASE j > k
    <3>1. j - 1 \in DOMAIN t /\ f(j - 1) = j BY <2>2, <1>1, <1>4
    <3> QED BY <3>1
  <2> QED BY <2>1, <2>2, <1>1, <1>9
<1> HIDE DEF f
<1>10. Ordered(t, S, R)
  BY <1>6, <1>7, <1>8 DEF Ordered
<1>11. ASSUME NEW x \in S PROVE In(t, x) <=> In(s, x)
  <2>1. ASSUME In(t, x) PROVE In(s, x)
    BY <2>1, <1>6, <1>7 DEF In
  <2>2. ASSUME In(s, x) PROVE In(t, x)
    <3>1. PICK j \in DOMAIN s : s[j] = x
      BY <2>2 DEF In
    <3>2. j # k
      BY <3>1
    <3>3. PICK i \in DOMAIN t : f(i) = j
      BY <3>2, <1>9
    <3>4. t[i] = x
      BY <3>1, <3>3, <1>7
    <3> QED BY <3>4 DEF In
  <2> QED BY <2>1, <2>2
<1> QED BY <1>10, <1>11 DEF a, b, t

LEMMA BeforeIrreflexive ==
  ASSUME TypeOK, Unique(accepted, Requests)
  PROVE  \A r \in Requests : <<r, r>> \notin Before
<1>1. \A i \in DOMAIN accepted : i \in Nat
  BY DEF TypeOK
<1> QED BY <1>1 DEF Before, Unique

\* What a put does to the order of the puts.
LEMMA BeforeGrows ==
  ASSUME TypeOK, NEW r \in Requests, accepted' = Append(accepted, r)
  PROVE  /\ Before \subseteq Before'
         /\ \A q \in Requests : In(accepted, q) => <<q, r>> \in Before'
<1>1. /\ DOMAIN accepted' = 1..(Len(accepted) + 1) /\ DOMAIN accepted = 1..Len(accepted)
      /\ Len(accepted) \in Nat
  BY DEF TypeOK
<1>2. /\ \A i \in 1..Len(accepted) : accepted'[i] = accepted[i]
      /\ accepted'[Len(accepted) + 1] = r
  BY DEF TypeOK
<1>3. \A i \in DOMAIN accepted :
        i \in DOMAIN accepted' /\ i < Len(accepted) + 1 /\ accepted'[i] = accepted[i]
  BY <1>1, <1>2
<1>4. Len(accepted) + 1 \in DOMAIN accepted'
  BY <1>1
<1>5. Before \subseteq Before'
  BY <1>3 DEF Before
<1>6. \A q \in Requests : In(accepted, q) => <<q, r>> \in Before'
  BY <1>2, <1>3, <1>4 DEF Before, In
<1> QED BY <1>5, <1>6

LEMMA OrderStutter ==
  ASSUME OrderInv, UNCHANGED <<accepted, sent, wpc, rpmQueue, queue, wreq>>
  PROVE  OrderInv'
BY DEF OrderInv, AtLimiter, Held, Before, HeldBefore

\* A step that leaves the limiter and what was sent alone, and may take requests out
\* of the queue from its head on, or let workers forget what they have sent.
LEMMA OrderShrinks ==
  ASSUME OrderInv, UNCHANGED <<accepted, sent, rpmQueue>>,
         \A w \in Workers : wpc'[w] = "rpm" <=> wpc[w] = "rpm",
         \A w \in AtLimiter : wreq'[w] = wreq[w],
         \A r \in Requests : Held(r)' => Held(r),
         \A q \in Requests : In(queue', q) => In(queue, q),
         Ordered(queue', Requests, Before)
  PROVE  OrderInv'
<1>1. Before' = Before /\ AtLimiter' = AtLimiter
  BY DEF Before, AtLimiter
<1>2. \A w \in Workers : In(rpmQueue, w) => wreq'[w] = wreq[w]
  BY DEF OrderInv, AtLimiter
<1>3. Ordered(rpmQueue, Workers, HeldBefore')
  BY <1>1, <1>2 DEF OrderInv, Ordered, HeldBefore, In
<1>4. \A w \in AtLimiter : \A r \in Requests : In(sent, r) => <<r, wreq'[w]>> \in Before
  BY DEF OrderInv
<1> QED BY <1>1, <1>3, <1>4 DEF OrderInv

LEMMA OrderStep == TypeOK /\ PlaceInv /\ OrderInv /\ [Next]_vars => OrderInv'
<1> SUFFICES ASSUME TypeOK, PlaceInv, OrderInv, [Next]_vars PROVE OrderInv'
  OBVIOUS
<1>t. /\ queue \in Seq(Requests \cup {Sentinel})
      /\ accepted \in Seq(Requests) /\ sent \in Seq(Requests)
      /\ rpmQueue \in Seq(Workers \cup ToolCalls)
      /\ wpc \in [Workers -> {"get", "rpm", "calling", "exited"}]
      /\ wreq \in [Workers -> Requests \cup {NoRequest}]
      /\ \A w \in Workers : wreq[w] # NoRequest <=> wpc[w] \in {"rpm", "calling"}
      /\ Sentinel \notin Requests /\ NoRequest \notin Requests /\ Workers \cap ToolCalls = {}
  BY DistinctAssumption DEF TypeOK
<1>o. /\ Unique(accepted, Requests)
      /\ \A w \in Workers : In(rpmQueue, w) <=> wpc[w] = "rpm"
      /\ Ordered(sent, Requests, Before)
      /\ Ordered(rpmQueue, Workers, HeldBefore)
      /\ Ordered(queue, Requests, Before)
      /\ \A w \in AtLimiter : \A r \in Requests : In(sent, r) => <<r, wreq[w]>> \in Before
      /\ \A r, q \in Requests :
           In(queue, q) /\ (In(sent, r) \/ Held(r)) => <<r, q>> \in Before
  BY DEF OrderInv
<1>1. ASSUME NEW r \in Requests, PutDone(r) PROVE OrderInv'
  <2>1. /\ queue' = Append(queue, r) /\ accepted' = Append(accepted, r) /\ ~In(accepted, r)
        /\ UNCHANGED <<sent, wpc, wreq, rpmQueue>>
    BY <1>1 DEF PutDone, workerVars
  <2>2. /\ Before \subseteq Before'
        /\ \A q \in Requests : In(accepted, q) => <<q, r>> \in Before'
    BY <2>1, BeforeGrows
  <2>3. \A q \in Requests : In(queue', q) <=> In(queue, q) \/ q = r
    <3> DEFINE E == Requests \cup {Sentinel}
    <3>1. r \in E /\ queue \in Seq(E) BY <1>t
    <3> HIDE DEF E
    <3> QED BY <3>1, <2>1, InAppend
  <2>4. Unique(accepted', Requests)
    BY <2>1, <1>t, <1>o, UniqueAppend
  <2>5. Ordered(queue', Requests, Before')
    <3> DEFINE E == Requests \cup {Sentinel}
               B == Before'
    <3>1. r \in E /\ queue \in Seq(E) /\ Ordered(queue, Requests, B)
      BY <1>t, <1>o, <2>2 DEF Ordered
    <3>2. \A x \in Requests : In(queue, x) /\ r \in Requests => <<x, r>> \in B
      BY <2>2 DEF PlaceInv
    <3> HIDE DEF E, B
    <3>3. Ordered(Append(queue, r), Requests, B)
      BY <3>1, <3>2, OrderedAppend
    <3> QED BY <3>3, <2>1 DEF B
  <2>6. Ordered(sent', Requests, Before')
    BY <2>1, <2>2, <1>o DEF Ordered
  <2>7. HeldBefore \subseteq HeldBefore'
    BY <2>1, <2>2 DEF HeldBefore
  <2>8. Ordered(rpmQueue', Workers, HeldBefore')
    BY <2>1, <2>7, <1>o DEF Ordered
  <2>9. \A w \in AtLimiter' : \A q \in Requests : In(sent', q) => <<q, wreq'[w]>> \in Before'
    BY <2>1, <2>2, <1>o DEF AtLimiter
  <2>10. \A q : Held(q)' <=> Held(q)
    BY <2>1 DEF Held
  <2>11. \A p, q \in Requests :
           In(queue', q) /\ (In(sent', p) \/ Held(p)') => <<p, q>> \in Before'
    BY <2>1, <2>2, <2>3, <2>10, <1>o DEF PlaceInv
  <2>12. \A w \in Workers : In(rpmQueue', w) <=> wpc'[w] = "rpm"
    BY <2>1, <1>o
  <2> QED BY <2>4, <2>5, <2>6, <2>8, <2>9, <2>11, <2>12 DEF OrderInv
<1>2. ASSUME PutSentinel PROVE OrderInv'
  <2>1. queue' = Append(queue, Sentinel)
        /\ UNCHANGED <<accepted, sent, wpc, wreq, rpmQueue>>
    BY <1>2 DEF PutSentinel, callVars, workerVars
  <2>2. \A q \in Requests : In(queue', q) <=> In(queue, q)
    <3> DEFINE E == Requests \cup {Sentinel}
    <3>1. Sentinel \in E /\ queue \in Seq(E) BY <1>t
    <3> HIDE DEF E
    <3> QED BY <3>1, <2>1, <1>t, InAppend
  <2>3. Ordered(queue', Requests, Before)
    <3> DEFINE E == Requests \cup {Sentinel}
               B == Before
    <3>1. Sentinel \in E /\ queue \in Seq(E) /\ Ordered(queue, Requests, B)
      BY <1>t, <1>o
    <3> HIDE DEF E, B
    <3>2. Ordered(Append(queue, Sentinel), Requests, B)
      BY <3>1, <1>t, OrderedAppend
    <3> QED BY <3>2, <2>1 DEF B
  <2> QED BY <2>1, <2>2, <2>3, OrderShrinks DEF Held
<1>3. ASSUME NEW w \in Workers, WorkerExits(w) \/ WorkerDrops(w) \/ WorkerRefuses(w)
      PROVE  OrderInv'
  <2>1. /\ queue # <<>> /\ queue' = Tail(queue)
        /\ UNCHANGED <<accepted, sent, wreq, rpmQueue>>
    BY <1>3 DEF WorkerExits, WorkerDrops, WorkerRefuses, callVars, workerVars
  <2>2. \A v \in Workers : wpc'[v] = "rpm" <=> wpc[v] = "rpm"
    BY <1>3, <1>t DEF WorkerExits, WorkerDrops, WorkerRefuses, workerVars
  <2>3. \A q : In(queue', q) => In(queue, q)
    BY <2>1, <1>t, InTail
  <2>4. Ordered(queue', Requests, Before)
    BY <2>1, <1>t, <1>o, OrderedTail
  <2> QED BY <2>1, <2>2, <2>3, <2>4, OrderShrinks DEF Held
<1>4. ASSUME NEW w \in Workers, WorkerTakes(w) PROVE OrderInv'
  <2> DEFINE h == Head(queue)
  <2>1. /\ queue # <<>> /\ queue' = Tail(queue) /\ wpc[w] = "get" /\ h # Sentinel
        /\ wpc' = [wpc EXCEPT ![w] = "rpm"] /\ wreq' = [wreq EXCEPT ![w] = h]
        /\ rpmQueue' = Append(rpmQueue, w)
        /\ UNCHANGED <<accepted, sent>>
    BY <1>4 DEF WorkerTakes, callVars
  <2>2. h \in Requests
    BY <2>1, <1>t
  <2>3. \A q : In(queue, q) <=> q = h \/ In(queue', q)
    BY <2>1, <1>t, InTail
  <2>4. /\ Ordered(queue', Requests, Before)
        /\ \A q \in Requests : In(queue', q) => <<h, q>> \in Before
    BY <2>1, <2>2, <1>t, <1>o, OrderedTail
  <2> HIDE DEF h
  <2>5. Before' = Before
    BY <2>1 DEF Before
  <2>6. /\ wreq'[w] = h /\ wpc'[w] = "rpm" /\ ~In(rpmQueue, w)
        /\ \A v \in Workers \ {w} : wreq'[v] = wreq[v] /\ wpc'[v] = wpc[v]
    BY <2>1, <1>t, <1>o
  <2>7. \A x : In(rpmQueue', x) <=> In(rpmQueue, x) \/ x = w
    <3> DEFINE E == Workers \cup ToolCalls
    <3>1. w \in E /\ rpmQueue \in Seq(E) BY <1>t
    <3> HIDE DEF E
    <3> QED BY <3>1, <2>1, InAppend
  <2>8. \A v \in Workers : In(rpmQueue', v) <=> wpc'[v] = "rpm"
    BY <2>6, <2>7, <1>o
  <2>9. Ordered(rpmQueue', Workers, HeldBefore')
    <3> DEFINE E == Workers \cup ToolCalls
               B == HeldBefore'
    <3>1. w \in E /\ rpmQueue \in Seq(E)
      BY <1>t
    <3>2. \A v \in Workers : In(rpmQueue, v) => v # w
      BY <2>6
    <3>3. Ordered(rpmQueue, Workers, B)
      BY <3>2, <2>5, <2>6, <1>o DEF Ordered, HeldBefore, In
    <3>4. \A v \in Workers : In(rpmQueue, v) /\ w \in Workers => <<v, w>> \in B
      <4> SUFFICES ASSUME NEW v \in Workers, In(rpmQueue, v) PROVE <<v, w>> \in B
        OBVIOUS
      <4>1. v # w /\ wreq'[v] = wreq[v] /\ wpc[v] = "rpm"
        BY <3>2, <2>6, <1>o
      <4>2. wreq[v] \in Requests /\ Held(wreq[v])
        BY <4>1, <1>t DEF Held
      <4>3. In(queue, h)
        BY <2>3
      <4>4. <<wreq[v], h>> \in Before
        BY <4>2, <4>3, <2>2, <1>o
      <4> QED BY <4>1, <4>4, <2>5, <2>6 DEF HeldBefore
    <3> HIDE DEF E, B
    <3>5. Ordered(Append(rpmQueue, w), Workers, B)
      BY <3>1, <3>3, <3>4, OrderedAppend
    <3> QED BY <3>5, <2>1 DEF B
  <2>10. \A v \in AtLimiter' : \A r \in Requests : In(sent', r) => <<r, wreq'[v]>> \in Before'
    <3> SUFFICES ASSUME NEW v \in Workers, wpc'[v] = "rpm", NEW r \in Requests, In(sent, r)
                 PROVE  <<r, wreq'[v]>> \in Before
      BY <2>1, <2>5 DEF AtLimiter
    <3>1. CASE v = w
      BY <3>1, <2>2, <2>3, <2>6, <1>o
    <3>2. CASE v # w
      BY <3>2, <2>6, <1>o DEF AtLimiter
    <3> QED BY <3>1, <3>2
  <2>11. \A r \in Requests : Held(r)' => Held(r) \/ r = h
    BY <2>6 DEF Held
  <2>12. \A r, q \in Requests :
           In(queue', q) /\ (In(sent', r) \/ Held(r)') => <<r, q>> \in Before'
    BY <2>1, <2>3, <2>4, <2>5, <2>11, <1>o
  <2> QED BY <2>1, <2>4, <2>5, <2>8, <2>9, <2>10, <2>12, <1>o DEF OrderInv
<1>5. ASSUME NEW w \in Workers, WorkerSends(w) PROVE OrderInv'
  <2> DEFINE h == wreq[w]
  <2>1. /\ wpc[w] = "rpm" /\ wpc' = [wpc EXCEPT ![w] = "calling"]
        /\ rpmQueue # <<>> /\ Head(rpmQueue) = w /\ rpmQueue' = Tail(rpmQueue)
        /\ sent' = Append(sent, h) /\ UNCHANGED <<queue, accepted, wreq>>
    BY <1>5 DEF WorkerSends, callVars
  <2>2. h \in Requests /\ Held(h)
    BY <2>1, <1>t DEF Held
  <2>3. Before' = Before /\ HeldBefore' = HeldBefore
    BY <2>1 DEF Before, HeldBefore
  <2>4. /\ Ordered(rpmQueue', Workers, HeldBefore)
        /\ \A v \in Workers : In(rpmQueue', v) => <<w, v>> \in HeldBefore
    BY <2>1, <1>t, <1>o, OrderedTail
  <2>5. \A x : In(rpmQueue, x) <=> x = w \/ In(rpmQueue', x)
    BY <2>1, <1>t, InTail
  <2>6. ~In(rpmQueue', w)
    BY <2>2, <2>4, <1>o, BeforeIrreflexive DEF HeldBefore
  <2>7. /\ wpc'[w] = "calling"
        /\ \A v \in Workers \ {w} : wpc'[v] = wpc[v]
    BY <2>1, <1>t
  <2>8. \A v \in Workers : In(rpmQueue', v) <=> wpc'[v] = "rpm"
    BY <2>5, <2>6, <2>7, <1>o
  <2>9. \A q : In(sent', q) <=> In(sent, q) \/ q = h
    BY <2>1, <2>2, <1>t, InAppend
  <2>10. Ordered(sent', Requests, Before)
    <3> DEFINE B == Before
    <3>1. w \in AtLimiter
      BY <2>1 DEF AtLimiter
    <3>2. \A r \in Requests : In(sent, r) /\ h \in Requests => <<r, h>> \in B
      BY <3>1, <1>o
    <3>3. Ordered(sent, Requests, B)
      BY <1>o
    <3> HIDE DEF B, h
    <3>4. Ordered(Append(sent, h), Requests, B)
      BY <3>2, <3>3, <2>2, <1>t, OrderedAppend
    <3> QED BY <3>4, <2>1 DEF B
  <2>11. \A v \in AtLimiter' : \A r \in Requests : In(sent', r) => <<r, wreq'[v]>> \in Before
    <3> SUFFICES ASSUME NEW v \in Workers, wpc'[v] = "rpm", NEW r \in Requests, In(sent', r)
                 PROVE  <<r, wreq[v]>> \in Before
      BY <2>1 DEF AtLimiter
    <3>1. wpc[v] = "rpm" /\ In(rpmQueue', v)
      BY <2>7, <2>8
    <3>2. CASE r = h
      BY <3>1, <3>2, <2>4 DEF HeldBefore
    <3>3. CASE In(sent, r)
      BY <3>1, <3>3, <1>o DEF AtLimiter
    <3> QED BY <3>2, <3>3, <2>9
  <2>12. \A r, q \in Requests :
           In(queue', q) /\ (In(sent', r) \/ Held(r)') => <<r, q>> \in Before
    <3>1. \A q : Held(q)' <=> Held(q)
      BY <2>1 DEF Held
    <3> HIDE DEF h
    <3> QED BY <3>1, <2>1, <2>2, <2>9, <1>o
  <2> QED BY <2>1, <2>3, <2>4, <2>8, <2>10, <2>11, <2>12, <1>o DEF OrderInv
<1>6. ASSUME NEW w \in Workers, Answers(w) PROVE OrderInv'
  <2>1. /\ wpc[w] = "calling" /\ wpc' = [wpc EXCEPT ![w] = "get"]
        /\ wreq' = [wreq EXCEPT ![w] = NoRequest]
        /\ UNCHANGED <<accepted, sent, rpmQueue>>
    BY <1>6 DEF Answers, ProviderAnswers, ProviderQuota
  <2>2. queue' = queue \/ queue' = <<>>
    <3>1. CASE \E f \in {"result", "error"} : ProviderAnswers(w, f)
      BY <3>1 DEF ProviderAnswers
    <3>2. CASE ProviderQuota(w)
      <4>1. CASE FailFast BY <4>1, <3>2 DEF ProviderQuota
      <4>2. CASE ~FailFast BY <4>2, <3>2 DEF ProviderQuota
      <4> QED BY <4>1, <4>2
    <3> QED BY <1>6, <3>1, <3>2 DEF Answers
  <2>3. \A q \in Requests : In(queue', q) => In(queue, q)
    BY <2>2 DEF In
  <2>4. Ordered(queue', Requests, Before)
    <3>1. CASE queue' = queue BY <3>1, <1>o
    <3>2. CASE queue' = <<>> BY <3>2 DEF Ordered
    <3> QED BY <2>2, <3>1, <3>2
  <2>5. /\ \A v \in Workers : wpc'[v] = "rpm" <=> wpc[v] = "rpm"
        /\ \A v \in AtLimiter : wreq'[v] = wreq[v]
    BY <2>1, <1>t DEF AtLimiter
  <2>6. \A r \in Requests : Held(r)' => Held(r)
    BY <2>1, <1>t DEF Held
  <2> QED BY <2>1, <2>3, <2>4, <2>5, <2>6, OrderShrinks
<1>7. ASSUME NEW t \in ToolCalls, UNCHANGED <<accepted, sent, wpc, wreq, queue>>,
             Ordered(rpmQueue', Workers, HeldBefore),
             \A w \in Workers : In(rpmQueue', w) <=> In(rpmQueue, w)
      PROVE  OrderInv'
  <2>1. Before' = Before
    BY <1>7 DEF Before
  <2>2. HeldBefore' = HeldBefore /\ AtLimiter' = AtLimiter
    BY <2>1, <1>7 DEF HeldBefore, AtLimiter
  <2>3. \A q : Held(q)' <=> Held(q)
    BY <1>7 DEF Held
  <2> QED BY <2>1, <2>2, <2>3, <1>7 DEF OrderInv
<1>8. ASSUME NEW t \in ToolCalls, ToolStarts(t) PROVE OrderInv'
  <2>1. rpmQueue' = Append(rpmQueue, t) /\ UNCHANGED <<accepted, sent, wpc, wreq, queue>>
    BY <1>8 DEF ToolStarts, callVars, workerVars
  <2> DEFINE E == Workers \cup ToolCalls
             B == HeldBefore
  <2>2. t \in E /\ t \notin Workers /\ rpmQueue \in Seq(E) /\ Ordered(rpmQueue, Workers, B)
    BY <1>t, <1>o
  <2> HIDE DEF E, B
  <2>3. Ordered(Append(rpmQueue, t), Workers, B)
    BY <2>2, OrderedAppend
  <2>4. \A w \in Workers : In(rpmQueue', w) <=> In(rpmQueue, w)
    BY <2>1, <2>2, InAppend
  <2> QED BY <2>1, <2>3, <2>4, <1>7 DEF B
<1>9. ASSUME NEW t \in ToolCalls, ToolSends(t) PROVE OrderInv'
  <2>1. /\ rpmQueue # <<>> /\ Head(rpmQueue) = t /\ rpmQueue' = Tail(rpmQueue)
        /\ UNCHANGED <<accepted, sent, wpc, wreq, queue>>
    BY <1>9 DEF ToolSends, callVars, workerVars
  <2>2. Ordered(rpmQueue', Workers, HeldBefore)
    BY <2>1, <1>t, <1>o, OrderedTail
  <2>3. \A w \in Workers : In(rpmQueue', w) <=> In(rpmQueue, w)
    BY <2>1, <1>t, InTail
  <2> QED BY <2>1, <2>2, <2>3, <1>7
<1>10. ASSUME NEW t \in ToolCalls, CancelTool(t) PROVE OrderInv'
  <2>1. UNCHANGED <<accepted, sent, wpc, wreq, queue>>
    BY <1>10 DEF CancelTool, callVars, workerVars
  <2>2. CASE UNCHANGED rpmQueue
    BY <2>1, <2>2, <1>7, <1>o
  <2>3. CASE \E i \in DOMAIN rpmQueue :
               /\ rpmQueue[i] = t
               /\ rpmQueue' = SubSeq(rpmQueue, 1, i - 1)
                                \o SubSeq(rpmQueue, i + 1, Len(rpmQueue))
    <3>1. PICK i \in DOMAIN rpmQueue :
            /\ rpmQueue[i] = t
            /\ rpmQueue' = SubSeq(rpmQueue, 1, i - 1)
                             \o SubSeq(rpmQueue, i + 1, Len(rpmQueue))
      BY <2>3
    <3> DEFINE E == Workers \cup ToolCalls
               B == HeldBefore
    <3>2. rpmQueue[i] \notin Workers /\ rpmQueue \in Seq(E) /\ Ordered(rpmQueue, Workers, B)
      BY <3>1, <1>t, <1>o
    <3> HIDE DEF E, B
    <3>3. /\ Ordered(rpmQueue', Workers, B)
          /\ \A w \in Workers : In(rpmQueue', w) <=> In(rpmQueue, w)
      BY <3>1, <3>2, OrderedRemove
    <3> QED BY <2>1, <3>3, <1>7 DEF B
  <2> QED BY <1>10, <2>2, <2>3 DEF CancelTool
<1>11. ASSUME NEW r \in Requests,
              \/ CallRefused(r) \/ CallStarts(r) \/ CancelCall(r)
              \/ CallQuota(r) \/ CallEnqueued(r) \/ CallSettled(r) \/ CallEnds(r)
       PROVE  UNCHANGED <<accepted, sent, wpc, rpmQueue, queue, wreq>>
  BY <1>11 DEF CallRefused, CallStarts, CancelCall, CallQuota, CallEnqueued, CallSettled,
               CallEnds, workerVars
<1>12. ASSUME NEW t \in ToolCalls, ToolRefused(t) \/ ToolAnswers(t)
       PROVE  UNCHANGED <<accepted, sent, wpc, rpmQueue, queue, wreq>>
  BY <1>12 DEF ToolRefused, ToolAnswers, ToolEnds, callVars, workerVars
<1>13. ASSUME CloseStarts \/ CloseEnds \/ UNCHANGED vars
       PROVE  UNCHANGED <<accepted, sent, wpc, rpmQueue, queue, wreq>>
  BY <1>13 DEF CloseStarts, CloseEnds, vars, callVars, workerVars
<1> QED BY <1>1, <1>2, <1>3, <1>4, <1>5, <1>6, <1>8, <1>9, <1>10, <1>11, <1>12, <1>13,
           OrderStutter
        DEF Next, UserSteps, SystemSteps, CallSteps, Takes, CloseSteps

LEMMA BeforeIsPosition ==
  ASSUME TypeOK, Unique(accepted, Requests), NEW r \in Requests, NEW q \in Requests,
         <<r, q>> \in Before
  PROVE  Position(accepted, r) < Position(accepted, q)
<1>1. PICK i, j \in DOMAIN accepted : i < j /\ accepted[i] = r /\ accepted[j] = q
  BY DEF Before
<1>2. \A k \in DOMAIN accepted : accepted[k] \in Requests
  BY DEF TypeOK
<1>3. /\ \A k \in DOMAIN accepted : accepted[k] = r => k = i
      /\ \A k \in DOMAIN accepted : accepted[k] = q => k = j
  BY <1>1, <1>2 DEF Unique
<1>4. Position(accepted, r) = i /\ Position(accepted, q) = j
  BY <1>1, <1>3 DEF Position
<1> QED BY <1>1, <1>4

\* The scheduler is fair between its callers: whichever workers take the requests, they
\* reach the provider in the order in which they got into the queue.
THEOREM SentOrdered == Spec => []SentInOrder
<1>1. Init => OrderInv
  BY InEmpty DEF Init, OrderInv, Unique, Ordered, AtLimiter, Held
<1>2. TypeOK /\ OrderInv => SentInOrder
  <2> SUFFICES ASSUME TypeOK, OrderInv, NEW i \in DOMAIN sent, NEW j \in DOMAIN sent, i < j
               PROVE  Position(accepted, sent[i]) < Position(accepted, sent[j])
    BY DEF SentInOrder
  <2>1. sent[i] \in Requests /\ sent[j] \in Requests
    BY DEF TypeOK
  <2>2. <<sent[i], sent[j]>> \in Before /\ Unique(accepted, Requests)
    BY <2>1 DEF OrderInv, Ordered
  <2> QED BY <2>1, <2>2, BeforeIsPosition
<1>3. TypeOK /\ RequestInv /\ OrderInv /\ [Next]_vars => OrderInv'
  BY OrderStep DEF RequestInv
<1> QED BY <1>1, <1>2, <1>3, TypeCorrect, RequestsSafe, PTL DEF Spec

-----------------------------------------------------------------------------
(* The service that the callers see                                        *)

LEMMA AnswerStep == TypeOK /\ AnswerInv /\ [Next]_vars => AnswerInv'
<1> SUFFICES ASSUME TypeOK, AnswerInv, [Next]_vars PROVE AnswerInv'
  OBVIOUS
<1>t. /\ call \in [Requests -> {"idle"} \cup InFlight \cup Ended]
      /\ fut \in [Requests -> {"none", "pending", "result", "error", "quota", "cancelled"}]
  BY DEF TypeOK
<1> USE DEF InFlight, Ended, AnswerInv
<1>1. ASSUME NEW r \in Requests, CallRefused(r) \/ CallStarts(r) \/ CancelCall(r)
      PROVE  AnswerInv'
  BY <1>1, <1>t DEF CallRefused, CallStarts, CancelCall
<1>2. ASSUME NEW r \in Requests,
             CallQuota(r) \/ CallEnqueued(r) \/ CallSettled(r) \/ CallEnds(r)
      PROVE  AnswerInv'
  BY <1>2, <1>t DEF CallQuota, CallEnqueued, CallSettled, CallEnds, Outcome
<1>3. ASSUME call' = call,
             fut' \in [Requests -> {"none", "pending", "result", "error", "quota", "cancelled"}],
             \A q \in Requests :
               fut'[q] = fut[q] \/ (fut[q] = "pending" /\ fut'[q] \in {"result", "error", "quota"})
      PROVE  AnswerInv'
  BY <1>3, <1>t
<1>4. ASSUME NEW w \in Workers, WorkerRefuses(w) PROVE AnswerInv'
  BY <1>4, <1>t, <1>3 DEF WorkerRefuses
<1>5. ASSUME NEW w \in Workers, Answers(w) PROVE AnswerInv'
  <2>1. ASSUME NEW f \in {"result", "error"}, ProviderAnswers(w, f) PROVE AnswerInv'
    BY <2>1, <1>t, <1>3 DEF ProviderAnswers
  <2>2. ASSUME ProviderQuota(w) PROVE AnswerInv'
    <3> DEFINE f == [fut EXCEPT ![wreq[w]] = IF @ = "pending" THEN "quota" ELSE @]
    <3>1. call' = call /\ fut' \in {f, Drained(f)}
      BY <2>2 DEF ProviderQuota
    <3>2. \A q \in Requests : f[q] = fut[q] \/ (fut[q] = "pending" /\ f[q] = "quota")
      BY <1>t
    <3>3. /\ f \in [Requests -> {"none", "pending", "result", "error", "quota", "cancelled"}]
          /\ Drained(f)
               \in [Requests -> {"none", "pending", "result", "error", "quota", "cancelled"}]
      BY <1>t DEF Drained
    <3>4. \A q \in Requests :
            Drained(f)[q] = f[q] \/ (f[q] = "pending" /\ Drained(f)[q] = "quota")
      BY DEF Drained
    <3> HIDE DEF f
    <3> QED BY <3>1, <3>2, <3>3, <3>4, <1>3
  <2> QED BY <1>5, <2>1, <2>2 DEF Answers
<1>6. ASSUME UNCHANGED <<call, fut>> PROVE AnswerInv'
  BY <1>6
<1>7. ASSUME \/ \E r \in Requests : PutDone(r)
             \/ \E w \in Workers : WorkerExits(w) \/ WorkerDrops(w) \/ WorkerTakes(w)
                                     \/ WorkerSends(w)
             \/ \E t \in ToolCalls : ToolRefused(t) \/ ToolStarts(t) \/ CancelTool(t)
                                       \/ ToolSends(t) \/ ToolAnswers(t)
             \/ CloseStarts \/ CloseSteps \/ UNCHANGED vars
      PROVE  UNCHANGED <<call, fut>>
  BY <1>7 DEF PutDone, WorkerExits, WorkerDrops, WorkerTakes, WorkerSends, ToolRefused,
              ToolStarts, CancelTool, ToolSends, ToolAnswers, ToolEnds, CloseStarts,
              CloseSteps, PutSentinel, CloseEnds, callVars, vars
<1> QED BY <1>1, <1>2, <1>4, <1>5, <1>6, <1>7
        DEF Next, UserSteps, SystemSteps, CallSteps, Takes

\* What a step on one call or one future is to the caller.
LEMMA SeenMoves ==
  ASSUME TypeOK, NEW r \in Requests
  PROVE  /\ \A x : call' = [call EXCEPT ![r] = x] =>
              CallsSeen' = [CallsSeen EXCEPT ![r] = IF x \in InFlight THEN "open" ELSE x]
         /\ \A x : fut' = [fut EXCEPT ![r] = x] =>
              AnswersSeen' = [AnswersSeen EXCEPT ![r] = IF x = "pending" THEN "none" ELSE x]
         /\ call' = call => CallsSeen' = CallsSeen
         /\ fut' = fut => AnswersSeen' = AnswersSeen
         /\ sent' = sent => AskedSeen' = AskedSeen
BY DEF TypeOK, CallsSeen, AnswersSeen, AskedSeen, In

\* What the caller sees of a call.
LEMMA Seen ==
  ASSUME TypeOK, NEW r \in Requests
  PROVE  /\ CallsSeen[r] = (IF call[r] \in InFlight THEN "open" ELSE call[r])
         /\ AnswersSeen[r] = (IF fut[r] = "pending" THEN "none" ELSE fut[r])
         /\ r \in AskedSeen <=> In(sent, r)
BY DEF TypeOK, CallsSeen, AnswersSeen, AskedSeen

seen == <<CallsSeen, AnswersSeen, AskedSeen, quotaError>>

\* The steps of the callers.
LEMMA CallerServed ==
  ASSUME TypeOK, AnswerInv, NEW r \in Requests,
         \/ CallRefused(r) \/ CallStarts(r) \/ CancelCall(r) \/ CallSteps(r)
  PROVE  Service!ServiceSteps(r) \/ UNCHANGED seen
<1>t. call[r] \in {"idle"} \cup InFlight \cup Ended /\ fut[r] \in {"none", "pending", "result", "error", "quota", "cancelled"}
  BY DEF TypeOK
<1> USE DEF InFlight, Service!Ends
<1>1. CASE CallRefused(r)
  <2>1. Service!Refused(r)
    BY <1>1, Seen, SeenMoves DEF CallRefused, workerVars, Service!Refused
  <2> QED BY <2>1 DEF Service!ServiceSteps
<1>2. CASE CallStarts(r)
  <2>1. AnswersSeen' = [AnswersSeen EXCEPT ![r] = "none"] /\ AnswersSeen[r] = "none"
    BY <1>2, Seen, SeenMoves DEF CallStarts, AnswerInv
  <2>2. AnswersSeen' = AnswersSeen
    BY <2>1 DEF AnswersSeen
  <2>3. Service!Begins(r)
    BY <1>2, <2>2, Seen, SeenMoves DEF CallStarts, workerVars, Service!Begins
  <2> QED BY <2>3 DEF Service!ServiceSteps
<1>3. CASE CancelCall(r) \/ CallQuota(r)
  <2>1. CASE call[r] \in {"putting", "waiting"} /\ call'[r] \in Ended
    <3>1. /\ CallsSeen[r] = "open" /\ sent' = sent /\ quotaError' = quotaError
          /\ call' = [call EXCEPT ![r] = "cancelled"]
             \/ (quotaError /\ FailFast /\ call' = [call EXCEPT ![r] = "quota"])
          /\ fut' = [fut EXCEPT ![r] = IF fut[r] = "pending" THEN "cancelled" ELSE fut[r]]
      BY <1>3, <2>1, <1>t, Seen DEF CancelCall, CallQuota, workerVars, Ended, TypeOK
    <3>2. AnswersSeen' = [AnswersSeen EXCEPT ![r] = IF fut[r] = "pending" THEN "cancelled" ELSE fut[r]]
      BY <3>1, SeenMoves
    <3>3. AnswersSeen[r] = "none" <=> fut[r] = "pending"
      BY <2>1, Seen DEF AnswerInv
    <3>4. AnswersSeen[r] # "none" => AnswersSeen[r] = fut[r]
      BY <3>3, Seen
    <3>5. Service!Withdraws(r)
      BY <3>2, <3>3, <3>4 DEF Service!Withdraws
    <3>6. Service!Leaves(r)
      BY <3>1, <3>5, SeenMoves DEF Service!Leaves
    <3> QED BY <3>6 DEF Service!ServiceSteps
  <2>2. CASE call[r] = "settling"
    <3>1. CallsSeen' = [CallsSeen EXCEPT ![r] = "open"] /\ CallsSeen[r] = "open"
      BY <1>3, <2>2, Seen, SeenMoves DEF CancelCall, CallQuota
    <3>2. CallsSeen' = CallsSeen
      BY <3>1 DEF CallsSeen
    <3> QED BY <3>2, <1>3, <2>2, SeenMoves DEF CancelCall, CallQuota, workerVars, seen
  <2> QED BY <1>3, <2>1, <2>2 DEF CancelCall, CallQuota, Ended, TypeOK
<1>4. CASE PutDone(r)
  BY <1>4, SeenMoves DEF PutDone, workerVars, seen
<1>5. CASE CallEnqueued(r) \/ CallSettled(r)
  <2>1. CallsSeen' = [CallsSeen EXCEPT ![r] = "open"] /\ CallsSeen[r] = "open"
    BY <1>5, Seen, SeenMoves DEF CallEnqueued, CallSettled
  <2>2. CallsSeen' = CallsSeen
    BY <2>1 DEF CallsSeen
  <2> QED BY <2>2, <1>5, SeenMoves DEF CallEnqueued, CallSettled, workerVars, seen
<1>6. CASE CallEnds(r)
  <2>1. fut[r] \in {"result", "error", "quota"} /\ call[r] = "waiting"
    BY <1>6, <1>t DEF CallEnds, AnswerInv
  <2>2. Outcome(fut[r]) \notin InFlight
    BY <2>1 DEF Outcome
  <2>3. CallsSeen' = [CallsSeen EXCEPT ![r] = Outcome(fut[r])]
    BY <1>6, <2>2, SeenMoves DEF CallEnds
  <2>4. UNCHANGED <<AnswersSeen, AskedSeen, quotaError>>
    BY <1>6, SeenMoves DEF CallEnds, workerVars
  <2>5. Service!Gets(r)
    BY <2>1, <2>3, <2>4, Seen DEF Outcome, Service!Gets
  <2> QED BY <2>5 DEF Service!ServiceSteps
<1> QED BY <1>1, <1>2, <1>3, <1>4, <1>5, <1>6 DEF CallSteps

\* The steps of the workers and of the provider.
LEMMA WorkerServed ==
  ASSUME TypeOK, PlaceInv, CallInv, AnswerInv, NEW w \in Workers,
         Takes(w) \/ WorkerSends(w) \/ Answers(w)
  PROVE  (\E r \in Requests : Service!ServiceSteps(r)) \/ UNCHANGED seen
<1>t. /\ call \in [Requests -> {"idle"} \cup InFlight \cup Ended]
      /\ fut \in [Requests -> {"none", "pending", "result", "error", "quota", "cancelled"}]
      /\ queue \in Seq(Requests \cup {Sentinel}) /\ sent \in Seq(Requests)
      /\ wreq \in [Workers -> Requests \cup {NoRequest}]
      /\ \A v \in Workers : wreq[v] # NoRequest <=> wpc[v] \in {"rpm", "calling"}
  BY DEF TypeOK
\* Whose future is pending waits for it.
<1>w. \A r \in Requests : fut[r] = "pending" => Service!Waits(r)
  BY Seen DEF CallInv, NoOrphanFuture, Service!Waits
<1>v. \A r \in Requests : Service!Waits(r) => fut[r] = "pending"
  BY Seen, <1>t DEF AnswerInv, Service!Waits, InFlight, Ended
<1>1. CASE WorkerExits(w) \/ WorkerDrops(w) \/ WorkerTakes(w)
  <2>1. UNCHANGED <<call, fut, sent, quotaError>>
    BY <1>1 DEF WorkerExits, WorkerDrops, WorkerTakes, callVars, workerVars
  <2> QED BY <2>1 DEF seen, CallsSeen, AnswersSeen, AskedSeen, In
<1>2. CASE WorkerRefuses(w)
  <2> DEFINE h == Head(queue)
  <2>1. /\ h \in Requests /\ quotaError /\ FailFast
        /\ fut' = [fut EXCEPT ![h] = IF fut[h] = "pending" THEN "quota" ELSE fut[h]]
        /\ UNCHANGED <<call, sent, quotaError>>
    BY <1>2, <1>t DEF WorkerRefuses, workerVars
  <2> HIDE DEF h
  <2>2. CASE fut[h] = "pending"
    <3>1. Service!Told(h)
      BY <2>1, <2>2, <1>w, SeenMoves DEF Service!Told
    <3> QED BY <2>1, <3>1 DEF Service!ServiceSteps
  <2>3. CASE fut[h] # "pending"
    <3>1. fut' = fut
      BY <2>1, <2>3, <1>t
    <3> QED BY <2>1, <3>1, SeenMoves DEF seen
  <2> QED BY <2>2, <2>3
<1>3. CASE WorkerSends(w)
  <2> DEFINE h == wreq[w]
  <2>1. /\ h \in Requests /\ wpc[w] = "rpm" /\ sent' = Append(sent, h)
        /\ UNCHANGED <<call, fut, quotaError>>
    BY <1>3, <1>t DEF WorkerSends, callVars
  <2>2. ~In(sent, h) /\ In(accepted, h)
    BY <2>1, <1>t DEF PlaceInv, Held
  <2>3. call[h] \notin {"idle", "returned", "failed"}
    BY <2>1, <2>2 DEF CallInv, AnswersAreReal
  <2> HIDE DEF h
  <2>4. \A q \in Requests : In(sent', q) <=> In(sent, q) \/ q = h
    BY <2>1, <1>t, InAppend
  <2>5. AskedSeen' = AskedSeen \cup {h}
    BY <2>1, <2>4 DEF AskedSeen
  <2>6. CallsSeen[h] \notin {"idle", "returned", "failed"}
    BY <2>1, <2>3, Seen
  <2>7. Service!Asked(h)
    BY <2>1, <2>2, <2>5, <2>6, Seen, SeenMoves DEF Service!Asked
  <2> QED BY <2>1, <2>7 DEF Service!ServiceSteps
<1>4. ASSUME Answers(w)
      PROVE  /\ wreq[w] \in Requests /\ In(sent, wreq[w])
             /\ UNCHANGED <<call, sent>>
  <2>1. wpc[w] = "calling" /\ UNCHANGED <<call, sent>>
    BY <1>4 DEF Answers, ProviderAnswers, ProviderQuota
  <2> QED BY <2>1, <1>t DEF PlaceInv
<1>5. ASSUME NEW f \in {"result", "error"}, ProviderAnswers(w, f)
      PROVE  (\E r \in Requests : Service!ServiceSteps(r)) \/ UNCHANGED seen
  <2> DEFINE h == wreq[w]
  <2>1. /\ h \in Requests /\ In(sent, h) /\ UNCHANGED <<call, sent, quotaError>>
        /\ fut' = [fut EXCEPT ![h] = IF fut[h] = "pending" THEN f ELSE fut[h]]
    BY <1>4, <1>5 DEF Answers, ProviderAnswers
  <2> HIDE DEF h
  <2>2. CASE fut[h] = "pending"
    <3>1. AnswersSeen' = [AnswersSeen EXCEPT ![h] = f]
      BY <2>1, <2>2, SeenMoves
    <3>2. Service!Answered(h)
      BY <2>1, <2>2, <3>1, <1>w, Seen, SeenMoves DEF Service!Answered
    <3> QED BY <2>1, <3>2 DEF Service!ServiceSteps
  <2>3. CASE fut[h] # "pending"
    <3>1. fut' = fut
      BY <2>1, <2>3, <1>t
    <3> QED BY <2>1, <3>1, SeenMoves DEF seen
  <2> QED BY <2>2, <2>3
<1>6. ASSUME ProviderQuota(w)
      PROVE  \E r \in Requests : Service!ServiceSteps(r)
  <2> DEFINE h == wreq[w]
             told == {q \in Requests : fut[q] = "pending" /\ (q = h \/ (FailFast /\ In(queue, q)))}
  <2>1. /\ h \in Requests /\ In(sent, h) /\ UNCHANGED <<call, sent>> /\ quotaError' = TRUE
    BY <1>4, <1>6 DEF Answers, ProviderQuota
  <2>2. \A q \in Requests : fut'[q] = IF q \in told THEN "quota" ELSE fut[q]
    <3>1. CASE FailFast
      BY <3>1, <1>6, <1>t DEF ProviderQuota, Drained
    <3>2. CASE ~FailFast
      BY <3>2, <1>6, <1>t DEF ProviderQuota
    <3> QED BY <3>1, <3>2, FailFastAssumption
  <2>3. AnswersSeen' = [q \in Requests |-> IF q \in told THEN "quota" ELSE AnswersSeen[q]]
    BY <2>2 DEF AnswersSeen
  <2>4. told \subseteq {q \in Requests : Service!Waits(q)} /\ (Service!Waits(h) => h \in told)
    BY <2>1, <1>w, <1>v
  <2>5. FailFast \/ told \subseteq {h}
    OBVIOUS
  <2>6. CallsSeen' = CallsSeen /\ AskedSeen' = AskedSeen /\ h \in AskedSeen
    BY <2>1, Seen, SeenMoves
  <2> HIDE DEF h, told
  <2>7. Service!Exhausted(h)
    BY <2>1, <2>3, <2>4, <2>5, <2>6 DEF Service!Exhausted
  <2> QED BY <2>1, <2>7 DEF Service!ServiceSteps
<1> QED BY <1>1, <1>2, <1>3, <1>5, <1>6 DEF Takes, Answers

\* The scheduler implements the service, with any number of workers, any queue and in
\* either mode.
THEOREM ServiceKept == Spec => KeepsService
<1>1. Init => AnswerInv
  BY DEF Init, AnswerInv, InFlight
<1>2. Init => Service!ServiceInit
  <2> SUFFICES ASSUME Init PROVE Service!ServiceInit
    OBVIOUS
  <2>1. \A r \in Requests : ~In(sent, r)
    BY InEmpty DEF Init
  <2>2. AskedSeen = {}
    BY <2>1 DEF AskedSeen
  <2> QED BY <2>2 DEF Init, InFlight, CallsSeen, AnswersSeen, Service!ServiceInit
<1>3. TypeOK /\ RequestInv /\ AnswerInv /\ [Next]_vars
        => [\E r \in Requests : Service!ServiceSteps(r)]_Service!serviceVars
  <2> SUFFICES ASSUME TypeOK, RequestInv, AnswerInv, [Next]_vars
               PROVE  (\E r \in Requests : Service!ServiceSteps(r)) \/ UNCHANGED seen
    BY DEF seen, Service!serviceVars
  <2>1. ASSUME \/ \E t \in ToolCalls : ToolRefused(t) \/ ToolStarts(t) \/ CancelTool(t)
                                         \/ ToolSends(t) \/ ToolAnswers(t)
               \/ CloseStarts \/ CloseSteps \/ UNCHANGED vars
        PROVE  UNCHANGED <<call, fut, sent, quotaError>>
    BY <2>1 DEF ToolRefused, ToolStarts, CancelTool, ToolSends, ToolAnswers, ToolEnds,
                CloseStarts, CloseSteps, PutSentinel, CloseEnds, callVars, workerVars, vars
  <2>2. ASSUME UNCHANGED <<call, fut, sent, quotaError>> PROVE UNCHANGED seen
    BY <2>2 DEF seen, CallsSeen, AnswersSeen, AskedSeen, In
  <2> QED BY <2>1, <2>2, CallerServed, WorkerServed
          DEF RequestInv, Next, UserSteps, SystemSteps
<1> QED BY <1>1, <1>2, <1>3, AnswerStep, TypeCorrect, RequestsSafe, PTL
        DEF Spec, KeepsService, Service!ServiceSpec
=============================================================================
