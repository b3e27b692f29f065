----------------------------- MODULE Scheduler -----------------------------
(***************************************************************************)
(* LlmRequestScheduler (providers/scheduler.py): a bounded asyncio queue   *)
(* in front of an LLM provider, worker tasks that serve it, a FIFO lock    *)
(* that spaces the requests, the quota error that is shared by every call, *)
(* and the close() that stops the workers with sentinels.                  *)
(*                                                                         *)
(* asyncio runs one task at a time and switches only at an await, so an    *)
(* action is the code from one await to the next.  The clock is left out:  *)
(* a sleep of the rate limiter ends when it ends (RateLimits.tla has the   *)
(* times).  The counters of SchedulerStats are only logged.  What must     *)
(* happen in the end is in SchedulerModes.tla.                             *)
(***************************************************************************)
EXTENDS Naturals, Sequences, FiniteSets

CONSTANTS
  Requests,    \* the calls of generate_structured, one element per call
  ToolCalls,   \* the calls of generate_with_tools
  Workers,     \* the scheduler_workers tasks
  QueueMax,    \* queue_max_size
  FailFast,    \* quota_exhausted_mode = FAIL_FAST
  Sentinel,    \* the None that close() puts in the queue
  NoRequest    \* a worker that holds no request

ASSUME QueueMaxAssumption == QueueMax \in Nat \ {0}
ASSUME WorkersAssumption == IsFiniteSet(Workers) /\ Workers # {}
ASSUME FailFastAssumption == FailFast \in BOOLEAN
ASSUME DistinctAssumption ==
  /\ Sentinel \notin Requests
  /\ NoRequest \notin Requests
  /\ Workers \cap ToolCalls = {}

VARIABLES
  call,        \* where each generate_structured call stands
  fut,         \* the asyncio.Future of each request
  queue,       \* self._queue
  quotaError,  \* self.quota_error is set (and with it self._quota_event)
  wpc,         \* where each worker task stands
  wreq,        \* the request each worker holds
  rpmQueue,    \* the holder of self._rpm_lock and its waiters, in order
  tpc,         \* where each generate_with_tools call stands
  closer,      \* where close() stands
  toPut,       \* sentinels close() has still to put
  accepted,    \* history: the requests put in the queue, in order
  sent,        \* history: the requests given to the provider, in order
  lateSends,   \* history: how many of them after the quota was exhausted
  cancelReq    \* history: the calls whose task was cancelled while in flight

vars == <<call, fut, queue, quotaError, wpc, wreq, rpmQueue, tpc, closer, toPut,
          accepted, sent, lateSends, cancelReq>>

callVars   == <<call, fut, accepted, cancelReq>>
workerVars == <<wpc, wreq, sent, lateSends>>
closeVars  == <<closer, toPut>>

InFlight == {"putting", "settling", "waiting"}
Ended    == {"returned", "quota", "failed", "cancelled"}

In(seq, e) == \E i \in DOMAIN seq : seq[i] = e

Full == Len(queue) >= QueueMax

\* The exception an awaited future raises, or its result, ends the call.
Outcome(f) == CASE f = "result" -> "returned"
                [] f = "quota"  -> "quota"
                [] f = "error"  -> "failed"
                [] OTHER        -> "cancelled"

Init ==
  /\ call = [r \in Requests |-> "idle"]
  /\ fut = [r \in Requests |-> "none"]
  /\ queue = <<>>
  /\ quotaError = FALSE
  /\ wpc = [w \in Workers |-> "get"]
  /\ wreq = [w \in Workers |-> NoRequest]
  /\ rpmQueue = <<>>
  /\ tpc = [t \in ToolCalls |-> "idle"]
  /\ closer = "open"
  /\ toPut = 0
  /\ accepted = <<>>
  /\ sent = <<>>
  /\ lateSends = 0
  /\ cancelReq = {}

-----------------------------------------------------------------------------
(* Faulty variants of the actions below: bugs the properties would find.   *)
(* No part of the specification.                                           *)

\* of CallStarts: the quota is not looked at
StartsUnchecked(r) ==
  /\ call[r] = "idle"
  /\ call' = [call EXCEPT ![r] = "putting"]
  /\ fut' = [fut EXCEPT ![r] = "pending"]
  /\ UNCHANGED <<accepted, cancelReq, queue, quotaError, rpmQueue, tpc>>
  /\ UNCHANGED <<workerVars, closeVars>>

\* of CallQuota: the future is left to be answered
QuotaLeavesFuture(r) ==
  /\ call[r] = "putting"
  /\ quotaError /\ FailFast
  /\ call' = [call EXCEPT ![r] = "quota"]
  /\ UNCHANGED <<fut, accepted, cancelReq, queue, quotaError, rpmQueue, tpc>>
  /\ UNCHANGED <<workerVars, closeVars>>

\* of WorkerRefuses: f in place of the quota error
RefusedWith(w, f) ==
  /\ wpc[w] = "get"
  /\ queue # <<>> /\ Head(queue) # Sentinel
  /\ fut[Head(queue)] # "cancelled"
  /\ quotaError /\ FailFast
  /\ queue' = Tail(queue)
  /\ fut' = [fut EXCEPT ![Head(queue)] = f]
  /\ UNCHANGED <<workerVars, quotaError, rpmQueue, tpc>>
  /\ UNCHANGED <<call, accepted, cancelReq, closeVars>>

RefusedAsError(w) == RefusedWith(w, "error")
RefusedSilently(w) == RefusedWith(w, "pending")

\* of WorkerTakes: the request may stay in the queue, or the quota is not looked at
TakesLeaving(w, rest) ==
  /\ wpc[w] = "get"
  /\ queue # <<>> /\ Head(queue) # Sentinel
  /\ fut[Head(queue)] # "cancelled"
  /\ queue' = rest
  /\ wpc' = [wpc EXCEPT ![w] = "rpm"]
  /\ wreq' = [wreq EXCEPT ![w] = Head(queue)]
  /\ rpmQueue' = Append(rpmQueue, w)
  /\ UNCHANGED <<sent, lateSends, quotaError, tpc>>
  /\ UNCHANGED <<callVars, closeVars>>

TakesUnchecked(w) == TakesLeaving(w, Tail(queue))
TakesACopy(w) == ~(quotaError /\ FailFast) /\ TakesLeaving(w, queue)

\* of WorkerSends: not in the order of the lock
SendsOutOfTurn(w) ==
  /\ wpc[w] = "rpm"
  /\ rpmQueue' = SelectSeq(rpmQueue, LAMBDA u : u # w)
  /\ wpc' = [wpc EXCEPT ![w] = "calling"]
  /\ sent' = Append(sent, wreq[w])
  /\ lateSends' = IF quotaError THEN lateSends + 1 ELSE lateSends
  /\ UNCHANGED <<wreq, queue, quotaError, tpc>>
  /\ UNCHANGED <<callVars, closeVars>>

\* of WorkerSends: the lock is kept
SendsLocked(w) ==
  /\ wpc[w] = "rpm"
  /\ rpmQueue # <<>> /\ Head(rpmQueue) = w
  /\ wpc' = [wpc EXCEPT ![w] = "calling"]
  /\ sent' = Append(sent, wreq[w])
  /\ lateSends' = IF quotaError THEN lateSends + 1 ELSE lateSends
  /\ UNCHANGED <<wreq, queue, quotaError, rpmQueue, tpc>>
  /\ UNCHANGED <<callVars, closeVars>>

\* of ProviderAnswers: the worker keeps its request
AnsweredStillHeld(w, f) ==
  /\ wpc[w] = "calling"
  /\ fut' = [fut EXCEPT ![wreq[w]] = IF @ = "pending" THEN f ELSE @]
  /\ wpc' = [wpc EXCEPT ![w] = "get"]
  /\ UNCHANGED <<call, accepted, cancelReq, wreq, sent, lateSends>>
  /\ UNCHANGED <<queue, quotaError, rpmQueue, tpc>>
  /\ UNCHANGED closeVars

\* of Drained: the futures stay pending
DrainedSilently(f) == f

\* of ProviderQuota: the queue is drained in every mode
QuotaAlwaysDrains(w) ==
  /\ wpc[w] = "calling"
  /\ quotaError' = TRUE
  /\ fut' = [r \in Requests |->
               IF fut[r] = "pending" /\ (r = wreq[w] \/ In(queue, r))
               THEN "quota" ELSE fut[r]]
  /\ queue' = <<>>
  /\ wpc' = [wpc EXCEPT ![w] = "get"]
  /\ wreq' = [wreq EXCEPT ![w] = NoRequest]
  /\ UNCHANGED <<call, accepted, cancelReq, sent, lateSends, rpmQueue, tpc>>
  /\ UNCHANGED closeVars

\* of CloseStarts: one sentinel too few
CloseForgetsOne ==
  /\ closer = "open"
  /\ toPut' = Cardinality(Workers) - 1
  /\ closer' = IF toPut' = 0 THEN "joining" ELSE "putting"
  /\ UNCHANGED <<queue, quotaError, rpmQueue, tpc>>
  /\ UNCHANGED <<callVars, workerVars>>

-----------------------------------------------------------------------------
(* generate_structured                                                     *)

\* A call is refused at once when the quota is known to be exhausted and the
\* mode is fail_fast.
CallRefused(r) ==
  /\ call[r] = "idle"
  /\ quotaError /\ FailFast
  /\ call' = [call EXCEPT ![r] = "quota"]
  /\ UNCHANGED <<fut, accepted, cancelReq, queue, quotaError, rpmQueue, tpc>>
  /\ UNCHANGED <<workerVars, closeVars>>

\* Otherwise it creates its future and the two tasks it waits for: the put
\* and the quota event.
CallStarts(r) ==
  /\ call[r] = "idle"
  /\ ~(quotaError /\ FailFast)
  /\ call' = [call EXCEPT ![r] = "putting"]
  /\ fut' = [fut EXCEPT ![r] = "pending"]
  /\ UNCHANGED <<accepted, cancelReq, queue, quotaError, rpmQueue, tpc>>
  /\ UNCHANGED <<workerVars, closeVars>>

\* The put task finds room.  A put that was woken and one that comes fresh
\* compete for the slot, so any of them may take it.
PutDone(r) ==
  /\ call[r] = "putting"
  /\ ~In(accepted, r)
  /\ ~Full
  /\ queue' = Append(queue, r)
  /\ accepted' = Append(accepted, r)
  /\ UNCHANGED <<call, fut, cancelReq, quotaError, rpmQueue, tpc>>
  /\ UNCHANGED <<workerVars, closeVars>>

\* The caller wakes with the quota task done: it cancels the put and its own
\* future.  A put that had succeeded leaves the request in the queue.
CallQuota(r) ==
  /\ call[r] = "putting"
  /\ quotaError /\ FailFast
  /\ call' = [call EXCEPT ![r] = "quota"]
  /\ fut' = [fut EXCEPT ![r] = IF @ = "pending" THEN "cancelled" ELSE @]
  /\ UNCHANGED <<accepted, cancelReq, queue, quotaError, rpmQueue, tpc>>
  /\ UNCHANGED <<workerVars, closeVars>>

\* The caller wakes with the put done and, as far as it sees, no quota event:
\* it cancels the quota task and waits for it to end.
CallEnqueued(r) ==
  /\ call[r] = "putting"
  /\ In(accepted, r)
  /\ call' = [call EXCEPT ![r] = "settling"]
  /\ UNCHANGED <<fut, accepted, cancelReq, queue, quotaError, rpmQueue, tpc>>
  /\ UNCHANGED <<workerVars, closeVars>>

\* The quota task has ended; the caller goes on to await its future.
CallSettled(r) ==
  /\ call[r] = "settling"
  /\ call' = [call EXCEPT ![r] = "waiting"]
  /\ UNCHANGED <<fut, accepted, cancelReq, queue, quotaError, rpmQueue, tpc>>
  /\ UNCHANGED <<workerVars, closeVars>>

CallEnds(r) ==
  /\ call[r] = "waiting"
  /\ fut[r] # "pending"
  /\ call' = [call EXCEPT ![r] = Outcome(fut[r])]
  /\ UNCHANGED <<fut, accepted, cancelReq, queue, quotaError, rpmQueue, tpc>>
  /\ UNCHANGED <<workerVars, closeVars>>

\* The caller's task is cancelled.  While it puts or awaits the future it ends
\* and takes its future with it; the CancelledError that reaches it while it
\* waits for the quota task is the one the suppress() swallows.
CancelCall(r) ==
  /\ call[r] \in InFlight
  /\ r \notin cancelReq
  /\ cancelReq' = cancelReq \cup {r}
  /\ \/ /\ call[r] \in {"putting", "waiting"}
        /\ call' = [call EXCEPT ![r] = "cancelled"]
        /\ fut' = [fut EXCEPT ![r] = IF @ = "pending" THEN "cancelled" ELSE @]
     \/ /\ call[r] = "settling"
        /\ call' = [call EXCEPT ![r] = "waiting"]
        /\ UNCHANGED fut
  /\ UNCHANGED <<accepted, queue, quotaError, rpmQueue, tpc>>
  /\ UNCHANGED <<workerVars, closeVars>>

-----------------------------------------------------------------------------
(* _worker_loop, _wait_rpm and _drain_queue                                *)

\* A worker takes a sentinel and leaves its loop.
WorkerExits(w) ==
  /\ wpc[w] = "get"
  /\ queue # <<>> /\ Head(queue) = Sentinel
  /\ queue' = Tail(queue)
  /\ wpc' = [wpc EXCEPT ![w] = "exited"]
  /\ UNCHANGED <<wreq, sent, lateSends, quotaError, rpmQueue, tpc>>
  /\ UNCHANGED <<callVars, closeVars>>

\* A worker drops a request whose caller gave up.
WorkerDrops(w) ==
  /\ wpc[w] = "get"
  /\ queue # <<>> /\ Head(queue) # Sentinel
  /\ fut[Head(queue)] = "cancelled"
  /\ queue' = Tail(queue)
  /\ UNCHANGED <<workerVars, quotaError, rpmQueue, tpc>>
  /\ UNCHANGED <<callVars, closeVars>>

\* A worker refuses a request taken after the quota was exhausted.
WorkerRefuses(w) ==
  /\ wpc[w] = "get"
  /\ queue # <<>> /\ Head(queue) # Sentinel
  /\ fut[Head(queue)] # "cancelled"
  /\ quotaError /\ FailFast
  /\ queue' = Tail(queue)
  /\ fut' = [fut EXCEPT ![Head(queue)] = IF @ = "pending" THEN "quota" ELSE @]
  /\ UNCHANGED <<workerVars, quotaError, rpmQueue, tpc>>
  /\ UNCHANGED <<call, accepted, cancelReq, closeVars>>

\* A worker takes a request on and joins the waiters of the rate limiter.
WorkerTakes(w) ==
  /\ wpc[w] = "get"
  /\ queue # <<>> /\ Head(queue) # Sentinel
  /\ fut[Head(queue)] # "cancelled"
  /\ ~(quotaError /\ FailFast)
  /\ queue' = Tail(queue)
  /\ wpc' = [wpc EXCEPT ![w] = "rpm"]
  /\ wreq' = [wreq EXCEPT ![w] = Head(queue)]
  /\ rpmQueue' = Append(rpmQueue, w)
  /\ UNCHANGED <<sent, lateSends, quotaError, tpc>>
  /\ UNCHANGED <<callVars, closeVars>>

\* The holder of the lock has slept its interval: it leaves the lock and, with
\* no further look at the quota or at the future, calls the provider.
WorkerSends(w) ==
  /\ wpc[w] = "rpm"
  /\ rpmQueue # <<>> /\ Head(rpmQueue) = w
  /\ rpmQueue' = Tail(rpmQueue)
  /\ wpc' = [wpc EXCEPT ![w] = "calling"]
  /\ sent' = Append(sent, wreq[w])
  /\ lateSends' = IF quotaError THEN lateSends + 1 ELSE lateSends
  /\ UNCHANGED <<wreq, queue, quotaError, tpc>>
  /\ UNCHANGED <<callVars, closeVars>>

\* The provider answers, or fails with an error that is not about the quota.
ProviderAnswers(w, f) ==
  /\ wpc[w] = "calling"
  /\ fut' = [fut EXCEPT ![wreq[w]] = IF @ = "pending" THEN f ELSE @]
  /\ wpc' = [wpc EXCEPT ![w] = "get"]
  /\ wreq' = [wreq EXCEPT ![w] = NoRequest]
  /\ UNCHANGED <<call, accepted, cancelReq, sent, lateSends>>
  /\ UNCHANGED <<queue, quotaError, rpmQueue, tpc>>
  /\ UNCHANGED closeVars

\* What _drain_queue leaves of the futures: every pending one in the queue gets
\* the quota error.  The sentinels it finds are taken out as well.
Drained(f) ==
  [r \in Requests |-> IF In(queue, r) /\ f[r] = "pending" THEN "quota" ELSE f[r]]

\* The provider reports the quota exhausted.
ProviderQuota(w) ==
  /\ wpc[w] = "calling"
  /\ quotaError' = TRUE
  /\ LET f == [fut EXCEPT ![wreq[w]] = IF @ = "pending" THEN "quota" ELSE @]
     IN  IF FailFast
         THEN fut' = Drained(f) /\ queue' = <<>>
         ELSE fut' = f /\ UNCHANGED queue
  /\ wpc' = [wpc EXCEPT ![w] = "get"]
  /\ wreq' = [wreq EXCEPT ![w] = NoRequest]
  /\ UNCHANGED <<call, accepted, cancelReq, sent, lateSends, rpmQueue, tpc>>
  /\ UNCHANGED closeVars

-----------------------------------------------------------------------------
(* generate_with_tools: no queue, the same rate limiter.                   *)

ToolRefused(t) ==
  /\ tpc[t] = "idle"
  /\ quotaError /\ FailFast
  /\ tpc' = [tpc EXCEPT ![t] = "quota"]
  /\ UNCHANGED <<queue, quotaError, rpmQueue>>
  /\ UNCHANGED <<callVars, workerVars, closeVars>>

ToolStarts(t) ==
  /\ tpc[t] = "idle"
  /\ ~(quotaError /\ FailFast)
  /\ tpc' = [tpc EXCEPT ![t] = "rpm"]
  /\ rpmQueue' = Append(rpmQueue, t)
  /\ UNCHANGED <<queue, quotaError>>
  /\ UNCHANGED <<callVars, workerVars, closeVars>>

ToolSends(t) ==
  /\ tpc[t] = "rpm"
  /\ rpmQueue # <<>> /\ Head(rpmQueue) = t
  /\ rpmQueue' = Tail(rpmQueue)
  /\ tpc' = [tpc EXCEPT ![t] = "calling"]
  /\ UNCHANGED <<queue, quotaError>>
  /\ UNCHANGED <<callVars, workerVars, closeVars>>

\* The provider's answer goes straight to the caller.  A quota error is raised
\* to it too; the scheduler does not record it.
ToolEnds(t, outcome) ==
  /\ tpc[t] = "calling"
  /\ tpc' = [tpc EXCEPT ![t] = outcome]
  /\ UNCHANGED <<queue, quotaError, rpmQueue>>
  /\ UNCHANGED <<callVars, workerVars, closeVars>>

\* The caller's task is cancelled: it leaves the lock, or the provider call.
CancelTool(t) ==
  /\ \/ /\ tpc[t] = "rpm"
        /\ \E i \in DOMAIN rpmQueue :
             /\ rpmQueue[i] = t
             /\ rpmQueue' = SubSeq(rpmQueue, 1, i - 1)
                              \o SubSeq(rpmQueue, i + 1, Len(rpmQueue))
     \/ tpc[t] = "calling" /\ UNCHANGED rpmQueue
  /\ tpc' = [tpc EXCEPT ![t] = "cancelled"]
  /\ UNCHANGED <<queue, quotaError>>
  /\ UNCHANGED <<callVars, workerVars, closeVars>>

-----------------------------------------------------------------------------
(* close                                                                   *)

CloseStarts ==
  /\ closer = "open"
  /\ closer' = "putting"
  /\ toPut' = Cardinality(Workers)
  /\ UNCHANGED <<queue, quotaError, rpmQueue, tpc>>
  /\ UNCHANGED <<callVars, workerVars>>

PutSentinel ==
  /\ closer = "putting"
  /\ toPut > 0
  /\ ~Full
  /\ queue' = Append(queue, Sentinel)
  /\ toPut' = toPut - 1
  /\ closer' = IF toPut = 1 THEN "joining" ELSE "putting"
  /\ UNCHANGED <<quotaError, rpmQueue, tpc>>
  /\ UNCHANGED <<callVars, workerVars>>

\* gather() returns when every worker task has ended; the provider is closed.
CloseEnds ==
  /\ closer = "joining"
  /\ \A w \in Workers : wpc[w] = "exited"
  /\ closer' = "closed"
  /\ UNCHANGED <<toPut, queue, quotaError, rpmQueue, tpc>>
  /\ UNCHANGED <<callVars, workerVars>>

-----------------------------------------------------------------------------
CallSteps(r) == \/ PutDone(r) \/ CallQuota(r) \/ CallEnqueued(r)
                \/ CallSettled(r) \/ CallEnds(r)

Takes(w) == \/ WorkerExits(w) \/ WorkerDrops(w)
            \/ WorkerRefuses(w) \/ WorkerTakes(w)

Answers(w) == \/ \E f \in {"result", "error"} : ProviderAnswers(w, f)
              \/ ProviderQuota(w)

ToolAnswers(t) == \E o \in {"returned", "quota", "failed"} : ToolEnds(t, o)

CloseSteps == PutSentinel \/ CloseEnds

\* What a user of the scheduler decides: to call, to cancel a call, to close.
UserSteps ==
  \/ \E r \in Requests : CallRefused(r) \/ CallStarts(r) \/ CancelCall(r)
  \/ \E t \in ToolCalls : ToolRefused(t) \/ ToolStarts(t) \/ CancelTool(t)
  \/ CloseStarts

\* What the event loop and the provider do.
SystemSteps ==
  \/ \E r \in Requests : CallSteps(r)
  \/ \E w \in Workers : Takes(w) \/ WorkerSends(w) \/ Answers(w)
  \/ \E t \in ToolCalls : ToolSends(t) \/ ToolAnswers(t)
  \/ CloseSteps

Next == UserSteps \/ SystemSteps

Spec == Init /\ [][Next]_vars

-----------------------------------------------------------------------------
(* Properties                                                              *)

TypeOK ==
  /\ call \in [Requests -> {"idle"} \cup InFlight \cup Ended]
  /\ fut \in [Requests -> {"none", "pending", "result", "error", "quota", "cancelled"}]
  /\ queue \in Seq(Requests \cup {Sentinel})
  /\ quotaError \in BOOLEAN
  /\ wpc \in [Workers -> {"get", "rpm", "calling", "exited"}]
  /\ wreq \in [Workers -> Requests \cup {NoRequest}]
  /\ \A w \in Workers : wreq[w] # NoRequest <=> wpc[w] \in {"rpm", "calling"}
  /\ rpmQueue \in Seq(Workers \cup ToolCalls)
  /\ tpc \in [ToolCalls -> {"idle", "rpm", "calling"} \cup Ended]
  /\ closer \in {"open", "putting", "joining", "closed"}
  /\ toPut \in 0..Cardinality(Workers)
  /\ accepted \in Seq(Requests)
  /\ sent \in Seq(Requests)
  /\ lateSends \in Nat
  /\ cancelReq \subseteq Requests

\* No caller leaves a future behind on which a worker or the drain could later
\* set an exception that nobody retrieves (the comments at scheduler.py:118,
\* :130 and :146): a pending future has a caller that will await it.
NoOrphanFuture ==
  \A r \in Requests : fut[r] = "pending" => call[r] \in InFlight

Held(r) == \E w \in Workers : wreq[w] = r

\* A request that got into the queue and is not answered is still in the queue
\* or with a worker: no interleaving of drains, refusals, cancellations and
\* close() loses it while its caller waits.
NoLostRequest ==
  \A r \in Requests :
    In(accepted, r) /\ fut[r] = "pending" => In(queue, r) \/ Held(r)

\* No request reaches the provider twice, and none of a call that was refused
\* or never got into the queue.
SentAtMostOnce ==
  /\ \A i, j \in DOMAIN sent : i # j => sent[i] # sent[j]
  /\ \A i \in DOMAIN sent : In(accepted, sent[i])

\* A call returns or fails with the provider's word only if its own request
\* went to the provider, and gets a quota error only after a provider call
\* reported the quota exhausted.
AnswersAreReal ==
  \A r \in Requests :
    /\ fut[r] \in {"result", "error"} => In(sent, r)
    /\ call[r] \in {"returned", "failed"} => In(sent, r)
    /\ fut[r] = "quota" \/ call[r] = "quota" => quotaError

Position(seq, e) == CHOOSE i \in DOMAIN seq : seq[i] = e

\* "Provides FIFO ordering" (scheduler.py:48): with several workers, requests
\* still reach the provider in the order in which they entered the queue.
SentInOrder ==
  \A i, j \in DOMAIN sent :
    i < j => Position(accepted, sent[i]) < Position(accepted, sent[j])

\* In fail_fast mode the workers that are past the quota check when the quota
\* is exhausted still send what they hold, and nobody else does.
FewLateSends == FailFast => lateSends < Cardinality(Workers)

\* The elements of s that are in S occur once.
Unique(s, S) ==
  \A i, j \in DOMAIN s : i # j /\ s[i] \in S => s[i] # s[j]

\* Where a request can be: put once, then in the queue, then with one worker,
\* then with the provider, never in two of these places.
PlaceInv ==
  /\ \A r \in Requests :
       /\ In(queue, r) \/ Held(r) \/ In(sent, r) => In(accepted, r)
       /\ In(queue, r) => ~Held(r)
       /\ In(sent, r) => ~In(queue, r)
  /\ \A v, w \in Workers : wreq[v] = wreq[w] /\ wreq[v] # NoRequest => v = w
  /\ \A w \in Workers :
       wreq[w] # NoRequest => (In(sent, wreq[w]) <=> wpc[w] = "calling")
  /\ Unique(queue, Requests)
  /\ Unique(sent, Requests)

\* What the calls and the futures say of those places.
CallInv ==
  /\ NoOrphanFuture
  /\ NoLostRequest
  /\ AnswersAreReal
  /\ \A r \in Requests :
       /\ call[r] \in {"settling", "waiting"} => In(accepted, r)
       /\ In(accepted, r) => call[r] # "idle"

\* The inductive invariant behind the four properties above.
RequestInv == PlaceInv /\ CallInv

\* A future is made when the call goes in flight, and nobody but its own call cancels it.
AnswerInv ==
  \A r \in Requests :
    /\ call[r] = "idle" => fut[r] = "none"
    /\ call[r] \in InFlight => fut[r] \notin {"none", "cancelled"}

AtLimiter == {w \in Workers : wpc[w] = "rpm"}

\* The inductive invariant behind FewLateSends: a late send uses up one of the
\* workers that were at the limiter when the quota was exhausted.
LateInv ==
  /\ ~quotaError => lateSends = 0
  /\ FailFast /\ quotaError =>
       lateSends + Cardinality(AtLimiter) < Cardinality(Workers)

\* The elements of s that are in S follow one another as R says.
Ordered(s, S, R) ==
  \A i, j \in DOMAIN s : i < j /\ s[i] \in S /\ s[j] \in S => <<s[i], s[j]>> \in R

Before ==
  {p \in Requests \X Requests :
     \E i, j \in DOMAIN accepted : i < j /\ accepted[i] = p[1] /\ accepted[j] = p[2]}

HeldBefore == {p \in Workers \X Workers : <<wreq[p[1]], wreq[p[2]]>> \in Before}

\* The inductive invariant behind SentInOrder: what was sent, then what the workers
\* hold in the order of the limiter's lock, then the queue, is in the order of the puts.
OrderInv ==
  /\ Unique(accepted, Requests)
  /\ \A w \in Workers : In(rpmQueue, w) <=> wpc[w] = "rpm"
  /\ Ordered(sent, Requests, Before)
  /\ Ordered(rpmQueue, Workers, HeldBefore)
  /\ Ordered(queue, Requests, Before)
  /\ \A w \in AtLimiter : \A r \in Requests : In(sent, r) => <<r, wreq[w]>> \in Before
  /\ \A r, q \in Requests :
       In(queue, q) /\ (In(sent, r) \/ Held(r)) => <<r, q>> \in Before

Exited    == {w \in Workers : wpc[w] = "exited"}
Sentinels == {i \in DOMAIN queue : queue[i] = Sentinel}

\* r came into the queue when close() had put its last sentinel.
BehindSentinels(r) ==
  /\ closer \in {"joining", "closed"}
  /\ \E i \in DOMAIN queue : queue[i] = r /\ \A j \in Sentinels : j < i

\* There is one sentinel for each worker that close() has still to stop: none is
\* lost.  It fails when the drain of fail_fast mode finds sentinels in the queue;
\* SchedulerModes and ScanPool say what becomes of close() then, and otherwise.
SentinelBalance ==
  closer # "open" =>
    Cardinality(Exited) + Cardinality(Sentinels) + toPut = Cardinality(Workers)

\* The inductive invariant behind SentinelBalance.  Nobody leaves before close(), it
\* goes to gather() when it has put them all, and there are never more sentinels than
\* workers to stop, also when a drain has taken some.
SentinelInv ==
  /\ closer = "open" => Exited = {} /\ Sentinels = {}
  /\ closer = "putting" <=> toPut > 0
  /\ Cardinality(Exited) + Cardinality(Sentinels) + toPut <= Cardinality(Workers)
  /\ ~(FailFast /\ quotaError) => SentinelBalance

-----------------------------------------------------------------------------
(* The service that the callers see                                        *)

CallsSeen   == [r \in Requests |-> IF call[r] \in InFlight THEN "open" ELSE call[r]]
AnswersSeen == [r \in Requests |-> IF fut[r] = "pending" THEN "none" ELSE fut[r]]
AskedSeen   == {r \in Requests : In(sent, r)}

Service == INSTANCE CallService
             WITH calls <- CallsSeen, answers <- AnswersSeen,
                  asked <- AskedSeen, exhausted <- quotaError

\* Queue, workers, limiter, drain and close() together do no more than the service
\* promises: a call is answered by its own request's outcome, at most once, or, in
\* fail_fast mode, by a quota error that the provider did report, and nothing is made
\* ready for a caller that has left (scheduler.py:80, :118, :130, :146, :205).
KeepsService == Service!ServiceSpec
=============================================================================
