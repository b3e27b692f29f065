----------------------------- MODULE ScanPool -----------------------------
(***************************************************************************)
(* A phase of a scan that owns its scheduler: run_triage or                *)
(* run_deep_analysis hands its chunks to run_bounded_pool, the tasks of    *)
(* the pool call the scheduler, and run_scan closes it when the pool has   *)
(* returned or raised (the finally of scanner.py:609).  Composes           *)
(* WorkerPool and Scheduler: the tasks a raise abandons go on calling,     *)
(* until asyncio.run cancels what is left when the scan has ended.         *)
(***************************************************************************)
EXTENDS WorkerPool

CONSTANTS
  Workers, QueueMax, FailFast, Sentinel, NoRequest,
  MaxTurns     \* max_tool_calls: the turns of an agentic analysis

\* Of the scheduler (see Scheduler).  Triage and analysis have one task in flight for
\* each worker (triage.py:246), an agentic analysis at most two (deep_analysis.py:106):
\* MaxInFlight is any of these.
ASSUME WorkersAssumption == IsFiniteSet(Workers) /\ Workers # {}
ASSUME QueueMaxAssumption == QueueMax \in Nat \ {0}
ASSUME FailFastAssumption == FailFast \in BOOLEAN
ASSUME MaxTurnsAssumption == MaxTurns \in Nat
ASSUME DistinctAssumption ==
  /\ Sentinel \notin Items /\ NoRequest \notin Items
  /\ Workers \cap (Items \X (1..MaxTurns)) = {}

VARIABLES
  phase,       \* triage or analysis
  call, fut, queue, quotaError, wpc, wreq, rpmQueue, tpc, closer, toPut,
  accepted, sent, lateSends, cancelReq

Turns == Items \X (1..MaxTurns)

Sched == INSTANCE Scheduler WITH Requests <- Items, ToolCalls <- Turns

schedVars == <<call, fut, queue, quotaError, wpc, wreq, rpmQueue, tpc, closer, toPut,
               accepted, sent, lateSends, cancelReq>>
vars == <<phase, poolVars, schedVars>>

ScanInit == phase \in {"triage", "analysis"} /\ Init /\ Sched!Init

\* What a turn of the analysis of chunk i comes after: the start, or a turn that
\* the provider answered (with tool calls, which are executed).
Reaches(i, k) == \A j \in 1..(k - 1) : tpc[<<i, j>>] = "returned"

\* The last answer that the provider has given to a turn of chunk i.
LastAnswer(i, k) ==
  /\ tpc[<<i, k>>] = "returned"
  /\ k < MaxTurns => tpc[<<i, k + 1>>] = "idle"

\* The task of chunk i reaches generate_with_tools.
TaskAsks(i) ==
  /\ phase = "analysis" /\ task[i] = "running" /\ call[i] = "idle"
  /\ \E k \in 1..MaxTurns :
       /\ Reaches(i, k)
       /\ Sched!ToolRefused(<<i, k>>) \/ Sched!ToolStarts(<<i, k>>)
  /\ UNCHANGED <<phase, poolVars>>

\* A turn that failed or was refused, of whatever provider error, or an answer that
\* cannot be parsed: the conversation is given up for the single-turn call.
Fallback(i) ==
  \E k \in 1..MaxTurns : tpc[<<i, k>>] \in {"quota", "failed"} \/ LastAnswer(i, k)

\* The task of chunk i reaches generate_structured.
TaskCalls(i) ==
  /\ task[i] = "running"
  /\ phase = "triage" \/ Fallback(i)
  /\ Sched!CallRefused(i) \/ Sched!CallStarts(i)
  /\ UNCHANGED <<phase, poolVars>>

\* Faulty variant of TaskFinishes: the quota error is not raised on.
SwallowsQuota(i) ==
  /\ call[i] \in Sched!Ended
  /\ TaskEnds(i, "ok")
  /\ UNCHANGED <<phase, schedVars>>

\* How a task ends whose call has ended.  A quota error is raised on in fail_fast
\* mode only; in the other modes, and on any other LLMProviderError, the chunk gets
\* a fallback result or is recorded as failed.  An exception of another class, which
\* the provider raises as it is (openai_compat.py:164), nobody catches.
Endings(i) ==
  CASE call[i] = "returned" -> {"ok"}
    [] call[i] = "quota"    -> IF FailFast THEN {"raised"} ELSE {"ok"}
    [] call[i] = "failed"   -> {"ok", "raised"}
    [] OTHER                -> {}

TaskFinishes(i) ==
  /\ \E end \in Endings(i) : TaskEnds(i, end)
  /\ UNCHANGED <<phase, schedVars>>

\* Such an exception of a turn ends the task without a single-turn call.
TaskBreaks(i) ==
  /\ call[i] = "idle"
  /\ \E k \in 1..MaxTurns : tpc[<<i, k>>] = "failed"
  /\ TaskEnds(i, "raised")
  /\ UNCHANGED <<phase, schedVars>>

\* A turn was answered with the findings.
TaskConcludes(i) ==
  /\ call[i] = "idle"
  /\ \E k \in 1..MaxTurns : LastAnswer(i, k)
  /\ TaskEnds(i, "ok")
  /\ UNCHANGED <<phase, schedVars>>

PoolWakes == Wake /\ UNCHANGED <<phase, schedVars>>

\* The finally of run_scan.
ScanCloses ==
  /\ pool \in {"returned", "raised"}
  /\ Sched!CloseStarts
  /\ UNCHANGED <<phase, poolVars>>

SchedulerSteps == Sched!SystemSteps /\ UNCHANGED <<phase, poolVars>>

TaskSteps(i) ==
  TaskAsks(i) \/ TaskCalls(i) \/ TaskFinishes(i) \/ TaskBreaks(i) \/ TaskConcludes(i)

ScanNext ==
  \/ \E i \in Items : TaskSteps(i)
  \/ PoolWakes
  \/ ScanCloses
  \/ SchedulerSteps

\* The steps of one coroutine each: the task of chunk i with its calls, and a worker.
ChunkRuns(i) ==
  \/ TaskSteps(i)
  \/ /\ \/ Sched!CallSteps(i)
        \/ \E k \in 1..MaxTurns : Sched!ToolSends(<<i, k>>) \/ Sched!ToolAnswers(<<i, k>>)
     /\ UNCHANGED <<phase, poolVars>>

WorkerRuns(w) ==
  /\ Sched!Takes(w) \/ Sched!WorkerSends(w) \/ Sched!Answers(w)
  /\ UNCHANGED <<phase, poolVars>>

\* The event loop runs every coroutine that is ready and the sleeps of the limiter end.
\* That a provider call ends, with an answer or an error, is assumed of the provider:
\* no code bounds its duration for every provider (see SchedulerModes).
ScanFairness ==
  /\ \A i \in Items : WF_vars(ChunkRuns(i))
  /\ \A w \in Workers : WF_vars(WorkerRuns(w))
  /\ WF_vars(PoolWakes)
  /\ WF_vars(ScanCloses)
  /\ WF_vars(Sched!CloseSteps /\ UNCHANGED <<phase, poolVars>>)

ScanSpec == ScanInit /\ [][ScanNext]_vars

FairScanSpec == ScanSpec /\ ScanFairness

-----------------------------------------------------------------------------
\* What the tasks that a raise abandons can still do.  They are fewer than the bound.
\* When a task raised for the quota nothing new is queued or sent: a call that has not
\* reached the scheduler by then is refused, also that of a task started in the very
\* wake that raised.  After another error they are served like any call, which spends
\* tokens on a scan that has failed, but only before the sentinels of close(): a
\* request behind them is with no worker ever again.
AbandonedAreContained ==
  [][pool = "raised" =>
       /\ Cardinality(Running) < MaxInFlight
       /\ (\E i \in Items : task[i] = "raised" /\ call[i] = "quota") =>
            /\ \A i \in Items : call[i] = "idle" => call'[i] \in {"idle", "quota"}
            /\ \A t \in Turns : tpc[t] = "idle" => tpc'[t] \in {"idle", "quota"}
       /\ \A i \in Items : Sched!BehindSentinels(i) => ~Sched!Held(i)']_vars

\* When no error ends it, a phase has asked the provider about every chunk:
\* its request was sent, or a turn of its conversation was answered.
ReturnedSentAll ==
  pool = "returned" =>
    \A i \in Items :
      Sched!In(sent, i) \/ \E k \in 1..MaxTurns : tpc[<<i, k>>] = "returned"

\* The scan unwinds: the pool ends and the workers of its scheduler stop ("Stop
\* workers by sending sentinel values", scheduler.py:276), whatever calls the
\* pool has left in the queue or with the provider.
ScanUnwinds == <>(closer = "closed")

\* It does so except when an abandoned call met the quota error and its drain took
\* the sentinels of close(); nothing else keeps it from its end.
UnwindsUnlessDrained ==
  <>(closer = "closed" \/ (FailFast /\ quotaError /\ ~Sched!SentinelBalance))
=============================================================================
