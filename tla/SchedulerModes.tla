--------------------------- MODULE SchedulerModes ---------------------------
(***************************************************************************)
(* A scheduler in either of its kinds of mode, chosen when it is made:     *)
(* fail_fast, where a quota error reaches every call, and the modes with a *)
(* fallback, where it reaches the call that met it (quota_exhausted_mode,  *)
(* scheduler.py:84, :173, :229).  Both promise that what was begun ends.   *)
(***************************************************************************)
EXTENDS Naturals, Sequences, FiniteSets

CONSTANTS
  Requests, ToolCalls, Workers, QueueMax, Sentinel, NoRequest,
  MaxUserSteps   \* a bound: how many calls users begin, or cancel, in all

VARIABLES
  call, fut, queue, quotaError, wpc, wreq, rpmQueue, tpc, closer, toPut,
  accepted, sent, lateSends, cancelReq,
  failFast     \* quota_exhausted_mode = FAIL_FAST

vars == <<call, fut, queue, quotaError, wpc, wreq, rpmQueue, tpc, closer, toPut,
          accepted, sent, lateSends, cancelReq, failFast>>

Fast == INSTANCE Scheduler WITH FailFast <- TRUE
Slow == INSTANCE Scheduler WITH FailFast <- FALSE

Init == Fast!Init /\ failFast \in BOOLEAN

UserStepsTaken ==
  LET begun == {r \in Requests : call[r] # "idle"} \cup {t \in ToolCalls : tpc[t] # "idle"}
      cancelled == cancelReq \cup {t \in ToolCalls : tpc[t] = "cancelled"}
  IN  Cardinality(begun) + Cardinality(cancelled)

Next ==
  /\ \/ failFast /\ Fast!Next
     \/ ~failFast /\ Slow!Next
  /\ UNCHANGED failFast
  /\ UserStepsTaken' <= MaxUserSteps

-----------------------------------------------------------------------------
(* The event loop runs every task that is ready and the sleeps of the      *)
(* limiter end, so each step of a call, of a worker and of close(), in the *)
(* mode that was chosen, is taken once it stays possible.  That a provider *)
(* call ends is assumed of the provider: Gemini's have total_timeout, the  *)
(* default provider's a timeout to connect and one between two reads       *)
(* (openai_compat.py:105-110), which a server that keeps sending bytes     *)
(* never meets.  Nobody has to call, to cancel or to close.                *)

CallSteps(r) ==
  /\ \/ failFast /\ Fast!CallSteps(r)
     \/ ~failFast /\ Slow!CallSteps(r)
  /\ UNCHANGED failFast

Takes(w) ==
  /\ \/ failFast /\ Fast!Takes(w)
     \/ ~failFast /\ Slow!Takes(w)
  /\ UNCHANGED failFast

Answers(w) ==
  /\ \/ failFast /\ Fast!Answers(w)
     \/ ~failFast /\ Slow!Answers(w)
  /\ UNCHANGED failFast

Fairness ==
  /\ \A r \in Requests : WF_vars(CallSteps(r))
  /\ \A w \in Workers : /\ WF_vars(Takes(w))
                        /\ WF_vars(Fast!WorkerSends(w) /\ UNCHANGED failFast)
                        /\ WF_vars(Answers(w))
  /\ \A t \in ToolCalls : /\ WF_vars(Fast!ToolSends(t) /\ UNCHANGED failFast)
                          /\ WF_vars(Fast!ToolAnswers(t) /\ UNCHANGED failFast)
  /\ WF_vars(Fast!CloseSteps /\ UNCHANGED failFast)

FairSpec == Init /\ [][Next]_vars /\ Fairness

-----------------------------------------------------------------------------
\* While the scheduler is open every call ends, in every mode, whatever the
\* provider answers, blocked on a full queue or not.
EveryCallEnds ==
  \A r \in Requests :
    call[r] \in Fast!InFlight ~> call[r] \in Fast!Ended \/ closer # "open"

\* A request that entered the queue before close() is answered although the
\* workers are being stopped: the sentinels come after it.
AcceptedIsAnswered ==
  \A r \in Requests :
    call[r] \in Fast!InFlight /\ Fast!In(accepted, r) /\ closer = "open"
      ~> call[r] \in Fast!Ended

\* A tool call gets its turn at the limiter among any number of workers.
ToolCallsEnd ==
  \A t \in ToolCalls : tpc[t] \in {"rpm", "calling"} ~> tpc[t] \in Fast!Ended

\* "Stop workers by sending sentinel values" (scheduler.py:276): close() ends,
\* whatever is queued or blocked in a put, with the one exception that the drain of
\* fail_fast mode has taken a sentinel out of the queue.
CloseCompletes ==
  closer = "putting"
    ~> closer = "closed" \/ (failFast /\ quotaError /\ ~Fast!SentinelBalance)
=============================================================================
