---------------------------- MODULE CallService ----------------------------
(***************************************************************************)
(* What LlmRequestScheduler.generate_structured (providers/scheduler.py)   *)
(* promises to its callers, with no queue, workers, limiter or close():    *)
(* calls, the answers that are made ready for them, the requests that went *)
(* to the provider, and whether the provider has reported its quota        *)
(* exhausted.  A call is answered by the outcome of its own request, which *)
(* the provider sees once at most, or by the quota error of another, and   *)
(* that only in fail_fast mode; an answer is made ready for a caller that  *)
(* waits, and is not replaced.  Scheduler.tla says how this is kept.       *)
(***************************************************************************)
CONSTANTS Requests, FailFast

VARIABLES
  calls,      \* idle, open, or how the call ended
  answers,    \* what is ready for each call: none, result, error, quota or cancelled
  asked,      \* the requests that went to the provider
  exhausted   \* the provider has reported the quota exhausted

serviceVars == <<calls, answers, asked, exhausted>>

ServiceInit ==
  /\ calls = [r \in Requests |-> "idle"]
  /\ answers = [r \in Requests |-> "none"]
  /\ asked = {}
  /\ exhausted = FALSE

Ends(r, outcome) == calls' = [calls EXCEPT ![r] = outcome]

Waits(r) == calls[r] = "open" /\ answers[r] = "none"

\* A call that ends unanswered takes care that it is never answered.
Withdraws(r) ==
  answers' = [answers EXCEPT ![r] = IF @ = "none" THEN "cancelled" ELSE @]

Begins(r) ==
  /\ calls[r] = "idle" /\ ~(exhausted /\ FailFast)
  /\ calls' = [calls EXCEPT ![r] = "open"]
  /\ UNCHANGED <<answers, asked, exhausted>>

\* A call that begins too late is refused.
Refused(r) ==
  /\ calls[r] = "idle" /\ exhausted /\ FailFast
  /\ Ends(r, "quota")
  /\ UNCHANGED <<answers, asked, exhausted>>

\* The request goes to the provider; its caller may have left by then, but has
\* not had the provider's answer.
Asked(r) ==
  /\ calls[r] \notin {"idle", "returned", "failed"} /\ r \notin asked
  /\ asked' = asked \cup {r}
  /\ UNCHANGED <<calls, answers, exhausted>>

Answered(r) ==
  /\ Waits(r) /\ r \in asked
  /\ \E a \in {"result", "error"} : answers' = [answers EXCEPT ![r] = a]
  /\ UNCHANGED <<calls, asked, exhausted>>

\* The provider reports the quota exhausted, to request r: with its caller, if
\* that still waits, any others may be told, in fail_fast mode.
Exhausted(r) ==
  /\ r \in asked
  /\ exhausted' = TRUE
  /\ \E told \in SUBSET {q \in Requests : Waits(q)} :
       /\ Waits(r) => r \in told
       /\ FailFast \/ told \subseteq {r}
       /\ answers' = [q \in Requests |-> IF q \in told THEN "quota" ELSE answers[q]]
  /\ UNCHANGED <<calls, asked>>

\* A call that waits is told of the quota later on.
Told(r) ==
  /\ Waits(r) /\ exhausted /\ FailFast
  /\ answers' = [answers EXCEPT ![r] = "quota"]
  /\ UNCHANGED <<calls, asked, exhausted>>

\* The caller gets what is ready for it.
Gets(r) ==
  /\ calls[r] = "open"
  /\ \/ answers[r] = "result" /\ Ends(r, "returned")
     \/ answers[r] = "error" /\ Ends(r, "failed")
     \/ answers[r] = "quota" /\ Ends(r, "quota")
  /\ UNCHANGED <<answers, asked, exhausted>>

\* The caller is cancelled, or sees for itself that the quota is exhausted.
Leaves(r) ==
  /\ calls[r] = "open"
  /\ Ends(r, "cancelled") \/ (exhausted /\ FailFast /\ Ends(r, "quota"))
  /\ Withdraws(r)
  /\ UNCHANGED <<asked, exhausted>>

ServiceSteps(r) ==
  \/ Begins(r) \/ Refused(r) \/ Asked(r) \/ Answered(r) \/ Exhausted(r)
  \/ Told(r) \/ Gets(r) \/ Leaves(r)

ServiceSpec == ServiceInit /\ [][\E r \in Requests : ServiceSteps(r)]_serviceVars
=============================================================================
