------------------------------ MODULE ScanRun ------------------------------
(***************************************************************************)
(* run_scan (scanner.py) with what it calls: _triage_chunk_with_metrics,   *)
(* run_deep_analysis, verify_candidate, the repo profile and the cache.    *)
(* It says what becomes of a scan when model calls fail, the quota runs    *)
(* out, the input was truncated, the baseline is broken or the cache       *)
(* cannot be written.                                                      *)
(*                                                                         *)
(* A call of the scheduler is one step with its outcome (Scheduler.tla has *)
(* what is inside it) and the chunks of a phase are handled in any order.  *)
(* A chunk yields at most one finding, with an identity of its own.  A     *)
(* setting that is read once is a choice of the step that reads it.        *)
(***************************************************************************)
EXTENDS Naturals, FiniteSets

CONSTANTS Chunks   \* the chunks that extraction yields

ASSUME ChunksAssumption == IsFiniteSet(Chunks) /\ Chunks # {}

VARIABLES
  mode,      \* quota_exhausted_mode
  owned,     \* the scan makes its own scheduler
  phase,     \* where run_scan stands
  truncated, \* the chunks that were cut to size
  triage,    \* per chunk: how triage judged it
  analysis,  \* per chunk: what became of its deep analysis
  finding,   \* per chunk: its finding and the review status of it
  severe,    \* the findings that reach --fail-on
  quotaErr,  \* scheduler.quota_error is set
  sched,     \* the scheduler: not created, open, closed
  profile,   \* a repo profile was loaded or made
  issues,    \* why the coverage is incomplete
  report,    \* the ScanResult, once it is built
  saved,     \* the ScanResult in the cache
  code       \* the exit code, or the exception that escapes

vars == <<mode, owned, phase, truncated, triage, analysis, finding, severe, quotaErr, sched,
          profile, issues, report, saved, code>>

settings   == <<mode, owned>>
chunkVars  == <<truncated, triage, analysis, finding, severe>>
resultVars == <<report, saved, code>>

FailFast == mode = "fail_fast"

NoReport == [complete |-> FALSE, findings |-> {}, candidates |-> {}, built |-> FALSE]

Report(complete, found, others) ==
  [complete |-> complete, findings |-> found, candidates |-> others, built |-> TRUE]

Init ==
  /\ mode \in {"fail_fast", "heuristic", "legacy"}
  /\ owned \in BOOLEAN
  /\ phase = "extract"
  /\ truncated = {}
  /\ triage = [c \in Chunks |-> "none"]
  /\ analysis = [c \in Chunks |-> "none"]
  /\ finding = [c \in Chunks |-> "none"]
  /\ severe = {}
  /\ quotaErr \in (IF owned THEN {FALSE} ELSE BOOLEAN)
  /\ sched = IF owned THEN "none" ELSE "open"
  /\ profile = FALSE
  /\ issues = {}
  /\ report = NoReport
  /\ saved = NoReport
  /\ code = "none"

Relevant == {c \in Chunks : triage[c] \in {"relevant", "failed", "assumed"}}
Found    == {c \in Chunks : finding[c] # "none"}
Confirmed == {c \in Chunks : finding[c] = "confirmed"}

\* What a structured call may come to: a quota error sets the scheduler's flag,
\* and in fail_fast mode the flag refuses every later call.
Outcomes == IF quotaErr /\ FailFast THEN {"quota"} ELSE {"ok", "failed", "quota"}

QuotaAfter(outcome) == quotaErr' = (quotaErr \/ outcome = "quota")

\* run_scan leaves its body: the finally is next.
Leaves(c) == phase' = "finally" /\ code' = c

\* So it does when the error of a task has ended the pool of a phase; the other tasks
\* of that pool go on.
Unwinds(c) == phase' = "unwind" /\ code' = c

Triaged == \A c \in Chunks : triage[c] # "none"

\* The chunks that triage or, after it, the deep analysis has still to handle.
Unfinished ==
  IF Triaged THEN {c \in Relevant : analysis[c] = "none"}
  ELSE {c \in Chunks : triage[c] = "none"}

-----------------------------------------------------------------------------
(* Faulty variants of the definitions below, no part of the specification. *)

\* of Single: the error of the agentic analysis is forgotten when the fallback works
SingleForgives(c, outcome, agenticFailed) ==
  /\ analysis' = [analysis EXCEPT ![c] =
                    IF outcome # "ok" THEN "failed"
                    ELSE IF agenticFailed THEN "degraded" ELSE "done"]
  /\ issues' = issues \cup IF outcome # "ok" THEN {"analysis"} ELSE {}

\* of Concludes: the quota is not looked at again after the analysis
ConcludesEarly ==
  /\ phase = "conclude"
  /\ phase' = "post"
  /\ UNCHANGED <<settings, chunkVars, quotaErr, sched, profile, issues, resultVars>>

\* of Ends: the scheduler is closed whoever made it
ClosesAny ==
  /\ phase \in {"unwind", "finally"}
  /\ phase' = "ended"
  /\ sched' = "closed"
  /\ UNCHANGED <<settings, chunkVars, quotaErr, profile, issues, resultVars>>

\* of Verified: an error of the verifier is not recorded
VerifiedSilently(c, verdict) ==
  /\ finding' = [finding EXCEPT ![c] =
                   IF verdict = "error" THEN "unverified" ELSE verdict]
  /\ UNCHANGED issues

\* of Verdict: severity is looked at first
VerdictBySeverity ==
  IF report.findings \cap severe # {} THEN "findings"
  ELSE IF ~report.complete THEN "incomplete" ELSE "ok"

\* of TriageEnds: waits for a chunk to be relevant
TriageWaits ==
  /\ phase = "triage" /\ Relevant # {} /\ \A c \in Chunks : triage[c] # "none"
  /\ phase' \in {"profile", "relevant"}
  /\ UNCHANGED <<settings, chunkVars, quotaErr, sched, profile, issues, resultVars>>

-----------------------------------------------------------------------------
(* _extract_and_enrich and the scheduler                                   *)

\* Git fails: where the GitSourceError is caught the scan ends with an error,
\* in the calls after the diff it escapes.
ExtractFails ==
  /\ phase = "extract"
  /\ phase' = "ended"
  /\ code' \in {"error", "raised"}
  /\ UNCHANGED <<settings, chunkVars, quotaErr, sched, profile, issues, report, saved>>

\* No diff, no chunk, or none above the prefilter's threshold.
NothingToScan ==
  /\ phase = "extract"
  /\ phase' = "ended"
  /\ code' = "ok"
  /\ report' = Report(TRUE, {}, {})
  /\ UNCHANGED <<settings, chunkVars, quotaErr, sched, profile, issues, saved>>

Extracts ==
  /\ phase = "extract"
  /\ truncated' \in SUBSET Chunks
  /\ issues' = IF truncated' # {} THEN {"truncated"} ELSE {}
  /\ phase' = "start"
  /\ UNCHANGED <<settings, triage, analysis, finding, severe, quotaErr, sched, profile>>
  /\ UNCHANGED resultVars

\* A scan without a scheduler makes one; create_provider may refuse.
StartFails ==
  /\ phase = "start" /\ owned
  /\ phase' = "ended" /\ code' = "error"
  /\ UNCHANGED <<settings, chunkVars, quotaErr, sched, profile, issues, report, saved>>

Starts ==
  /\ phase = "start"
  /\ phase' = "triage" /\ sched' = "open"
  /\ UNCHANGED <<settings, chunkVars, quotaErr, profile, issues, resultVars>>

\* The scheduler is shared with the other scans of a batch: one of them meets
\* the end of the quota.
OtherScanExhausts ==
  /\ ~owned /\ ~quotaErr
  /\ quotaErr' = TRUE
  /\ UNCHANGED <<settings, phase, chunkVars, sched, profile, issues, resultVars>>

-----------------------------------------------------------------------------
(* Triage and the repo profile                                             *)

\* What the outcome of its triage call makes of a chunk, in a fallback mode; in
\* heuristic mode the score of the chunk decides when the quota is gone.
Judgement(c, outcome) ==
  CASE outcome = "ok" -> {"relevant", "irrelevant"}
    [] outcome = "failed" -> {"failed"}
    [] OTHER -> IF mode = "legacy" THEN {"assumed"} ELSE {"assumed", "guessed"}

\* In fail_fast mode a quota error ends the scan without a result.
TriageChunk(c) ==
  /\ phase = "triage" /\ triage[c] = "none"
  /\ \E outcome \in Outcomes :
       /\ QuotaAfter(outcome)
       /\ IF outcome = "quota" /\ FailFast
          THEN Unwinds("incomplete") /\ UNCHANGED triage
          ELSE /\ \E j \in Judgement(c, outcome) : triage' = [triage EXCEPT ![c] = j]
               /\ UNCHANGED <<phase, code>>
  /\ UNCHANGED <<settings, truncated, analysis, finding, severe, sched, profile, issues>>
  /\ UNCHANGED <<report, saved>>

TriageEnds ==
  /\ phase = "triage" /\ \A c \in Chunks : triage[c] # "none"
  /\ phase' \in {"profile", "relevant"}
  /\ UNCHANGED <<settings, chunkVars, quotaErr, sched, profile, issues, resultVars>>

\* The profile of this ref is cached, or one is made: a failed call, the quota's
\* included, leaves one made from the file tree.
LoadsProfile ==
  /\ phase = "profile"
  /\ quotaErr' \in {quotaErr, TRUE}
  /\ profile' = TRUE
  /\ phase' = "relevant"
  /\ UNCHANGED <<settings, chunkVars, sched, issues, resultVars>>

\* The result is saved if there is a cache; a profile means that there is one.
AfterResult == IF profile THEN {"save"} ELSE {"save", "verdict"}

\* No chunk is relevant: the result is built at once, without the baseline.
EndsQuiet ==
  /\ phase = "relevant" /\ Relevant = {}
  /\ report' = Report(issues = {} /\ ~quotaErr, {}, {})
  /\ issues' = issues \cup IF quotaErr THEN {"quota"} ELSE {}
  /\ phase' \in AfterResult
  /\ UNCHANGED <<settings, chunkVars, quotaErr, sched, profile, saved, code>>

-----------------------------------------------------------------------------
(* Deep analysis                                                           *)

\* In heuristic mode nothing is analysed once the quota is known to be gone.
AnalysisStarts ==
  /\ phase = "relevant" /\ Relevant # {}
  /\ IF mode = "heuristic" /\ quotaErr
     THEN phase' = "verify" /\ issues' = issues \cup {"skipped"}
     ELSE phase' = "analysis" /\ UNCHANGED issues
  /\ UNCHANGED <<settings, chunkVars, quotaErr, sched, profile, resultVars>>

\* The single-turn analysis of c comes to outcome, after an agentic one that
\* failed or that the provider does not support.
Single(c, outcome, agenticFailed) ==
  /\ analysis' = [analysis EXCEPT ![c] =
                    IF outcome # "ok" THEN "failed"
                    ELSE IF agenticFailed THEN "degraded" ELSE "done"]
  /\ issues' = issues \cup
       IF outcome # "ok" \/ agenticFailed THEN {"analysis"} ELSE {}

\* A chunk that was analysed may have yielded a candidate.
YieldsFinding(c) ==
  IF analysis'[c] \in {"done", "degraded"}
  THEN \E f \in {"none", "candidate"} : finding' = [finding EXCEPT ![c] = f]
  ELSE UNCHANGED finding

\* The agentic analysis succeeds.  Its calls do not touch quota_error, and are
\* refused like any other.
AnalysesAgentic(c) ==
  /\ phase = "analysis" /\ c \in Relevant /\ analysis[c] = "none"
  /\ ~(quotaErr /\ FailFast)
  /\ analysis' = [analysis EXCEPT ![c] = "done"]
  /\ YieldsFinding(c)
  /\ UNCHANGED <<settings, phase, truncated, triage, severe, quotaErr, sched>>
  /\ UNCHANGED <<profile, issues, resultVars>>

\* It fails, with an error that stays recorded, or is not supported, and the
\* chunk is analysed in a single turn.
AnalysesSingle(c) ==
  /\ phase = "analysis" /\ c \in Relevant /\ analysis[c] = "none"
  /\ \E outcome \in Outcomes, agenticFailed \in BOOLEAN :
       /\ quotaErr /\ FailFast => agenticFailed
       /\ QuotaAfter(outcome)
       /\ IF outcome = "quota" /\ FailFast
          THEN Unwinds("incomplete") /\ UNCHANGED <<analysis, issues, finding>>
          ELSE /\ Single(c, outcome, agenticFailed)
               /\ YieldsFinding(c)
               /\ UNCHANGED <<phase, code>>
  /\ UNCHANGED <<settings, truncated, triage, severe, sched, profile, report, saved>>

AnalysisEnds ==
  /\ phase = "analysis" /\ \A c \in Relevant : analysis[c] # "none"
  /\ phase' = "verify"
  /\ UNCHANGED <<settings, chunkVars, quotaErr, sched, profile, issues, resultVars>>

-----------------------------------------------------------------------------
(* Verification, post-processing and the result                            *)

Verified(c, verdict) ==
  /\ finding' = [finding EXCEPT ![c] =
                   IF verdict = "error" THEN "unverified" ELSE verdict]
  /\ issues' = issues \cup IF verdict = "error" THEN {"verification"} ELSE {}

\* The verifier uses tool calls: a quota error is one of its errors.
VerifiesCandidate(c) ==
  /\ phase = "verify" /\ finding[c] = "candidate"
  /\ \E verdict \in IF quotaErr /\ FailFast THEN {"error"}
                    ELSE {"confirmed", "needs_review", "rejected", "error"} :
       Verified(c, verdict)
  /\ UNCHANGED <<settings, phase, truncated, triage, analysis, severe, quotaErr>>
  /\ UNCHANGED <<sched, profile, resultVars>>

\* All candidates are verified, or none with verify_findings off.
VerificationEnds ==
  /\ phase = "verify"
  /\ \/ \A c \in Chunks : finding[c] # "candidate"
     \/ \A c \in Chunks : finding[c] \in {"none", "candidate"}
  /\ phase' = "conclude"
  /\ UNCHANGED <<settings, chunkVars, quotaErr, sched, profile, issues, resultVars>>

\* The coverage is settled; the baseline is read after that.
Concludes ==
  /\ phase = "conclude"
  /\ issues' = issues \cup IF quotaErr THEN {"quota"} ELSE {}
  /\ phase' = "post"
  /\ UNCHANGED <<settings, chunkVars, quotaErr, sched, profile, resultVars>>

\* An unreadable baseline ends the scan; one that is JSON of another form makes
\* model_validate raise what nobody catches.
BaselineBroken ==
  /\ phase = "post"
  /\ \E c \in {"error", "raised"} : Leaves(c)
  /\ UNCHANGED <<settings, chunkVars, quotaErr, sched, profile, issues, report, saved>>

Kept == Confirmed

\* The baseline and the confidence filter drop any of the confirmed findings;
\* any of the others may reach the severity of --fail-on.
BuildsResult ==
  /\ phase = "post"
  /\ \E kept \in SUBSET Kept :
       /\ report' = Report(issues = {}, kept, Found \ Confirmed)
       /\ severe' \in SUBSET kept
  /\ phase' \in AfterResult
  /\ UNCHANGED <<settings, truncated, triage, analysis, finding, quotaErr, sched>>
  /\ UNCHANGED <<profile, issues, saved, code>>

-----------------------------------------------------------------------------
(* The cache, the exit code and the finally                                *)

SavesScan ==
  /\ phase = "save"
  /\ saved' = report
  /\ phase' = IF profile THEN "update" ELSE "verdict"
  /\ UNCHANGED <<settings, chunkVars, quotaErr, sched, profile, issues, report, code>>

\* The profile is updated: by a model call, whose failure is swallowed, unless
\* the scan was quiet.
UpdatesProfile ==
  /\ phase = "update"
  /\ quotaErr' \in IF Relevant = {} THEN {quotaErr} ELSE {quotaErr, TRUE}
  /\ phase' = "verdict"
  /\ UNCHANGED <<settings, chunkVars, sched, profile, issues, resultVars>>

\* An error of the database or of the file system escapes.
CacheFails ==
  /\ phase \in {"profile", "save", "update"}
  /\ Leaves("raised")
  /\ UNCHANGED <<settings, chunkVars, quotaErr, sched, profile, issues, report, saved>>

Verdict ==
  IF ~report.complete THEN "incomplete"
  ELSE IF report.findings \cap severe # {} THEN "findings" ELSE "ok"

Finishes ==
  /\ phase = "verdict"
  /\ Leaves(Verdict)
  /\ UNCHANGED <<settings, chunkVars, quotaErr, sched, profile, issues, report, saved>>

\* An exception of a model call that is no LLMProviderError (the provider raises it as
\* it is, openai_compat.py:164) is caught neither by the phase nor by run_scan.
CallRaises ==
  /\ \/ phase \in {"triage", "analysis"} /\ Unfinished # {} /\ Unwinds("raised")
     \/ phase = "verify" /\ (\E c \in Chunks : finding[c] = "candidate") /\ Leaves("raised")
  /\ UNCHANGED <<settings, chunkVars, quotaErr, sched, profile, issues, report, saved>>

\* The drain of fail_fast mode, set off by a task that the pool has abandoned, takes
\* the sentinels of close(): the scan stays in its finally (see ScanPool).
CloseHangs ==
  /\ phase = "unwind" /\ owned /\ FailFast /\ Cardinality(Unfinished) > 1
  /\ phase' = "hung" /\ quotaErr' = TRUE
  /\ UNCHANGED <<settings, chunkVars, sched, profile, issues, resultVars>>

Ends ==
  /\ phase \in {"unwind", "finally"}
  /\ phase' = "ended"
  /\ sched' = IF owned THEN "closed" ELSE sched
  /\ UNCHANGED <<settings, chunkVars, quotaErr, profile, issues, resultVars>>

-----------------------------------------------------------------------------
Steps ==
  \/ ExtractFails \/ NothingToScan \/ Extracts \/ StartFails \/ Starts
  \/ \E c \in Chunks : \/ TriageChunk(c) \/ AnalysesAgentic(c)
                       \/ AnalysesSingle(c) \/ VerifiesCandidate(c)
  \/ TriageEnds \/ LoadsProfile \/ EndsQuiet \/ AnalysisStarts \/ AnalysisEnds
  \/ VerificationEnds \/ Concludes \/ BaselineBroken \/ BuildsResult
  \/ SavesScan \/ UpdatesProfile \/ CacheFails \/ Finishes \/ CallRaises
  \/ CloseHangs \/ Ends

Next == Steps \/ OtherScanExhausts

Spec == Init /\ [][Next]_vars

\* What only others can end: the git commands and the model calls of these phases,
\* which nothing bounds in time for every provider.
WaitsOutside ==
  \/ phase \in {"extract", "profile", "update"}
  \/ phase \in {"triage", "analysis"} /\ Unfinished # {}
  \/ phase = "verify" /\ \E c \in Chunks : finding[c] = "candidate"

\* Nothing is assumed of those; the scan itself is run by the event loop.
FairSpec == Spec /\ WF_vars(~WaitsOutside /\ Steps)

-----------------------------------------------------------------------------
Codes == {"ok", "findings", "incomplete", "error", "raised"}

TypeOK ==
  /\ mode \in {"fail_fast", "heuristic", "legacy"} /\ owned \in BOOLEAN
  /\ phase \in {"extract", "start", "triage", "profile", "relevant", "analysis",
                "verify", "conclude", "post", "save", "update", "verdict",
                "unwind", "finally", "hung", "ended"}
  /\ truncated \subseteq Chunks
  /\ triage \in [Chunks -> {"none", "relevant", "irrelevant", "failed", "assumed",
                            "guessed"}]
  /\ analysis \in [Chunks -> {"none", "done", "degraded", "failed"}]
  /\ finding \in [Chunks -> {"none", "candidate", "confirmed", "needs_review",
                             "rejected", "unverified"}]
  /\ severe \subseteq Found
  /\ quotaErr \in BOOLEAN /\ profile \in BOOLEAN
  /\ sched \in {"none", "open", "closed"}
  /\ issues \subseteq {"truncated", "skipped", "analysis", "verification", "quota"}
  /\ report.findings \cup report.candidates \subseteq Chunks
  /\ saved \in {NoReport, report}
  /\ code \in IF phase \in {"unwind", "finally", "hung", "ended"} THEN Codes ELSE {"none"}

\* The model looked at all of the chunk and nothing failed on the way.
Covered(c) ==
  /\ c \notin truncated
  /\ \/ triage[c] = "irrelevant"
     \/ triage[c] \in {"relevant", "failed"} /\ analysis[c] = "done"
  /\ finding[c] # "unverified"

\* "Analysis failures no longer appear as successful empty scans"
\* (CHANGELOG.md:45): a scan that had something to scan is complete only if the
\* model judged every chunk irrelevant or analysed it without a failure, and
\* verified every candidate, whatever ran out, failed or fell back on the way,
\* in this scan or in another one that shares the scheduler.
CompleteMeansCovered ==
  report.complete /\ Triaged => \A c \in Chunks : Covered(c)

\* The exit code, the report and the cache tell the same story: the scan passes
\* or fails on its findings only if the report is complete, is called
\* incomplete only if it is not, and the report returned is the one cached.
StoriesAgree ==
  phase = "ended" =>
    /\ code \in {"ok", "findings"} => report.complete
    /\ code = "incomplete" => ~report.complete
    /\ code \in {"ok", "findings", "incomplete"} /\ profile /\ report.built =>
         saved = report
    /\ code = "error" => ~report.built /\ ~saved.built

\* A scan closes the scheduler it made, on whatever way it leaves, and never
\* the one it shares.
SchedulerOwnership ==
  /\ phase = "ended" /\ owned => sched # "open"
  /\ ~owned => sched = "open"

\* The scan does not stand still by itself: it ends, unless git or a model never
\* answers, or close() waits for workers whose sentinels a drain took.  That takes a
\* scheduler of its own in fail_fast mode, with two chunks still to handle.
ScanEnds ==
  \/ <>(phase = "ended")
  \/ <>[]WaitsOutside
  \/ <>(phase = "hung" /\ owned /\ FailFast /\ quotaErr /\ Cardinality(Unfinished) > 1)
=============================================================================
