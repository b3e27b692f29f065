--------------------------- MODULE ScanRunProofs ---------------------------
(***************************************************************************)
(* What holds of ScanRun for every set of chunks: its types and the three  *)
(* safety properties of a scan.  Nothing here depends on fairness.         *)
(***************************************************************************)
EXTENDS ScanRun, TLAPS

\* The phases before the result is built, and those after the triage.
Unbuilt == {"extract", "start", "triage", "profile", "relevant", "analysis", "verify",
            "conclude", "post"}
Judged  == {"profile", "relevant", "analysis", "verify", "conclude", "post"}

\* What is still untouched in each phase.
PhaseInv ==
  /\ phase \in Unbuilt => report = NoReport /\ saved = NoReport /\ severe = {}
  /\ phase = "save" => saved = NoReport
  /\ phase \in {"extract", "start"} =>
       /\ triage = [c \in Chunks |-> "none"]
       /\ analysis = [c \in Chunks |-> "none"]
       /\ finding = [c \in Chunks |-> "none"]
       /\ ~profile
       /\ owned => sched = "none"
  /\ phase \in Judged => Triaged

\* Everything that went wrong has left its mark: among the issues, or, for a
\* triage that the quota cut short, in quota_error until the scan concludes.
MarkInv ==
  /\ truncated # {} => "truncated" \in issues
  /\ \A c \in Chunks :
       /\ analysis[c] \in {"degraded", "failed"} => "analysis" \in issues
       /\ finding[c] = "unverified" => "verification" \in issues
       /\ triage[c] \in {"assumed", "guessed"} => quotaErr
       /\ triage[c] \in {"assumed", "guessed"} /\ phase = "post" => "quota" \in issues
       /\ c \in Relevant /\ analysis[c] = "none"
            /\ phase \in {"verify", "conclude", "post"} => "skipped" \in issues

\* The report tells the verdict and the cache what they need: a code that is
\* not an exception agrees with it, and a scan with a profile has saved it.
StoryInv ==
  /\ phase \in {"update", "verdict"} /\ profile => saved = report
  /\ phase \in {"unwind", "finally", "hung", "ended"} =>
       /\ code \in {"ok", "findings"} => report.complete
       /\ code = "incomplete" => ~report.complete
       /\ code \in {"ok", "findings", "incomplete"} /\ profile /\ report.built =>
            saved = report
       /\ code = "error" => ~report.built /\ ~saved.built

ScanInv ==
  TypeOK /\ PhaseInv /\ MarkInv /\ StoryInv /\ CompleteMeansCovered /\ SchedulerOwnership

-----------------------------------------------------------------------------
(* Steps that need more than their definitions.                            *)

LEMMA QuotaStays ==
  ASSUME quotaErr \in BOOLEAN, NEW outcome, QuotaAfter(outcome)
  PROVE  quotaErr' \in BOOLEAN /\ (quotaErr \/ outcome = "quota" => quotaErr')
BY Zenon DEF QuotaAfter

\* A judgement that the quota cut short is marked in quota_error.
LEMMA TriageKeeps ==
  ASSUME ScanInv, NEW c \in Chunks, TriageChunk(c)
  PROVE  ScanInv'
<1> USE DEF ScanInv, Unbuilt, Judged, NoReport, settings
<1>1. PICK outcome \in Outcomes :
        /\ QuotaAfter(outcome)
        /\ IF outcome = "quota" /\ FailFast
           THEN Unwinds("incomplete") /\ UNCHANGED triage
           ELSE /\ \E j \in Judgement(c, outcome) : triage' = [triage EXCEPT ![c] = j]
                /\ UNCHANGED <<phase, code>>
  BY DEF TriageChunk
<1>2. /\ phase = "triage"
      /\ UNCHANGED <<settings, truncated, analysis, finding, severe, sched, profile>>
      /\ UNCHANGED <<issues, report, saved>>
  BY DEF TriageChunk
<1>3. quotaErr' \in BOOLEAN /\ (quotaErr \/ outcome = "quota" => quotaErr')
  BY <1>1, QuotaStays DEF TypeOK
<1>4. CASE outcome = "quota" /\ FailFast
  BY <1>1, <1>2, <1>3, <1>4
  DEF TypeOK, PhaseInv, MarkInv, StoryInv, CompleteMeansCovered, SchedulerOwnership,
      Unwinds, Codes, Found
<1>5. CASE ~(outcome = "quota" /\ FailFast)
  <2>1. PICK j \in Judgement(c, outcome) : triage' = [triage EXCEPT ![c] = j]
    BY <1>1, <1>5
  <2>2. /\ j \in {"relevant", "irrelevant", "failed", "assumed", "guessed"}
        /\ j \in {"assumed", "guessed"} => quotaErr'
    BY <1>3 DEF Judgement, Outcomes
  <2>3. TypeOK'
    BY <1>1, <1>2, <1>3, <1>5, <2>1, <2>2 DEF TypeOK, Found, Codes
  <2>4. MarkInv'
    BY <1>1, <1>2, <1>3, <1>5, <2>1, <2>2 DEF MarkInv, TypeOK
  <2>5. PhaseInv' /\ StoryInv' /\ CompleteMeansCovered' /\ SchedulerOwnership'
    BY <1>1, <1>2, <1>5
    DEF PhaseInv, StoryInv, CompleteMeansCovered, SchedulerOwnership
  <2> QED BY <2>3, <2>4, <2>5
<1> QED BY <1>4, <1>5

\* A failure of the single-turn analysis, or of the agentic one before it, is
\* marked among the issues.
LEMMA SingleKeeps ==
  ASSUME ScanInv, NEW c \in Chunks, AnalysesSingle(c)
  PROVE  ScanInv'
<1> USE DEF ScanInv, Unbuilt, Judged, NoReport, settings
<1>1. PICK outcome \in Outcomes, agenticFailed \in BOOLEAN :
        /\ QuotaAfter(outcome)
        /\ IF outcome = "quota" /\ FailFast
           THEN Unwinds("incomplete") /\ UNCHANGED <<analysis, issues, finding>>
           ELSE /\ Single(c, outcome, agenticFailed)
                /\ YieldsFinding(c)
                /\ UNCHANGED <<phase, code>>
  BY DEF AnalysesSingle
<1>2. /\ phase = "analysis" /\ c \in Relevant
      /\ UNCHANGED <<settings, truncated, triage, severe, sched, profile, report, saved>>
  BY DEF AnalysesSingle
<1>3. quotaErr' \in BOOLEAN /\ (quotaErr => quotaErr')
  BY <1>1, QuotaStays DEF TypeOK
<1>4. CASE outcome = "quota" /\ FailFast
  <2>1. phase' = "unwind" /\ code' = "incomplete" /\ UNCHANGED <<analysis, issues, finding>>
    BY <1>1, <1>4 DEF Unwinds
  <2> QED
    BY <1>2, <1>3, <2>1
    DEF TypeOK, PhaseInv, MarkInv, StoryInv, CompleteMeansCovered, SchedulerOwnership,
        Codes, Found, Triaged, Relevant
<1>5. CASE ~(outcome = "quota" /\ FailFast)
  <2>1. Single(c, outcome, agenticFailed) /\ YieldsFinding(c) /\ UNCHANGED <<phase, code>>
    BY <1>1, <1>5
  <2>2. analysis' \in [Chunks -> {"none", "done", "degraded", "failed"}]
    BY <2>1 DEF TypeOK, Single
  <2>3. finding' \in [Chunks -> {"none", "candidate", "confirmed", "needs_review",
                                 "rejected", "unverified"}]
    BY <2>1 DEF TypeOK, YieldsFinding
  <2>4. TypeOK'
    <3>1. issues' \subseteq issues \cup {"analysis"}
      BY <2>1 DEF Single
    <3> QED BY <1>2, <1>3, <2>1, <2>2, <2>3, <3>1 DEF TypeOK, PhaseInv, Found, Codes
  <2>5. MarkInv'
    <3>1. /\ issues \subseteq issues'
          /\ \A d \in Chunks : analysis'[d] \in {"degraded", "failed"} =>
                                 analysis'[d] = analysis[d] \/ "analysis" \in issues'
      BY <2>1 DEF Single, TypeOK
    <3>2. \A d \in Chunks : finding'[d] = "unverified" => finding[d] = "unverified"
      BY <2>1 DEF YieldsFinding, TypeOK
    <3> QED BY <1>2, <1>3, <2>1, <3>1, <3>2 DEF MarkInv
  <2>6. PhaseInv' /\ StoryInv' /\ CompleteMeansCovered' /\ SchedulerOwnership'
    BY <1>2, <2>1
    DEF PhaseInv, StoryInv, CompleteMeansCovered, SchedulerOwnership, Triaged
  <2> QED BY <2>4, <2>5, <2>6
<1> QED BY <1>4, <1>5

\* A scan that does not analyse its relevant chunks says so.
LEMMA SkipMarked ==
  ASSUME AnalysisStarts
  PROVE  /\ issues' \in {issues, issues \cup {"skipped"}}
         /\ phase' = "analysis" \/ (phase' = "verify" /\ "skipped" \in issues')
BY DEF AnalysisStarts

\* The result of a scan without a relevant chunk.
LEMMA QuietCovers ==
  ASSUME ScanInv, EndsQuiet
  PROVE  CompleteMeansCovered'
<1>1. /\ phase = "relevant" /\ Relevant = {}
      /\ report' = Report(issues = {} /\ ~quotaErr, {}, {})
      /\ UNCHANGED chunkVars
  BY DEF EndsQuiet
<1>2. ASSUME report'.complete PROVE issues = {} /\ ~quotaErr
  BY <1>1, <1>2, Zenon DEF Report
<1>3. ASSUME report'.complete, NEW c \in Chunks PROVE Covered(c)
  <2>1. truncated = {} /\ finding[c] # "unverified" /\ triage[c] \notin {"assumed", "guessed"}
    BY <1>2, <1>3 DEF ScanInv, MarkInv
  <2>2. triage[c] \notin {"none", "relevant", "failed"}
    BY <1>1, <1>3 DEF Relevant, ScanInv, PhaseInv, Judged, Triaged
  <2> QED BY <1>3, <2>1, <2>2 DEF ScanInv, TypeOK, Covered
<1> QED BY <1>1, <1>3 DEF CompleteMeansCovered, Covered, chunkVars

\* The result of the others: without an issue, no chunk is short of anything.
LEMMA ResultCovers ==
  ASSUME ScanInv, BuildsResult
  PROVE  CompleteMeansCovered'
<1>1. /\ phase = "post"
      /\ UNCHANGED <<truncated, triage, analysis, finding>>
      /\ \E kept \in SUBSET Kept : report' = Report(issues = {}, kept, Found \ Confirmed)
  BY DEF BuildsResult
<1>2. ASSUME report'.complete PROVE issues = {}
  <2>1. PICK kept \in SUBSET Kept : report' = Report(issues = {}, kept, Found \ Confirmed)
    BY <1>1
  <2> QED BY <1>2, <2>1, Zenon DEF Report
<1>3. ASSUME report'.complete, NEW c \in Chunks PROVE Covered(c)
  <2>1. /\ truncated = {} /\ finding[c] # "unverified"
        /\ triage[c] \notin {"assumed", "guessed"}
        /\ analysis[c] \notin {"degraded", "failed"}
        /\ c \in Relevant => analysis[c] # "none"
    BY <1>1, <1>2, <1>3 DEF ScanInv, MarkInv
  <2>2. triage[c] # "none"
    BY <1>1, <1>3 DEF ScanInv, PhaseInv, Judged, Triaged
  <2> QED BY <1>3, <2>1, <2>2 DEF ScanInv, TypeOK, Covered, Relevant
<1> QED BY <1>1, <1>3 DEF CompleteMeansCovered, Covered

-----------------------------------------------------------------------------
(* The invariant.                                                          *)

LEMMA ScanInvInit ==
  ASSUME Init
  PROVE  ScanInv
BY ChunksAssumption
DEF Init, ScanInv, TypeOK, PhaseInv, MarkInv, StoryInv, CompleteMeansCovered,
    SchedulerOwnership, NoReport, Unbuilt, Judged, Found, Relevant, Codes

LEMMA ScanInvStep ==
  ASSUME ScanInv, [Next]_vars
  PROVE  ScanInv'
<1> USE DEF ScanInv, TypeOK, PhaseInv, MarkInv, StoryInv, CompleteMeansCovered,
            SchedulerOwnership, Triaged, Relevant, Found, Covered, Codes, NoReport,
            Unbuilt, Judged, settings, chunkVars, resultVars
<1>1. CASE ExtractFails
  BY <1>1 DEF ExtractFails
<1>2. CASE NothingToScan
  BY <1>2, ChunksAssumption DEF NothingToScan, Report
<1>3. CASE Extracts
  BY <1>3 DEF Extracts
<1>4. CASE StartFails
  BY <1>4 DEF StartFails
<1>5. CASE Starts
  BY <1>5 DEF Starts
<1>6. CASE TriageEnds
  BY <1>6 DEF TriageEnds
<1>7. CASE AnalysisEnds
  BY <1>7 DEF AnalysisEnds
<1>8. CASE VerificationEnds
  BY <1>8 DEF VerificationEnds
<1>9. CASE Concludes
  BY <1>9 DEF Concludes
<1>10. CASE BaselineBroken
  BY <1>10 DEF BaselineBroken, Leaves
<1>11. CASE SavesScan
  BY <1>11 DEF SavesScan
<1>12. CASE CacheFails
  BY <1>12 DEF CacheFails, Leaves
<1>13. CASE Finishes
  BY <1>13 DEF Finishes, Leaves, Verdict
<1>14. CASE Ends
  BY <1>14 DEF Ends
<1>15. CASE OtherScanExhausts
  BY <1>15 DEF OtherScanExhausts
<1>16. CASE \E c \in Chunks : AnalysesAgentic(c)
  BY <1>16 DEF AnalysesAgentic, YieldsFinding
<1>17. CASE \E c \in Chunks : VerifiesCandidate(c)
  BY <1>17 DEF VerifiesCandidate, Verified
<1>18. CASE \E c \in Chunks : TriageChunk(c)
  BY <1>18, TriageKeeps
<1>19. CASE \E c \in Chunks : AnalysesSingle(c)
  BY <1>19, SingleKeeps
<1>20. CASE LoadsProfile
  <2>1. quotaErr' \in BOOLEAN /\ (quotaErr => quotaErr')
    BY <1>20, Zenon DEF LoadsProfile
  <2> QED BY <1>20, <2>1 DEF LoadsProfile
<1>21. CASE UpdatesProfile
  <2>1. quotaErr' \in BOOLEAN /\ (quotaErr => quotaErr')
    BY <1>21, Zenon DEF UpdatesProfile
  <2> QED BY <1>21, <2>1 DEF UpdatesProfile
<1>22. CASE AnalysisStarts
  <2>1. /\ issues' \in {issues, issues \cup {"skipped"}}
        /\ phase' = "analysis" \/ (phase' = "verify" /\ "skipped" \in issues')
    BY <1>22, SkipMarked
  <2> QED BY <1>22, <2>1 DEF AnalysisStarts
<1>23. CASE EndsQuiet
  <2>1. issues \subseteq issues' /\ issues' \subseteq issues \cup {"quota"}
    BY <1>23 DEF EndsQuiet
  <2>2. CompleteMeansCovered'
    BY <1>23, QuietCovers
  <2> QED BY <1>23, <2>1, <2>2 DEF EndsQuiet, Report, AfterResult
<1>24. CASE BuildsResult
  <2>1. CompleteMeansCovered'
    BY <1>24, ResultCovers
  <2> QED BY <1>24, <2>1 DEF BuildsResult, Report, AfterResult, Kept, Confirmed
<1>25. CASE CallRaises
  BY <1>25 DEF CallRaises, Leaves, Unwinds
<1>26. CASE CloseHangs
  BY <1>26 DEF CloseHangs
<1>27. CASE UNCHANGED vars
  BY <1>27 DEF vars
<1> QED BY <1>1, <1>2, <1>3, <1>4, <1>5, <1>6, <1>7, <1>8, <1>9, <1>10, <1>11, <1>12,
         <1>13, <1>14, <1>15, <1>16, <1>17, <1>18, <1>19, <1>20,
         <1>21, <1>22, <1>23, <1>24, <1>25, <1>26, <1>27
      DEF Next, Steps

LEMMA ScanInvariant == Spec => []ScanInv
<1>1. Init => ScanInv
  BY ScanInvInit
<1>2. ScanInv /\ [Next]_vars => ScanInv'
  BY ScanInvStep
<1> QED BY <1>1, <1>2, PTL DEF Spec

\* The variables of a scan keep their types, and the cache holds nothing but the
\* report of this scan.
THEOREM ScanTypeCorrect == Spec => []TypeOK
<1>1. ScanInv => TypeOK
  BY DEF ScanInv
<1> QED BY <1>1, ScanInvariant, PTL

\* Whatever fails, runs out or falls back, in this scan or in one that shares its
\* scheduler, a scan of any number of chunks is called complete only if the model
\* has covered every chunk.
THEOREM CompleteCovered == Spec => []CompleteMeansCovered
<1>1. ScanInv => CompleteMeansCovered
  BY DEF ScanInv
<1> QED BY <1>1, ScanInvariant, PTL

\* The exit code, the report and the cache of a scan agree, for any number of
\* chunks and on every way out.
THEOREM StoriesAlwaysAgree == Spec => []StoriesAgree
<1>1. ScanInv => StoriesAgree
  BY DEF ScanInv, StoryInv, StoriesAgree
<1> QED BY <1>1, ScanInvariant, PTL

\* A scan leaves no scheduler of its own open, and never closes a shared one.
THEOREM OwnerCloses == Spec => []SchedulerOwnership
<1>1. ScanInv => SchedulerOwnership
  BY DEF ScanInv
<1> QED BY <1>1, ScanInvariant, PTL
=============================================================================
