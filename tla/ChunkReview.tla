---------------------------- MODULE ChunkReview ----------------------------
(***************************************************************************)
(* One relevant chunk from its deep analysis (Analysis) to the verdict on  *)
(* its finding (Verification), with the quota that the scan may share with *)
(* others, and how these steps look in ScanRun.                            *)
(***************************************************************************)
EXTENDS Naturals, FiniteSets

CONSTANTS MaxTurns, Budget, VerifyTurns, VerifyBudget, MaxCost, Chunk

ASSUME BoundsAssumption ==
  /\ MaxTurns \in Nat \ {0} /\ VerifyTurns \in Nat \ {0}
  /\ Budget \in Nat \ {0} /\ VerifyBudget \in Nat \ {0} /\ MaxCost \in Nat

VARIABLES
  phase,   \* where run_scan stands: analysis, verify, conclude
  mode, quotaErr, tools, apc, turn, spent, counted, errors, outcome, found,
  asked, overrun, answers,
  regression, ancestor, vpc, vturn, vspent, inspected, status, verdict

A == INSTANCE Analysis
V == INSTANCE Verification

analysisVars == <<tools, apc, turn, spent, counted, errors, outcome, found,
                  asked, overrun, answers>>
verifyVars == <<regression, ancestor, vpc, vturn, vspent, inspected, status, verdict>>
vars == <<phase, mode, quotaErr, analysisVars, verifyVars>>

Init == A!Init /\ V!Init /\ phase = "analysis"

Analyses ==
  /\ phase = "analysis"
  /\ A!Next
  /\ UNCHANGED <<phase, verifyVars>>

\* How run_scan is left: by the error of the analysis, or of the verification.
AnalysisRaised == outcome \in {"quota", "raised"}
Raised == AnalysisRaised \/ vpc = "raised"

\* Without an error run_scan goes on with the result, and what the conversation kept
\* for itself is gone.
AnalysisEnds ==
  /\ phase = "analysis" /\ apc = "ended" /\ ~AnalysisRaised
  /\ phase' = "verify"
  /\ turn' = 0 /\ spent' = 0 /\ counted' = 0
  /\ asked' = 0 /\ overrun' = 0 /\ answers' = {}
  /\ UNCHANGED <<mode, quotaErr, tools, apc, errors, outcome, found, verifyVars>>

Verifies ==
  /\ phase = "verify" /\ found
  /\ V!Next
  /\ UNCHANGED <<phase, analysisVars>>

\* The candidate is verified, or there is none, or verify_findings is off.
VerificationEnds ==
  /\ phase = "verify"
  /\ found => vpc \in {"idle", "ended"}
  /\ phase' = "conclude"
  /\ UNCHANGED <<mode, quotaErr, analysisVars, verifyVars>>

\* Another scan, or another chunk, meets the end of the quota.
QuotaEnds ==
  /\ ~quotaErr /\ quotaErr' = TRUE
  /\ UNCHANGED <<phase, mode, analysisVars, verifyVars>>

Steps == Analyses \/ AnalysisEnds \/ Verifies \/ VerificationEnds

Next == Steps \/ QuotaEnds

Spec == Init /\ [][Next]_vars

\* The conversations go on: that a model call ends, with an answer or an error, and a
\* git command, is assumed of the environment.
FairSpec == Spec /\ WF_vars(Steps)

-----------------------------------------------------------------------------
(* The chunk as ScanRun sees it: one step for its analysis and one for the *)
(* verification of its finding.                                            *)

Analysed == apc = "ended" /\ ~AnalysisRaised

ScanPhase    == IF AnalysisRaised THEN "unwind" ELSE IF vpc = "raised" THEN "finally" ELSE phase
ScanCode     == IF outcome = "quota" THEN "incomplete" ELSE IF Raised THEN "raised" ELSE "none"
ScanAnalysis == IF Analysed THEN outcome ELSE "none"
ScanFinding  == IF Analysed /\ found THEN status ELSE "none"
ScanIssues   == (IF Analysed /\ errors # {} THEN {"analysis"} ELSE {})
                  \cup (IF status = "unverified" THEN {"verification"} ELSE {})

NotBuilt == [complete |-> FALSE, findings |-> {}, candidates |-> {}, built |-> FALSE]

Scan == INSTANCE ScanRun WITH
  Chunks <- {Chunk},
  owned <- FALSE,
  phase <- ScanPhase,
  truncated <- {},
  triage <- [c \in {Chunk} |-> "relevant"],
  analysis <- [c \in {Chunk} |-> ScanAnalysis],
  finding <- [c \in {Chunk} |-> ScanFinding],
  severe <- {},
  sched <- "open",
  profile <- FALSE,
  issues <- ScanIssues,
  report <- NotBuilt,
  saved <- NotBuilt,
  code <- ScanCode

-----------------------------------------------------------------------------
TypeOK == A!TypeOK /\ V!TypeOK /\ phase \in {"analysis", "verify", "conclude"}

\* The conversation with the analysis model is bounded (see Analysis).
ConversationBounded == A!ConversationBounded

\* Its tokens are counted, or the count is called incomplete (see Analysis).
TokensCounted == A!TokensCounted

\* An answer that was lost does not pass for a clean chunk (see Analysis).
NothingLost == phase = "analysis" => A!NothingLost

\* A confirmation rests on matching citations and on revisions that the verifier
\* read itself, a rejection on matching citations (see Verification).
VerdictsProven == V!ConfirmedIsProven /\ V!RejectedIsCited

\* Every step of the two conversations is a step of ScanRun or invisible there:
\* what they make of turns, budgets, repairs, fallbacks, refusals and errors is
\* one of the outcomes that ScanRun reckons with, with the issue recorded that
\* its verdict needs.
StepsOfScanRun == [][Scan!Next]_(Scan!vars)

\* Analysis and verification come to an end, whatever the models answer.
ReviewEnds == <>(phase = "conclude" \/ Raised)
=============================================================================
