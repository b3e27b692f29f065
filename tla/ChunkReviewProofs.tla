------------------------- MODULE ChunkReviewProofs -------------------------
(***************************************************************************)
(* What ChunkReview checks of the two conversations, for any bounds on     *)
(* turns, tokens and costs.  Nothing here depends on fairness.             *)
(***************************************************************************)
EXTENDS ChunkReview, TLAPS

\* Where the analysis stands says what it has asked and collected so far: only the
\* request that is next can still go beyond the turns and the budget.
ConversationInv ==
  /\ A!TypeOK
  /\ apc = "turn" => asked = turn /\ turn < MaxTurns /\ overrun = 0 /\ spent <= Budget
  /\ apc = "final" => asked <= MaxTurns /\ overrun = 0
  /\ apc = "repair" => asked <= MaxTurns + 1 /\ overrun <= 1
  /\ asked <= MaxTurns + 2 /\ overrun <= 2

\* Nothing is counted or recorded before the conversation ends, and a single turn
\* without an error before it is one of a provider that has no tools.
CountInv ==
  /\ apc \in {"turn", "final", "repair"} => counted = 0 /\ errors = {}
  /\ ~tools /\ apc = "turn" => spent = 0
  /\ apc = "single" /\ errors = {} => counted = spent
  /\ counted <= spent
  /\ apc = "ended" /\ errors = {} /\ ~AnalysisRaised => counted = spent

\* The answers looked at, as long as the analysis goes on.
AnswersInv ==
  phase = "analysis" =>
    /\ apc # "ended" => outcome = "none"
    /\ apc \in {"turn", "final"} => answers = {}
    /\ apc = "repair" => answers = {"invalid"}
    /\ apc = "single" /\ errors = {} => answers = {}
    /\ A!NothingLost

AnalysisInv == ConversationInv /\ CountInv /\ AnswersInv

\* A candidate is confirmed or rejected by the last step of its verification only,
\* so that what the verdict rests on stays as it was judged.
VerdictInv ==
  /\ inspected \subseteq V!Revisions
  /\ vpc # "ended" => status \notin {"confirmed", "rejected"}
  /\ VerdictsProven

\* The outcome is settled when the analysis ends, and tells its errors.
OutcomeInv ==
  /\ apc # "ended" <=> outcome = "none"
  /\ outcome \in {"none", "failed"} => ~found
  /\ phase # "analysis" => apc = "ended"
  /\ AnalysisRaised => phase = "analysis"
  /\ apc = "ended" /\ errors # {} => outcome # "done"
  /\ apc = "ended" /\ errors = {} => outcome = "done" \/ AnalysisRaised

\* A candidate is no more than that until its verification ends.
CandidateInv ==
  /\ phase = "analysis" => vpc = "idle"
  /\ vpc \in {"idle", "asking", "ended", "raised"}
  /\ vpc = "raised" => phase = "verify" /\ found
  /\ vpc # "ended" => status = "candidate"
  /\ status # "candidate" => found
  /\ status \in {"candidate", "confirmed", "needs_review", "rejected", "unverified"}

ReviewInv == AnalysisInv /\ VerdictInv /\ OutcomeInv /\ CandidateInv

-----------------------------------------------------------------------------
(* The analysis.  A!vars but mode and quotaErr are analysisVars.           *)

LEMMA AnalysisInvInit ==
  ASSUME Init
  PROVE  AnalysisInv
<1>1. A!Init
  BY DEF Init
<1>2. A!TypeOK
  <2>1. /\ turn \in 0..MaxTurns
        /\ spent \in Nat /\ counted \in Nat /\ asked \in Nat /\ overrun \in Nat
    BY <1>1, BoundsAssumption DEF A!Init
  <2>2. /\ apc \in {"turn", "final", "repair", "single", "ended"}
        /\ errors \subseteq {"parse", "provider", "single"}
        /\ outcome \in {"none", "done", "degraded", "failed", "quota", "raised"}
        /\ answers \subseteq A!Answers
    BY <1>1 DEF A!Init
  <2>3. /\ mode \in {"fail_fast", "heuristic", "legacy"}
        /\ quotaErr \in BOOLEAN /\ tools \in BOOLEAN /\ found \in BOOLEAN
    BY <1>1, Zenon DEF A!Init
  <2> QED BY <2>1, <2>2, <2>3 DEF A!TypeOK
<1>3. ConversationInv
  BY <1>1, <1>2, BoundsAssumption DEF A!Init, ConversationInv
<1>4. CountInv
  BY <1>1 DEF A!Init, CountInv, AnalysisRaised
<1>5. AnswersInv
  BY <1>1 DEF A!Init, AnswersInv, A!NothingLost
<1> QED BY <1>3, <1>4, <1>5 DEF AnalysisInv

\* What a request that is answered, or that fails, adds.
LEMMA RequestCounted ==
  ASSUME ConversationInv, apc \in {"turn", "final", "repair"},
         asked' = asked + 1,
         overrun' = IF spent > Budget THEN overrun + 1 ELSE overrun
  PROVE  /\ asked' \in Nat /\ overrun' \in Nat
         /\ asked' <= MaxTurns + 2 /\ overrun' <= 2
         /\ apc = "turn" => asked' <= MaxTurns /\ overrun' = 0
         /\ apc = "final" => asked' <= MaxTurns + 1 /\ overrun' <= 1
BY BoundsAssumption DEF ConversationInv, A!TypeOK

LEMMA TurnStep ==
  ASSUME AnalysisInv, phase' = phase, NEW cost \in A!Costs, A!TakesTurn(cost)
  PROVE  AnalysisInv'
<1>1. /\ cost \in Nat /\ apc = "turn" /\ turn' = turn + 1 /\ spent' = spent + cost
      /\ apc' = IF spent' > Budget \/ turn' = MaxTurns THEN "final" ELSE "turn"
      /\ tools /\ asked' = asked + 1
      /\ overrun' = IF spent > Budget THEN overrun + 1 ELSE overrun
      /\ UNCHANGED <<mode, quotaErr, tools, counted, errors, outcome, found, answers>>
  BY BoundsAssumption DEF A!TakesTurn, A!Asks, A!NextTurn, A!Costs
<1>2. ConversationInv'
  BY <1>1, RequestCounted, BoundsAssumption DEF AnalysisInv, ConversationInv, A!TypeOK
<1>3. CountInv'
  BY <1>1, BoundsAssumption DEF AnalysisInv, ConversationInv, CountInv, AnalysisRaised, A!TypeOK
<1>4. AnswersInv'
  BY <1>1 DEF AnalysisInv, AnswersInv, A!NothingLost
<1> QED BY <1>2, <1>3, <1>4 DEF AnalysisInv

\* An answer that has the form asked for ends the analysis.
LEMMA SuccessKeeps ==
  ASSUME AnalysisInv, phase' = phase, NEW answer \in {"findings", "nothing"},
         apc \in {"turn", "final", "repair"}, apc = "repair" => answer = "findings",
         A!Succeeds(answer), answers' = answers \cup {answer},
         spent' \in Nat, asked' \in Nat, overrun' \in Nat,
         asked' <= MaxTurns + 2, overrun' <= 2,
         UNCHANGED <<mode, quotaErr, tools, turn>>
  PROVE  AnalysisInv'
<1>1. /\ apc' = "ended" /\ outcome' = "done" /\ errors' = errors
      /\ found' = (answer = "findings") /\ counted' = spent'
  BY DEF A!Succeeds
<1>2. ConversationInv'
  BY <1>1 DEF AnalysisInv, ConversationInv, A!TypeOK, A!Answers
<1>3. CountInv'
  BY <1>1 DEF AnalysisInv, CountInv, AnalysisRaised
<1>4. AnswersInv'
  BY <1>1 DEF AnalysisInv, AnswersInv, A!NothingLost
<1> QED BY <1>2, <1>3, <1>4 DEF AnalysisInv

\* A conversation that failed goes over to the single turn with its error.
LEMMA FallbackKeeps ==
  ASSUME AnalysisInv, phase' = phase,
         NEW error \in {"parse", "provider"}, NEW n \in Nat,
         apc \in {"turn", "final", "repair"}, A!Fallback(error, n),
         answers' \subseteq A!Answers, spent' \in Nat, n <= spent',
         asked' \in Nat, overrun' \in Nat, asked' <= MaxTurns + 2, overrun' <= 2,
         UNCHANGED <<mode, quotaErr, tools, turn>>
  PROVE  AnalysisInv'
<1>1. /\ apc' = "single" /\ errors' = errors \cup {error} /\ counted' = n
      /\ outcome' = outcome /\ found' = found
  BY DEF A!Fallback
<1>2. ConversationInv'
  BY <1>1 DEF AnalysisInv, ConversationInv, A!TypeOK
<1>3. CountInv'
  BY <1>1 DEF AnalysisInv, CountInv, AnalysisRaised
<1>4. AnswersInv'
  BY <1>1 DEF AnalysisInv, AnswersInv, A!NothingLost
<1> QED BY <1>2, <1>3, <1>4 DEF AnalysisInv

LEMMA FinalAnswerStep ==
  ASSUME AnalysisInv, phase' = phase, NEW cost \in A!Costs, NEW answer \in A!Answers,
         A!FinalAnswer(cost, answer)
  PROVE  AnalysisInv'
<1>1. /\ cost \in Nat /\ apc \in {"turn", "final"} /\ spent' = spent + cost
      /\ tools /\ asked' = asked + 1
      /\ overrun' = IF spent > Budget THEN overrun + 1 ELSE overrun
      /\ answers' = answers \cup {answer}
      /\ UNCHANGED <<mode, quotaErr, tools, turn>>
  BY BoundsAssumption DEF A!FinalAnswer, A!Asks, A!Costs
<1>2. spent' \in Nat
  BY <1>1 DEF AnalysisInv, ConversationInv, A!TypeOK
<1>3. /\ asked' \in Nat /\ overrun' \in Nat
      /\ asked' <= MaxTurns + 1 /\ overrun' <= 1
  BY <1>1, RequestCounted, BoundsAssumption DEF AnalysisInv
<1>4. CASE answer = "invalid"
  <2>1. apc' = "repair" /\ UNCHANGED <<counted, errors, outcome, found>>
    BY <1>4 DEF A!FinalAnswer
  <2>2. ConversationInv'
    BY <1>1, <1>2, <1>3, <2>1, BoundsAssumption
       DEF AnalysisInv, ConversationInv, A!TypeOK
  <2>3. CountInv'
    BY <1>1, <1>2, <2>1 DEF AnalysisInv, CountInv, AnalysisRaised
  <2>4. AnswersInv'
    BY <1>1, <1>4, <2>1 DEF AnalysisInv, AnswersInv, A!NothingLost
  <2> QED BY <2>2, <2>3, <2>4 DEF AnalysisInv
<1>5. CASE answer # "invalid"
  <2>1. A!Succeeds(answer) /\ answer \in {"findings", "nothing"}
    BY <1>5 DEF A!FinalAnswer, A!Answers
  <2>2. asked' <= MaxTurns + 2 /\ overrun' <= 2
    BY <1>3, BoundsAssumption
  <2> QED BY <1>1, <1>2, <1>3, <2>1, <2>2, SuccessKeeps
<1> QED BY <1>4, <1>5

LEMMA RepairStep ==
  ASSUME AnalysisInv, phase' = phase, NEW cost \in A!Costs, NEW answer \in A!Answers,
         A!Repaired(cost, answer)
  PROVE  AnalysisInv'
<1>1. /\ cost \in Nat /\ apc = "repair" /\ spent' = spent + cost
      /\ asked' = asked + 1
      /\ overrun' = IF spent > Budget THEN overrun + 1 ELSE overrun
      /\ answers' = answers \cup {answer}
      /\ UNCHANGED <<mode, quotaErr, tools, turn>>
  BY BoundsAssumption DEF A!Repaired, A!Asks, A!Costs
<1>2. spent' \in Nat /\ answers' \subseteq A!Answers
  BY <1>1 DEF AnalysisInv, ConversationInv, A!TypeOK
<1>3. /\ asked' \in Nat /\ overrun' \in Nat
      /\ asked' <= MaxTurns + 2 /\ overrun' <= 2
  BY <1>1, RequestCounted DEF AnalysisInv
<1>4. CASE answer = "findings"
  <2>1. A!Succeeds(answer)
    BY <1>4 DEF A!Repaired, A!Accepted
  <2> QED BY <1>1, <1>2, <1>3, <1>4, <2>1, SuccessKeeps
<1>5. CASE answer # "findings"
  <2>1. A!Fallback("parse", spent')
    BY <1>5 DEF A!Repaired, A!Accepted
  <2>2. spent' <= spent'
    BY <1>2
  <2> QED BY <1>1, <1>2, <1>3, <2>1, <2>2, FallbackKeeps
<1> QED BY <1>4, <1>5

LEMMA RequestFailsStep ==
  ASSUME AnalysisInv, phase' = phase, A!RequestFails
  PROVE  AnalysisInv'
<1>1. /\ apc \in {"turn", "final", "repair"}
      /\ asked' = asked + 1
      /\ overrun' = IF spent > Budget THEN overrun + 1 ELSE overrun
      /\ UNCHANGED <<mode, quotaErr, tools, turn, spent, answers>>
  BY DEF A!RequestFails
<1>2. spent' \in Nat /\ spent <= spent' /\ 0 <= spent' /\ answers' \subseteq A!Answers
  BY <1>1 DEF AnalysisInv, ConversationInv, A!TypeOK
<1>3. /\ asked' \in Nat /\ overrun' \in Nat
      /\ asked' <= MaxTurns + 2 /\ overrun' <= 2
  BY <1>1, RequestCounted DEF AnalysisInv
<1>4. \/ A!Fallback("parse", spent) /\ spent \in Nat
      \/ A!Fallback("provider", 0)
  BY DEF A!RequestFails, AnalysisInv, ConversationInv, A!TypeOK
<1> QED BY <1>1, <1>2, <1>3, <1>4, FallbackKeeps

LEMMA RequestRaisesStep ==
  ASSUME AnalysisInv, phase' = phase, A!RequestRaises
  PROVE  AnalysisInv'
<1>1. /\ apc # "ended" /\ apc' = "ended" /\ outcome' = "raised"
      /\ UNCHANGED <<mode, quotaErr, tools, turn, spent, counted, errors, found, answers>>
  BY DEF A!RequestRaises
<1>2. /\ asked' \in Nat /\ overrun' \in Nat
      /\ asked' <= MaxTurns + 2 /\ overrun' <= 2
  <2>1. CASE apc = "single"
    BY <2>1 DEF A!RequestRaises, AnalysisInv, ConversationInv, A!TypeOK
  <2>2. CASE apc # "single"
    <3>1. /\ apc \in {"turn", "final", "repair"} /\ asked' = asked + 1
          /\ overrun' = IF spent > Budget THEN overrun + 1 ELSE overrun
      BY <1>1, <2>2 DEF A!RequestRaises, AnalysisInv, ConversationInv, A!TypeOK
    <3> QED BY <3>1, RequestCounted DEF AnalysisInv
  <2> QED BY <2>1, <2>2
<1> QED BY <1>1, <1>2 DEF AnalysisInv, ConversationInv, CountInv, AnalysisRaised, AnswersInv, A!TypeOK,
                          A!NothingLost, AnalysisRaised

LEMMA NoToolsStep ==
  ASSUME AnalysisInv, phase' = phase, A!NoTools
  PROVE  AnalysisInv'
<1>1. /\ apc = "turn" /\ ~tools /\ apc' = "single"
      /\ UNCHANGED <<mode, quotaErr, tools, turn, spent, counted, errors, outcome, found>>
      /\ UNCHANGED <<asked, overrun, answers>>
  BY DEF A!NoTools
<1> QED BY <1>1 DEF AnalysisInv, ConversationInv, CountInv, AnalysisRaised, AnswersInv, A!TypeOK,
                    A!NothingLost

LEMMA SingleStep ==
  ASSUME AnalysisInv, phase' = phase,
         \/ \E cost \in A!Costs, a \in {"findings", "nothing"} : A!SingleAnswers(cost, a)
         \/ A!SingleFails
         \/ A!SingleQuota
  PROVE  AnalysisInv'
<1>1. CASE \E cost \in A!Costs, a \in {"findings", "nothing"} : A!SingleAnswers(cost, a)
  <2>1. PICK cost \in A!Costs, a \in {"findings", "nothing"} : A!SingleAnswers(cost, a)
    BY <1>1
  <2>2. cost \in Nat
    BY BoundsAssumption DEF A!Costs
  <2>3. ConversationInv'
    BY <2>1, <2>2 DEF AnalysisInv, ConversationInv, A!TypeOK, A!SingleAnswers, A!Answers
  <2>4. CountInv'
    BY <2>1, <2>2 DEF AnalysisInv, ConversationInv, A!TypeOK, CountInv, AnalysisRaised, A!SingleAnswers
  <2>5. AnswersInv'
    BY <2>1 DEF AnalysisInv, AnswersInv, A!NothingLost, A!SingleAnswers
  <2> QED BY <2>3, <2>4, <2>5 DEF AnalysisInv
<1>2. CASE A!SingleFails
  BY <1>2 DEF A!SingleFails, AnalysisInv, ConversationInv, CountInv, AnalysisRaised, AnswersInv,
              A!TypeOK, A!NothingLost
<1>3. CASE A!SingleQuota
  BY <1>3 DEF A!SingleQuota, AnalysisInv, ConversationInv, CountInv, AnalysisRaised, AnswersInv,
              A!TypeOK, A!NothingLost
<1> QED BY <1>1, <1>2, <1>3

LEMMA AnalysisInvStep ==
  ASSUME AnalysisInv, [Next]_vars
  PROVE  AnalysisInv'
<1>1. CASE Analyses
  <2>1. phase' = phase /\ A!Next
    BY <1>1 DEF Analyses
  <2> QED BY <2>1, TurnStep, FinalAnswerStep, RepairStep, RequestFailsStep, RequestRaisesStep,
             NoToolsStep, SingleStep DEF A!Next
<1>2. CASE AnalysisEnds
  BY <1>2, BoundsAssumption
     DEF AnalysisEnds, AnalysisInv, ConversationInv, CountInv, AnalysisRaised, AnswersInv, A!TypeOK
<1>3. CASE Verifies
  <2>1. /\ UNCHANGED <<phase, tools, apc, turn, spent, counted, errors, outcome, found>>
        /\ UNCHANGED <<asked, overrun, answers>>
    BY <1>3 DEF Verifies, analysisVars
  <2>2. UNCHANGED <<mode, quotaErr>>
    BY <1>3 DEF Verifies, V!Next, V!Starts, V!Fails, V!Raises, V!ReadsSource, V!Decides
  <2> QED BY <2>1, <2>2 DEF AnalysisInv, ConversationInv, CountInv, AnalysisRaised, AnswersInv, A!TypeOK,
                            A!NothingLost
<1>4. CASE VerificationEnds
  BY <1>4 DEF VerificationEnds, analysisVars, AnalysisInv, ConversationInv, CountInv, AnalysisRaised,
              AnswersInv, A!TypeOK, A!NothingLost
<1>5. CASE QuotaEnds
  BY <1>5 DEF QuotaEnds, analysisVars, AnalysisInv, ConversationInv, CountInv, AnalysisRaised,
              AnswersInv, A!TypeOK, A!NothingLost
<1>6. CASE UNCHANGED vars
  BY <1>6 DEF vars, analysisVars, AnalysisInv, ConversationInv, CountInv, AnalysisRaised,
              AnswersInv, A!TypeOK, A!NothingLost
<1> QED BY <1>1, <1>2, <1>3, <1>4, <1>5, <1>6 DEF Next, Steps

LEMMA AnalysisInvariant == Spec => []AnalysisInv
<1>1. Init => AnalysisInv
  BY AnalysisInvInit
<1>2. AnalysisInv /\ [Next]_vars => AnalysisInv'
  BY AnalysisInvStep
<1> QED BY <1>1, <1>2, PTL DEF Spec

-----------------------------------------------------------------------------
(* The verification                                                        *)

\* apply_decision, the citation check and the check of the revisions read, taken
\* together, let a verdict pass only with its proof.
LEMMA JudgedIsProven ==
  ASSUME NEW d \in V!Decisions, inspected \subseteq V!Revisions
  PROVE  /\ V!Judged(d) \in V!Verdicts
         /\ V!Judged(d) = "confirmed" =>
              /\ d.verdict = "confirmed" /\ d.argued
              /\ d.cited # {} /\ d.exact = d.cited
              /\ "after" \in inspected
              /\ regression =>
                   ancestor /\ inspected = V!Revisions /\ d.cited = V!Revisions
         /\ V!Judged(d) = "rejected" => d.cited # {} /\ d.exact = d.cited
<1>1. d.verdict \in V!Verdicts
  BY DEF V!Decisions
<1>2. V!Judged(d) \in V!Verdicts
  BY <1>1 DEF V!Judged, V!Verdicts
<1>3. CASE V!Judged(d) = "needs_review"
  BY <1>2, <1>3
<1>4. CASE V!Judged(d) # "needs_review"
  <2>1. /\ V!Judged(d) = d.verdict
        /\ ~V!Missing(d)
        /\ d.exact = d.cited
        /\ d.verdict = "confirmed" => V!Required \subseteq inspected
    BY <1>4 DEF V!Judged
  <2>2. d.cited # {}
    BY <2>1 DEF V!Missing
  <2>3. ASSUME d.verdict = "confirmed"
        PROVE  d.argued /\ (regression => ancestor /\ d.cited = V!Revisions)
    BY <2>1, <2>3, Zenon DEF V!Missing
  <2>4. ASSUME d.verdict = "confirmed"
        PROVE  "after" \in inspected /\ (regression => inspected = V!Revisions)
    BY <2>1, <2>4 DEF V!Required, V!Revisions
  <2> QED BY <1>2, <2>1, <2>2, <2>3, <2>4
<1> QED BY <1>3, <1>4

LEMMA VerificationStep ==
  ASSUME VerdictInv, V!Next
  PROVE  VerdictInv'
<1>1. CASE V!Starts \/ V!Fails \/ V!Raises
  <2>1. /\ vpc # "ended" /\ inspected' = inspected
        /\ status' \in {status, "unverified"}
    BY <1>1 DEF V!Starts, V!Fails, V!Raises
  <2> QED BY <2>1 DEF VerdictInv, VerdictsProven, V!ConfirmedIsProven, V!RejectedIsCited
<1>2. ASSUME NEW cost \in 0..MaxCost, NEW r \in SUBSET V!Revisions, V!ReadsSource(cost, r)
      PROVE  VerdictInv'
  <2>1. /\ vpc = "asking" /\ status' = status
        /\ inspected' = inspected \cup r
    BY <1>2 DEF V!ReadsSource, V!Asks
  <2> QED BY <2>1 DEF VerdictInv, VerdictsProven, V!ConfirmedIsProven, V!RejectedIsCited
<1>3. ASSUME NEW cost \in 0..MaxCost, NEW d \in V!Decisions, V!Decides(cost, d)
      PROVE  VerdictInv'
  <2>1. /\ vpc' = "ended" /\ status' = V!Judged(d) /\ verdict' = d
        /\ regression' = regression /\ ancestor' = ancestor /\ inspected' = inspected
    BY <1>3 DEF V!Decides, V!candidateVars
  <2>2. inspected \subseteq V!Revisions
    BY DEF VerdictInv
  <2>3. VerdictsProven'
    BY <2>1, <2>2, JudgedIsProven DEF VerdictsProven, V!ConfirmedIsProven, V!RejectedIsCited
  <2> QED BY <2>1, <2>2, <2>3 DEF VerdictInv
<1> QED BY <1>1, <1>2, <1>3 DEF V!Next

LEMMA VerdictInvStep ==
  ASSUME VerdictInv, [Next]_vars
  PROVE  VerdictInv'
<1>1. CASE Verifies
  BY <1>1, VerificationStep DEF Verifies
<1>2. CASE Analyses \/ AnalysisEnds \/ VerificationEnds \/ QuotaEnds \/ UNCHANGED vars
  <2>1. UNCHANGED verifyVars
    BY <1>2 DEF Analyses, AnalysisEnds, VerificationEnds, QuotaEnds, vars
  <2> QED BY <2>1 DEF verifyVars, VerdictInv, VerdictsProven, V!ConfirmedIsProven,
                      V!RejectedIsCited
<1> QED BY <1>1, <1>2 DEF Next, Steps

LEMMA VerdictInvariant == Spec => []VerdictInv
<1>1. Init => VerdictInv
  <2>1. ASSUME V!Init PROVE VerdictInv
    BY <2>1 DEF V!Init, VerdictInv, VerdictsProven, V!ConfirmedIsProven, V!RejectedIsCited
  <2> QED BY <2>1 DEF Init
<1>2. VerdictInv /\ [Next]_vars => VerdictInv'
  BY VerdictInvStep
<1> QED BY <1>1, <1>2, PTL DEF Spec

-----------------------------------------------------------------------------
(* The chunk in ScanRun.                                                   *)

\* How a step of the analysis moves on: it goes on, it ends with an answer of the
\* conversation, or the single turn ends it.
LEMMA AnalysisMoves ==
  ASSUME AnalysisInv, OutcomeInv, A!Next
  PROVE  /\ apc # "ended" /\ mode' = mode
         /\ outcome' \in {"none", "failed"} => found' = found
         /\ \/ apc' # "ended" /\ outcome' = outcome /\ quotaErr' = quotaErr
            \/ /\ apc' = "ended" /\ outcome' = "done" /\ errors' = {}
               /\ ~A!Refused /\ quotaErr' = quotaErr
            \/ /\ apc' = "ended" /\ errors' = errors
               /\ outcome' = IF errors = {} THEN "done" ELSE "degraded"
               /\ ~A!Refused /\ quotaErr' = quotaErr
            \/ /\ apc' = "ended" /\ outcome' = "failed" /\ errors' # {}
               /\ ~A!Refused /\ quotaErr' = quotaErr
            \/ /\ apc' = "ended" /\ outcome' = "failed" /\ errors' # {}
               /\ quotaErr' = TRUE /\ mode # "fail_fast"
            \/ /\ apc' = "ended" /\ outcome' = "quota"
               /\ quotaErr' = TRUE /\ mode = "fail_fast"
            \/ apc' = "ended" /\ outcome' = "raised" /\ UNCHANGED <<quotaErr, found, errors>>
<1>1. ASSUME NEW cost \in A!Costs, A!TakesTurn(cost)
      PROVE  /\ apc # "ended" /\ apc' # "ended" /\ outcome' = outcome
             /\ UNCHANGED <<mode, quotaErr, found>>
  BY <1>1 DEF A!TakesTurn, A!NextTurn
<1>2. ASSUME NEW cost \in A!Costs, NEW a \in A!Answers,
             A!FinalAnswer(cost, a) \/ A!Repaired(cost, a)
      PROVE  /\ apc # "ended" /\ UNCHANGED <<mode, quotaErr>>
             /\ \/ apc' # "ended" /\ outcome' = outcome /\ found' = found
                \/ apc' = "ended" /\ outcome' = "done" /\ errors' = {} /\ ~A!Refused
  BY <1>2 DEF A!FinalAnswer, A!Repaired, A!Succeeds, A!Fallback, A!Asks,
              AnalysisInv, CountInv
<1>3. ASSUME NEW cost \in A!Costs, NEW a \in {"findings", "nothing"},
             A!SingleAnswers(cost, a)
      PROVE  /\ apc # "ended" /\ UNCHANGED <<mode, quotaErr>>
             /\ apc' = "ended" /\ errors' = errors /\ ~A!Refused
             /\ outcome' = IF errors = {} THEN "done" ELSE "degraded"
  BY <1>3 DEF A!SingleAnswers
<1>4. ASSUME A!RequestFails \/ A!NoTools
      PROVE  /\ apc # "ended" /\ apc' # "ended" /\ outcome' = outcome
             /\ UNCHANGED <<mode, quotaErr, found>>
  BY <1>4 DEF A!RequestFails, A!NoTools, A!Fallback
<1>5. ASSUME A!SingleFails
      PROVE  /\ apc # "ended" /\ UNCHANGED <<mode, quotaErr, found>> /\ ~A!Refused
             /\ apc' = "ended" /\ outcome' = "failed" /\ errors' # {}
  BY <1>5 DEF A!SingleFails
<1>6. ASSUME A!SingleQuota
      PROVE  /\ apc # "ended" /\ mode' = mode /\ quotaErr' = TRUE /\ apc' = "ended"
             /\ found' = found
             /\ \/ outcome' = "quota" /\ mode = "fail_fast"
                \/ outcome' = "failed" /\ errors' # {} /\ mode # "fail_fast"
  BY <1>6 DEF A!SingleQuota
<1>7. ASSUME A!RequestRaises
      PROVE  /\ apc # "ended" /\ apc' = "ended" /\ outcome' = "raised"
             /\ UNCHANGED <<mode, quotaErr, found, errors>>
  BY <1>7 DEF A!RequestRaises
<1> QED BY <1>1, <1>2, <1>3, <1>4, <1>5, <1>6, <1>7 DEF A!Next

\* The same of a step of the verification: it goes on, fails, or ends with a verdict.
LEMMA VerificationMoves ==
  ASSUME VerdictInv, CandidateInv, V!Next
  PROVE  /\ vpc \in {"idle", "asking"} /\ UNCHANGED <<mode, quotaErr>>
         /\ \/ vpc' = "asking" /\ status' = "candidate"
            \/ vpc' = "raised" /\ status' = "candidate"
            \/ vpc' = "ended" /\ status' = "unverified"
            \/ vpc' = "ended" /\ status' \in V!Verdicts /\ ~V!Refused
<1>1. ASSUME V!Starts \/ V!Fails
      PROVE  /\ vpc \in {"idle", "asking"} /\ UNCHANGED <<mode, quotaErr>>
             /\ \/ vpc' = "asking" /\ status' = "candidate"
                \/ vpc' = "ended" /\ status' = "unverified"
  BY <1>1 DEF V!Starts, V!Fails, CandidateInv
<1>2. ASSUME NEW cost \in 0..MaxCost, NEW r \in SUBSET V!Revisions, V!ReadsSource(cost, r)
      PROVE  vpc = "asking" /\ vpc' = vpc /\ status' = "candidate" /\ UNCHANGED <<mode, quotaErr>>
  BY <1>2 DEF V!ReadsSource, V!Asks, CandidateInv
<1>3. ASSUME NEW cost \in 0..MaxCost, NEW d \in V!Decisions, V!Decides(cost, d)
      PROVE  /\ vpc = "asking" /\ UNCHANGED <<mode, quotaErr>>
             /\ vpc' = "ended" /\ status' \in V!Verdicts /\ ~V!Refused
  <2>1. status' = V!Judged(d) /\ inspected \subseteq V!Revisions
    BY <1>3 DEF V!Decides, VerdictInv
  <2>2. V!Judged(d) \in V!Verdicts
    BY <2>1, JudgedIsProven
  <2> QED BY <1>3, <2>1, <2>2 DEF V!Decides, V!Asks
<1>4. ASSUME V!Raises
      PROVE  /\ vpc = "asking" /\ UNCHANGED <<mode, quotaErr>>
             /\ vpc' = "raised" /\ status' = "candidate"
  BY <1>4 DEF V!Raises, CandidateInv
<1> QED BY <1>1, <1>2, <1>3, <1>4 DEF V!Next

LEMMA ReviewInvInit ==
  ASSUME Init
  PROVE  OutcomeInv /\ CandidateInv
<1>1. A!Init /\ V!Init /\ phase = "analysis"
  BY DEF Init
<1>2. OutcomeInv
  BY <1>1 DEF A!Init, OutcomeInv
<1>3. CandidateInv
  BY <1>1 DEF V!Init, CandidateInv
<1> QED BY <1>2, <1>3

LEMMA ReviewInvStep ==
  ASSUME ReviewInv, [Next]_vars
  PROVE  (OutcomeInv /\ CandidateInv)'
<1> USE DEF ReviewInv, AnalysisRaised, Raised
<1>1. CASE Analyses
  <2>1. phase = "analysis" /\ A!Next /\ phase' = phase /\ UNCHANGED verifyVars
    BY <1>1 DEF Analyses
  <2>2. OutcomeInv'
    <3>1. apc # "ended" /\ outcome = "none" /\ ~found
      BY <2>1, AnalysisMoves DEF OutcomeInv
    <3>2. outcome' \in {"none", "failed"} => ~found'
      BY <2>1, <3>1, AnalysisMoves
    <3> QED BY <2>1, <3>1, <3>2, AnalysisMoves DEF OutcomeInv
  <2>3. CandidateInv'
    BY <2>1 DEF CandidateInv, verifyVars
  <2> QED BY <2>2, <2>3
<1>2. CASE AnalysisEnds
  BY <1>2 DEF AnalysisEnds, verifyVars, OutcomeInv, CandidateInv
<1>3. CASE Verifies
  <2>1. phase = "verify" /\ found /\ V!Next /\ phase' = phase /\ UNCHANGED analysisVars
    BY <1>3 DEF Verifies
  <2>2. OutcomeInv'
    BY <2>1 DEF OutcomeInv, analysisVars
  <2>3. CandidateInv'
    BY <2>1, VerificationMoves DEF CandidateInv, analysisVars, V!Verdicts
  <2> QED BY <2>2, <2>3
<1>4. CASE VerificationEnds
  BY <1>4 DEF VerificationEnds, verifyVars, analysisVars, OutcomeInv, CandidateInv
<1>5. CASE QuotaEnds \/ UNCHANGED vars
  BY <1>5 DEF QuotaEnds, vars, verifyVars, analysisVars, OutcomeInv, CandidateInv
<1> QED BY <1>1, <1>2, <1>3, <1>4, <1>5 DEF Next, Steps

LEMMA ReviewInvariant == Spec => []ReviewInv
<1>1. Init => OutcomeInv /\ CandidateInv
  BY ReviewInvInit
<1>2. ReviewInv /\ [Next]_vars => (OutcomeInv /\ CandidateInv)'
  BY ReviewInvStep
<1> QED BY <1>1, <1>2, AnalysisInvariant, VerdictInvariant, PTL DEF Spec, ReviewInv

scanView == <<mode, quotaErr, ScanPhase, ScanAnalysis, ScanFinding, ScanIssues, ScanCode>>

LEMMA ScanStutters ==
  ASSUME UNCHANGED scanView
  PROVE  UNCHANGED Scan!vars
BY DEF scanView, Scan!vars

\* A function over the one chunk, updated there.
LEMMA OneChunk ==
  ASSUME NEW x, NEW y
  PROVE  /\ [[c \in {Chunk} |-> x] EXCEPT ![Chunk] = y] = [c \in {Chunk} |-> y]
         /\ [c \in {Chunk} |-> x][Chunk] = x
OBVIOUS

\* The conversation succeeds.
LEMMA AgenticMatches ==
  ASSUME ScanPhase = "analysis", ScanAnalysis = "none", ScanFinding = "none",
         ~(quotaErr /\ mode = "fail_fast"),
         ScanAnalysis' = "done", ScanFinding' \in {"none", "candidate"},
         UNCHANGED <<mode, quotaErr, ScanPhase, ScanIssues, ScanCode>>
  PROVE  Scan!Next
<1>1. Scan!AnalysesAgentic(Chunk)
  BY OneChunk DEF Scan!AnalysesAgentic, Scan!YieldsFinding, Scan!Relevant, Scan!FailFast,
                  Scan!settings, Scan!resultVars, NotBuilt
<1> QED BY <1>1 DEF Scan!Next, Scan!Steps

\* The single turn ends with outcome, after a conversation that failed or not.
LEMMA SingleMatches ==
  ASSUME ScanPhase = "analysis", ScanAnalysis = "none", ScanFinding = "none",
         ScanIssues = {},
         NEW outcome1 \in Scan!Outcomes, NEW agenticFailed \in BOOLEAN,
         quotaErr /\ mode = "fail_fast" => agenticFailed,
         ~(outcome1 = "quota" /\ mode = "fail_fast"),
         quotaErr' = (quotaErr \/ outcome1 = "quota"),
         ScanAnalysis' = IF outcome1 # "ok" THEN "failed"
                         ELSE IF agenticFailed THEN "degraded" ELSE "done",
         ScanIssues' = IF outcome1 # "ok" \/ agenticFailed THEN {"analysis"} ELSE {},
         ScanFinding' \in {"none", "candidate"},
         ScanAnalysis' = "failed" => ScanFinding' = "none",
         UNCHANGED <<mode, ScanPhase, ScanCode>>
  PROVE  Scan!Next
<1>1. Scan!Single(Chunk, outcome1, agenticFailed)
  BY OneChunk DEF Scan!Single
<1>2. Scan!YieldsFinding(Chunk)
  BY OneChunk DEF Scan!YieldsFinding
<1>3. Scan!AnalysesSingle(Chunk)
  BY <1>1, <1>2, OneChunk
     DEF Scan!AnalysesSingle, Scan!QuotaAfter, Scan!Relevant, Scan!FailFast,
         Scan!settings, NotBuilt
<1> QED BY <1>3 DEF Scan!Next, Scan!Steps

\* It ends with the quota, which ends the scan.
LEMMA QuotaMatches ==
  ASSUME ScanPhase = "analysis", ScanAnalysis = "none", mode = "fail_fast",
         quotaErr' = TRUE, ScanPhase' = "unwind", ScanCode' = "incomplete",
         UNCHANGED <<mode, ScanAnalysis, ScanFinding, ScanIssues>>
  PROVE  Scan!Next
<1>1. "quota" \in Scan!Outcomes
  BY DEF Scan!Outcomes
<1>2. Scan!AnalysesSingle(Chunk)
  BY <1>1, OneChunk
     DEF Scan!AnalysesSingle, Scan!QuotaAfter, Scan!Relevant, Scan!FailFast, Scan!Unwinds,
         Scan!settings, NotBuilt
<1> QED BY <1>2 DEF Scan!Next, Scan!Steps

\* An exception leaves the scan.
LEMMA RaiseMatches ==
  ASSUME ScanCode' = "raised",
         \/ ScanPhase = "analysis" /\ ScanAnalysis = "none" /\ ScanPhase' = "unwind"
         \/ ScanPhase = "verify" /\ ScanFinding = "candidate" /\ ScanPhase' = "finally",
         UNCHANGED <<mode, quotaErr, ScanAnalysis, ScanFinding, ScanIssues>>
  PROVE  Scan!Next
<1>1. ScanAnalysis = "none" => Scan!Unfinished # {}
  BY OneChunk DEF Scan!Unfinished, Scan!Triaged, Scan!Relevant
<1>2. Scan!CallRaises
  BY <1>1, OneChunk DEF Scan!CallRaises, Scan!Unwinds, Scan!Leaves, Scan!settings,
                        Scan!chunkVars, NotBuilt
<1> QED BY <1>2 DEF Scan!Next, Scan!Steps

\* The candidate gets its verdict, or the verifier fails.
LEMMA VerdictMatches ==
  ASSUME ScanPhase = "verify", ScanFinding = "candidate", ScanIssues \subseteq {"analysis"},
         NEW v \in {"confirmed", "needs_review", "rejected", "error"},
         quotaErr /\ mode = "fail_fast" => v = "error",
         ScanFinding' = IF v = "error" THEN "unverified" ELSE v,
         ScanIssues' = ScanIssues \cup IF v = "error" THEN {"verification"} ELSE {},
         UNCHANGED <<mode, quotaErr, ScanPhase, ScanAnalysis, ScanCode>>
  PROVE  Scan!Next
<1>1. Scan!Verified(Chunk, v)
  BY OneChunk DEF Scan!Verified
<1>2. Scan!VerifiesCandidate(Chunk)
  BY <1>1, OneChunk
     DEF Scan!VerifiesCandidate, Scan!FailFast, Scan!settings, Scan!resultVars, NotBuilt
<1> QED BY <1>2 DEF Scan!Next, Scan!Steps

\* The phases end; another scan meets the end of the quota.
LEMMA PhaseMatches ==
  ASSUME UNCHANGED <<mode, ScanAnalysis, ScanFinding, ScanIssues, ScanCode>>,
         \/ /\ ScanPhase = "analysis" /\ ScanPhase' = "verify" /\ quotaErr' = quotaErr
            /\ ScanAnalysis # "none"
         \/ ScanPhase = "verify" /\ ScanPhase' = "conclude" /\ quotaErr' = quotaErr
         \/ ScanPhase' = ScanPhase /\ ~quotaErr /\ quotaErr' = TRUE
  PROVE  Scan!Next
<1> USE DEF Scan!settings, Scan!chunkVars, Scan!resultVars, NotBuilt
<1>1. CASE ScanPhase = "analysis" /\ ScanPhase' = "verify"
  <2>1. Scan!AnalysisEnds
    BY <1>1, OneChunk DEF Scan!AnalysisEnds, Scan!Relevant
  <2> QED BY <2>1 DEF Scan!Next, Scan!Steps
<1>2. CASE ScanPhase = "verify" /\ ScanPhase' = "conclude"
  <2>1. Scan!VerificationEnds
    BY <1>2, OneChunk DEF Scan!VerificationEnds
  <2> QED BY <2>1 DEF Scan!Next, Scan!Steps
<1>3. CASE ScanPhase' = ScanPhase /\ ~quotaErr /\ quotaErr' = TRUE
  <2>1. Scan!OtherScanExhausts
    BY <1>3 DEF Scan!OtherScanExhausts
  <2> QED BY <2>1 DEF Scan!Next
<1> QED BY <1>1, <1>2, <1>3

LEMMA AnalysesMatches ==
  ASSUME ReviewInv, Analyses
  PROVE  Scan!Next \/ UNCHANGED Scan!vars
<1> USE DEF Analysed, AnalysisRaised, Raised, ScanPhase, ScanCode, ScanAnalysis, ScanFinding,
            ScanIssues
<1>1. /\ phase = "analysis" /\ phase' = phase /\ status' = status /\ status = "candidate"
      /\ vpc = "idle" /\ vpc' = vpc
      /\ apc # "ended" /\ outcome = "none" /\ ~found /\ found' \in BOOLEAN
      /\ quotaErr \in BOOLEAN
  <2>1. AnalysisInv'
    BY AnalysisInvStep DEF ReviewInv, Next, Steps
  <2> QED BY <2>1, AnalysisMoves
          DEF ReviewInv, Analyses, verifyVars, OutcomeInv, CandidateInv, AnalysisInv,
              ConversationInv, A!TypeOK
<1>2. /\ ScanPhase = "analysis" /\ ScanAnalysis = "none" /\ ScanFinding = "none"
      /\ ScanIssues = {} /\ ScanCode = "none"
  BY <1>1
<1>3. AnalysisInv /\ OutcomeInv /\ A!Next
  BY DEF ReviewInv, Analyses
<1>4. CASE apc' # "ended" /\ outcome' = outcome /\ quotaErr' = quotaErr
  <2>1. UNCHANGED scanView
    BY <1>1, <1>2, <1>3, <1>4, AnalysisMoves DEF scanView
  <2> QED BY <2>1, ScanStutters
<1>5. CASE /\ apc' = "ended" /\ outcome' = "done" /\ errors' = {}
           /\ ~A!Refused /\ quotaErr' = quotaErr
  <2>1. /\ ScanAnalysis' = "done" /\ ScanFinding' \in {"none", "candidate"}
        /\ UNCHANGED <<mode, ScanPhase, ScanIssues, ScanCode>>
    BY <1>1, <1>2, <1>3, <1>5, AnalysisMoves
  <2> QED BY <1>2, <1>5, <2>1, AgenticMatches DEF A!Refused
<1>6. CASE /\ apc' = "ended" /\ errors' = errors
           /\ outcome' = IF errors = {} THEN "done" ELSE "degraded"
           /\ ~A!Refused /\ quotaErr' = quotaErr
  <2> DEFINE failed == errors # {}
  <2>1. /\ ScanAnalysis' = IF failed THEN "degraded" ELSE "done"
        /\ ScanIssues' = IF failed THEN {"analysis"} ELSE {}
        /\ ScanFinding' \in {"none", "candidate"}
        /\ UNCHANGED <<mode, ScanPhase, ScanCode>>
    BY <1>1, <1>2, <1>3, <1>6, AnalysisMoves
  <2>2. "ok" \in Scan!Outcomes /\ ~(quotaErr /\ mode = "fail_fast")
    BY <1>6 DEF A!Refused, Scan!Outcomes, Scan!FailFast
  <2>3. quotaErr' = (quotaErr \/ "ok" = "quota")
    BY <1>1, <1>6
  <2> QED BY <1>2, <1>6, <2>1, <2>2, <2>3, SingleMatches
<1>7. CASE /\ apc' = "ended" /\ outcome' = "failed" /\ errors' # {}
           /\ ~A!Refused /\ quotaErr' = quotaErr
  <2>1. /\ ScanAnalysis' = "failed" /\ ScanIssues' = {"analysis"} /\ ScanFinding' = "none"
        /\ UNCHANGED <<mode, ScanPhase, ScanCode>>
    BY <1>1, <1>2, <1>3, <1>7, AnalysisMoves
  <2>2. "failed" \in Scan!Outcomes /\ ~(quotaErr /\ mode = "fail_fast")
    BY <1>7 DEF A!Refused, Scan!Outcomes, Scan!FailFast
  <2>3. quotaErr' = (quotaErr \/ "failed" = "quota")
    BY <1>1, <1>7
  <2> QED BY <1>2, <2>1, <2>2, <2>3, SingleMatches
<1>8. CASE /\ apc' = "ended" /\ outcome' = "failed" /\ errors' # {}
           /\ quotaErr' = TRUE /\ mode # "fail_fast"
  <2>1. /\ ScanAnalysis' = "failed" /\ ScanIssues' = {"analysis"} /\ ScanFinding' = "none"
        /\ UNCHANGED <<mode, ScanPhase, ScanCode>>
    BY <1>1, <1>2, <1>3, <1>8, AnalysisMoves
  <2>2. "quota" \in Scan!Outcomes
    BY DEF Scan!Outcomes
  <2>3. quotaErr' = (quotaErr \/ "quota" = "quota")
    BY <1>8
  <2> QED BY <1>2, <1>8, <2>1, <2>2, <2>3, SingleMatches
<1>9. CASE /\ apc' = "ended" /\ outcome' = "quota"
           /\ quotaErr' = TRUE /\ mode = "fail_fast"
  <2>1. /\ ScanPhase' = "unwind" /\ ScanCode' = "incomplete"
        /\ UNCHANGED <<mode, ScanAnalysis, ScanFinding, ScanIssues>>
    BY <1>1, <1>2, <1>3, <1>9, AnalysisMoves
  <2> QED BY <1>2, <1>9, <2>1, QuotaMatches
<1>10. CASE apc' = "ended" /\ outcome' = "raised" /\ UNCHANGED <<quotaErr, found, errors>>
  <2>1. /\ ScanPhase' = "unwind" /\ ScanCode' = "raised"
        /\ UNCHANGED <<mode, ScanAnalysis, ScanFinding, ScanIssues>>
    BY <1>1, <1>2, <1>3, <1>10, AnalysisMoves
  <2> QED BY <1>2, <1>10, <2>1, RaiseMatches
<1> HIDE DEF ScanPhase, ScanCode, ScanAnalysis, ScanFinding, ScanIssues
<1> QED BY <1>3, <1>4, <1>5, <1>6, <1>7, <1>8, <1>9, <1>10, AnalysisMoves

LEMMA VerifiesMatches ==
  ASSUME ReviewInv, Verifies
  PROVE  Scan!Next \/ UNCHANGED Scan!vars
<1> USE DEF Analysed, AnalysisRaised, Raised, ScanPhase, ScanCode, ScanAnalysis, ScanFinding,
            ScanIssues
<1>1. /\ phase = "verify" /\ phase' = phase /\ found /\ apc = "ended"
      /\ ~AnalysisRaised /\ status = "candidate" /\ vpc \in {"idle", "asking"}
      /\ UNCHANGED <<apc, outcome, errors, found>>
  BY VerificationMoves DEF ReviewInv, Verifies, analysisVars, OutcomeInv, CandidateInv
<1>2. /\ ScanPhase = "verify" /\ ScanFinding = "candidate"
      /\ ScanIssues \subseteq {"analysis"}
      /\ ScanFinding' = status'
      /\ ScanAnalysis' = ScanAnalysis
      /\ vpc' # "raised" => UNCHANGED <<ScanPhase, ScanCode>>
  BY <1>1
<1>3. UNCHANGED <<mode, quotaErr>>
  BY VerificationMoves DEF ReviewInv, Verifies
<1>4. CASE vpc' = "asking" /\ status' = "candidate"
  <2>1. UNCHANGED scanView
    BY <1>1, <1>2, <1>3, <1>4 DEF scanView
  <2> QED BY <2>1, ScanStutters
<1>5. CASE vpc' = "ended" /\ status' = "unverified"
  <2>1. ScanIssues' = ScanIssues \cup {"verification"}
    BY <1>1, <1>5
  <2> DEFINE v == "error"
  <2>2. /\ ScanFinding' = IF v = "error" THEN "unverified" ELSE v
        /\ ScanIssues' = ScanIssues \cup IF v = "error" THEN {"verification"} ELSE {}
        /\ UNCHANGED <<ScanPhase, ScanCode>>
    BY <1>2, <1>5, <2>1
  <2> QED BY <1>2, <1>3, <2>2, VerdictMatches
<1>6. CASE vpc' = "ended" /\ status' \in V!Verdicts /\ ~V!Refused
  <2>1. /\ ScanIssues' = ScanIssues /\ ~(quotaErr /\ mode = "fail_fast")
        /\ status' \in {"confirmed", "needs_review", "rejected"}
    BY <1>1, <1>6 DEF V!Verdicts, V!Refused
  <2> DEFINE v == status'
  <2>2. /\ v \in {"confirmed", "needs_review", "rejected", "error"} /\ v # "error"
        /\ ScanFinding' = IF v = "error" THEN "unverified" ELSE v
        /\ ScanIssues' = ScanIssues \cup IF v = "error" THEN {"verification"} ELSE {}
        /\ UNCHANGED <<ScanPhase, ScanCode>>
    BY <1>2, <1>6, <2>1
  <2> HIDE DEF v, ScanPhase, ScanCode, ScanAnalysis, ScanFinding, ScanIssues
  <2> QED BY <1>2, <1>3, <2>1, <2>2, VerdictMatches
<1>7. CASE vpc' = "raised" /\ status' = "candidate"
  <2>1. /\ ScanPhase' = "finally" /\ ScanCode' = "raised"
        /\ UNCHANGED <<ScanFinding, ScanIssues>>
    BY <1>1, <1>2, <1>7
  <2> QED BY <1>2, <1>3, <2>1, RaiseMatches
<1> QED BY <1>4, <1>5, <1>6, <1>7, VerificationMoves DEF ReviewInv, Verifies

LEMMA ReviewMatches ==
  ASSUME ReviewInv, [Next]_vars
  PROVE  Scan!Next \/ UNCHANGED Scan!vars
<1> USE DEF Analysed, AnalysisRaised, Raised, ScanPhase, ScanCode, ScanAnalysis, ScanFinding,
            ScanIssues
<1>1. CASE AnalysisEnds
  <2>1. /\ UNCHANGED <<mode, quotaErr, ScanAnalysis, ScanFinding, ScanIssues, ScanCode>>
        /\ ScanPhase = "analysis" /\ ScanPhase' = "verify" /\ ScanAnalysis # "none"
    BY <1>1 DEF AnalysisEnds, verifyVars, ReviewInv, OutcomeInv, CandidateInv
  <2> QED BY <2>1, PhaseMatches
<1>2. CASE VerificationEnds
  <2>1. /\ UNCHANGED <<mode, quotaErr, ScanAnalysis, ScanFinding, ScanIssues, ScanCode>>
        /\ ScanPhase = "verify" /\ ScanPhase' = "conclude"
    BY <1>2 DEF VerificationEnds, verifyVars, analysisVars, ReviewInv, OutcomeInv, CandidateInv
  <2> QED BY <2>1, PhaseMatches
<1>3. CASE QuotaEnds
  <2>1. /\ UNCHANGED <<mode, ScanPhase, ScanAnalysis, ScanFinding, ScanIssues, ScanCode>>
        /\ ~quotaErr /\ quotaErr' = TRUE
    BY <1>3 DEF QuotaEnds, verifyVars, analysisVars
  <2> QED BY <2>1, PhaseMatches
<1>4. CASE UNCHANGED vars
  <2>1. UNCHANGED scanView
    BY <1>4 DEF vars, verifyVars, analysisVars, scanView
  <2> QED BY <2>1, ScanStutters
<1> QED BY <1>1, <1>2, <1>3, <1>4, AnalysesMatches, VerifiesMatches DEF Next, Steps

\* The two conversations implement ScanRun for their chunk: whatever the bounds and
\* costs, each of their steps is one of ScanRun's, or none.
THEOREM ReviewRefinesScan == Spec => StepsOfScanRun
<1>1. ReviewInv /\ [Next]_vars => [Scan!Next]_(Scan!vars)
  BY ReviewMatches
<1> QED BY <1>1, ReviewInvariant, PTL DEF Spec, StepsOfScanRun

-----------------------------------------------------------------------------
\* Whatever the bounds on turns and tokens and whatever a request costs: at most two
\* requests follow the last turn, and at most two are made beyond the budget.
THEOREM ConversationsBounded == Spec => []ConversationBounded
<1>1. AnalysisInv => ConversationBounded
  BY DEF AnalysisInv, ConversationInv, ConversationBounded, A!ConversationBounded
<1> QED BY <1>1, AnalysisInvariant, PTL

\* The tokens reported for a chunk are those spent, unless an error says otherwise.
THEOREM TokensAreCounted == Spec => []TokensCounted
<1>1. AnalysisInv => TokensCounted
  BY DEF AnalysisInv, CountInv, AnalysisRaised, TokensCounted, A!TokensCounted
<1> QED BY <1>1, AnalysisInvariant, PTL

\* A chunk that is analysed without findings was answered so, in the form asked for.
THEOREM NoAnswerLost == Spec => []NothingLost
<1>1. AnalysisInv => NothingLost
  BY DEF AnalysisInv, AnswersInv, NothingLost
<1> QED BY <1>1, AnalysisInvariant, PTL

\* However many turns the verifier takes and whatever it reads and cites in them, a
\* candidate is confirmed or rejected only with the proof that this takes.
THEOREM VerdictsAlwaysProven == Spec => []VerdictsProven
<1>1. VerdictInv => VerdictsProven
  BY DEF VerdictInv
<1> QED BY <1>1, VerdictInvariant, PTL
=============================================================================
