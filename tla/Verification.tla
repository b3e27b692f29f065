---------------------------- MODULE Verification ----------------------------
(***************************************************************************)
(* verify_candidate: the verifier reads the two revisions with tools, in   *)
(* a bounded number of turns and tokens, and gives a verdict; what becomes *)
(* of the candidate is decided by apply_decision and by the checks of the  *)
(* citations and of the revisions read.                                    *)
(*                                                                         *)
(* A citation is told by its revision and by whether it matches the source *)
(* there; the fields a confirmation needs are one flag.                    *)
(***************************************************************************)
EXTENDS Naturals, FiniteSets

CONSTANTS
  VerifyTurns,   \* settings.verification_max_turns
  VerifyBudget,  \* the token bound
  MaxCost        \* the most tokens a request costs in the model

VARIABLES
  mode,        \* quota_exhausted_mode
  quotaErr,    \* scheduler.quota_error is set
  regression,  \* the candidate is a security_regression
  ancestor,    \* the releases are in an ancestral relationship
  vpc,         \* idle, asking, ended, raised
  vturn,       \* turn
  vspent,      \* tokens used
  inspected,   \* inspected_refs
  status,      \* status of the candidate
  verdict      \* history: the decision

vars == <<mode, quotaErr, regression, ancestor, vpc, vturn, vspent, inspected, status, verdict>>

candidateVars == <<regression, ancestor>>

Revisions == {"before", "after"}

Verdicts == {"confirmed", "needs_review", "rejected"}

\* A VerificationDecision: the revisions it cites, those of them where every
\* citation matches, and whether all fields of the argument are given and none
\* of its evidence is said to be missing.
Decisions ==
  {d \in [verdict : Verdicts, cited : SUBSET Revisions, exact : SUBSET Revisions,
          argued : BOOLEAN] : d.exact \subseteq d.cited}

NoVerdict == [verdict |-> "none", cited |-> {}, exact |-> {}, argued |-> FALSE]

Refused == quotaErr /\ mode = "fail_fast"

Init ==
  /\ mode \in {"fail_fast", "heuristic", "legacy"}
  /\ quotaErr \in BOOLEAN
  /\ regression = FALSE /\ ancestor = FALSE
  /\ vpc = "idle" /\ vturn = 0 /\ vspent = 0
  /\ inspected = {} /\ status = "candidate" /\ verdict = NoVerdict

-----------------------------------------------------------------------------
(* Faulty variants of the definitions below, no part of the specification. *)

\* of Required: the revision after is enough
RequiredAfter == {"after"}

\* of Missing: only a confirmation is looked at
MissingIfConfirmed(d) ==
  d.verdict = "confirmed" /\
    (d.cited = {} \/ ~d.argued \/ (regression /\ (~ancestor \/ d.cited # Revisions)))

-----------------------------------------------------------------------------
\* The candidate is of some type, the releases in some relationship;
\* validate_evidence of the candidate's citations may fail with a git error.
Starts ==
  /\ vpc = "idle"
  /\ regression' \in BOOLEAN /\ ancestor' \in BOOLEAN
  /\ \/ vpc' = "asking" /\ UNCHANGED status
     \/ vpc' = "ended" /\ status' = "unverified"
  /\ UNCHANGED <<mode, quotaErr, vturn, vspent, inspected, verdict>>

FinalTurn == vturn = VerifyTurns \/ vspent >= VerifyBudget

Asks(cost) ==
  /\ vpc = "asking" /\ ~Refused
  /\ vspent' = vspent + cost

\* The model calls tools: those that show source mark their revision as
\* inspected, a diff both.
ReadsSource(cost, revisions) ==
  /\ ~FinalTurn
  /\ Asks(cost)
  /\ inspected' = inspected \cup revisions
  /\ vturn' = vturn + 1
  /\ UNCHANGED <<mode, quotaErr, candidateVars, vpc, status, verdict>>

\* What apply_decision finds missing, the evidence that the verifier itself says
\* is missing included: it matters for a confirmation only.
Missing(d) ==
  \/ d.cited = {}
  \/ /\ d.verdict = "confirmed"
     /\ \/ ~d.argued
        \/ regression /\ (~ancestor \/ d.cited # Revisions)

Required == IF regression THEN Revisions ELSE {"after"}

\* The status after apply_decision, after the citations are checked and after
\* the revisions that were read are.
Judged(d) ==
  IF \/ Missing(d)
     \/ d.exact # d.cited
     \/ d.verdict = "confirmed" /\ ~(Required \subseteq inspected)
  THEN "needs_review"
  ELSE d.verdict

Decides(cost, d) ==
  /\ Asks(cost)
  /\ verdict' = d
  /\ status' = Judged(d)
  /\ vpc' = "ended"
  /\ UNCHANGED <<mode, quotaErr, candidateVars, vturn, inspected>>

\* The request fails or is refused, the answer is not the JSON asked for, the
\* final turn calls tools, or git fails when the citations are checked.
Fails ==
  /\ vpc = "asking"
  /\ status' = "unverified" /\ vpc' = "ended"
  /\ UNCHANGED <<mode, quotaErr, candidateVars, vturn, vspent, inspected, verdict>>

\* An exception of another class escapes verify_candidate.
Raises ==
  /\ vpc = "asking"
  /\ vpc' = "raised"
  /\ UNCHANGED <<mode, quotaErr, candidateVars, vturn, vspent, inspected, status, verdict>>

Next ==
  \/ Starts \/ Fails \/ Raises
  \/ \E cost \in 0..MaxCost :
       \/ \E r \in SUBSET Revisions : ReadsSource(cost, r)
       \/ \E d \in Decisions : Decides(cost, d)

Spec == Init /\ [][Next]_vars

-----------------------------------------------------------------------------
TypeOK ==
  /\ mode \in {"fail_fast", "heuristic", "legacy"}
  /\ {quotaErr, regression, ancestor} \subseteq BOOLEAN
  /\ vpc \in {"idle", "asking", "ended", "raised"}
  /\ vturn \in 0..VerifyTurns
  /\ vspent \in Nat
  /\ inspected \subseteq Revisions
  /\ status \in Verdicts \cup {"candidate", "unverified"}
  /\ verdict \in Decisions \cup {NoVerdict}

\* "A verifier's confidence never overrides missing proof or invalid citations"
\* (verification.py:104), "regression confirmation requires reading BOTH
\* revisions" (:67): a confirmed candidate has citations that all match, the
\* revision after was read with the verifier's own tools, and for a regression
\* also the one before, both are cited and the releases are comparable.
ConfirmedIsProven ==
  status = "confirmed" =>
    /\ verdict.verdict = "confirmed" /\ verdict.argued
    /\ verdict.cited # {} /\ verdict.exact = verdict.cited
    /\ "after" \in inspected
    /\ regression => ancestor /\ inspected = Revisions /\ verdict.cited = Revisions

\* "Use rejected only when you have specific counterevidence and cite it"
\* (:65): a candidate is dropped only on citations that all match.
RejectedIsCited ==
  status = "rejected" => verdict.cited # {} /\ verdict.exact = verdict.cited
=============================================================================
