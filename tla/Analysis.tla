------------------------------ MODULE Analysis ------------------------------
(***************************************************************************)
(* The deep analysis of one chunk: the conversation of                     *)
(* analyze_chunk_agentic with its turns, its token budget, the answer it   *)
(* forces and the one repair of an answer that is no JSON, and, when that  *)
(* conversation fails, the single-turn call of run_deep_analysis.          *)
(*                                                                         *)
(* A request and its answer are one step.  The tokens of a request are one *)
(* number, its input and its output together.                              *)
(***************************************************************************)
EXTENDS Naturals, FiniteSets

CONSTANTS
  MaxTurns,  \* max_turns
  Budget,    \* token_budget
  MaxCost    \* the most tokens a request costs in the model

VARIABLES
  mode,      \* quota_exhausted_mode
  quotaErr,  \* scheduler.quota_error is set
  tools,     \* the provider supports tool calls
  apc,       \* the request that is next, or the end
  turn,      \* the turns taken
  spent,     \* tokens the requests have cost
  counted,   \* tokens that run_deep_analysis counts
  errors,    \* the errors it records for the chunk
  outcome,   \* what the chunk comes to
  found,     \* the chunk yields a candidate
  asked,     \* history: requests of the conversation
  overrun,   \* history: those made when the budget was exceeded
  answers    \* history: the final answers that were looked at

vars == <<mode, quotaErr, tools, apc, turn, spent, counted, errors, outcome, found,
          asked, overrun, answers>>

Costs == 0..MaxCost

\* The scheduler refuses every call.
Refused == quotaErr /\ mode = "fail_fast"

\* A final answer is JSON of the schema with findings or without, or is not.
Answers == {"findings", "nothing", "invalid"}

Init ==
  /\ mode \in {"fail_fast", "heuristic", "legacy"}
  /\ quotaErr \in BOOLEAN
  /\ tools \in BOOLEAN
  /\ apc = "turn" /\ turn = 0
  /\ spent = 0 /\ counted = 0
  /\ errors = {} /\ outcome = "none" /\ found = FALSE
  /\ asked = 0 /\ overrun = 0 /\ answers = {}

-----------------------------------------------------------------------------
(* Faulty variants of the definitions below, no part of the specification. *)

\* of NextTurn: the budget is not looked at
TurnUnbudgeted == IF turn' = MaxTurns THEN "final" ELSE "turn"

\* of Accepted: JSON will do, also after a repair
AcceptedAnyJson(answer) == answer # "invalid"

\* of Fallback: the error is not recorded
FallsBackSilently(error, tokens) ==
  /\ apc' = "single" /\ counted' = tokens
  /\ UNCHANGED <<errors, outcome, found>>

\* of NoTools: looked for after the first turn
NoToolsLater ==
  /\ apc = "turn" /\ turn > 0 /\ ~tools /\ ~Refused
  /\ apc' = "single"
  /\ UNCHANGED <<mode, quotaErr, tools, turn, spent, counted, errors, outcome, found>>
  /\ UNCHANGED <<asked, overrun, answers>>

\* of SingleAnswers: the errors before are forgotten
SingleForgets(cost, answer) ==
  /\ apc = "single" /\ ~Refused
  /\ apc' = "ended" /\ outcome' = "done"
  /\ found' = (answer = "findings")
  /\ spent' = spent + cost /\ counted' = counted + cost
  /\ answers' = answers \cup {answer}
  /\ UNCHANGED <<mode, quotaErr, tools, turn, errors, asked, overrun>>

-----------------------------------------------------------------------------
(* The conversation                                                        *)

\* A request of the conversation that is answered.
Asks(cost) ==
  /\ ~Refused /\ tools
  /\ spent' = spent + cost
  /\ asked' = asked + 1
  /\ overrun' = IF spent > Budget THEN overrun + 1 ELSE overrun

NextTurn == IF spent' > Budget \/ turn' = MaxTurns THEN "final" ELSE "turn"

\* The model calls tools.  When the tokens or the turns are used up, the next
\* request offers no tools and asks for the answer.
TakesTurn(cost) ==
  /\ apc = "turn"
  /\ Asks(cost)
  /\ turn' = turn + 1
  /\ apc' = NextTurn
  /\ UNCHANGED <<mode, quotaErr, tools, counted, errors, outcome, found, answers>>

\* What the conversation has found is the analysis of the chunk.
Succeeds(answer) ==
  /\ apc' = "ended" /\ outcome' = "done"
  /\ found' = (answer = "findings")
  /\ counted' = spent'
  /\ UNCHANGED errors

\* The repair of an answer must not lose its findings.
Accepted(answer) == answer = "findings"

\* The conversation failed with an error and the tokens that came with it.
Fallback(error, tokens) ==
  /\ apc' = "single"
  /\ errors' = errors \cup {error}
  /\ counted' = tokens
  /\ UNCHANGED <<outcome, found>>

\* An answer without tool calls, or the one that was forced, whether or not it
\* calls tools as well.  An invalid one is repaired once.
FinalAnswer(cost, answer) ==
  /\ apc \in {"turn", "final"}
  /\ Asks(cost)
  /\ answers' = answers \cup {answer}
  /\ IF answer = "invalid"
     THEN apc' = "repair" /\ UNCHANGED <<counted, errors, outcome, found>>
     ELSE Succeeds(answer)
  /\ UNCHANGED <<mode, quotaErr, tools, turn>>

Repaired(cost, answer) ==
  /\ apc = "repair"
  /\ Asks(cost)
  /\ answers' = answers \cup {answer}
  /\ IF Accepted(answer) THEN Succeeds(answer) ELSE Fallback("parse", spent')
  /\ UNCHANGED <<mode, quotaErr, tools, turn>>

\* A request fails, be it with a quota error, which is caught like any other
\* and is not recorded by the scheduler.  Before a final answer the error that
\* is raised takes no tokens along.
RequestFails ==
  /\ apc \in {"turn", "final", "repair"}
  /\ tools \/ Refused
  /\ IF apc = "repair" THEN Fallback("parse", spent) ELSE Fallback("provider", 0)
  /\ asked' = asked + 1
  /\ overrun' = IF spent > Budget THEN overrun + 1 ELSE overrun
  /\ UNCHANGED <<mode, quotaErr, tools, turn, spent, answers>>

\* An exception that is no LLMProviderError is caught nowhere.
RequestRaises ==
  /\ apc # "ended" /\ (tools \/ apc = "single")
  /\ apc' = "ended" /\ outcome' = "raised"
  /\ IF apc = "single"
     THEN UNCHANGED <<asked, overrun>>
     ELSE asked' = asked + 1 /\ overrun' = IF spent > Budget THEN overrun + 1 ELSE overrun
  /\ UNCHANGED <<mode, quotaErr, tools, turn, spent, counted, errors, found, answers>>

\* The NotImplementedError of a provider without tools is no error.
NoTools ==
  /\ apc = "turn" /\ turn = 0 /\ ~tools /\ ~Refused
  /\ apc' = "single"
  /\ UNCHANGED <<mode, quotaErr, tools, turn, spent, counted, errors, outcome, found>>
  /\ UNCHANGED <<asked, overrun, answers>>

-----------------------------------------------------------------------------
(* The single turn                                                         *)

SingleAnswers(cost, answer) ==
  /\ apc = "single" /\ ~Refused
  /\ apc' = "ended"
  /\ outcome' = IF errors = {} THEN "done" ELSE "degraded"
  /\ found' = (answer = "findings")
  /\ spent' = spent + cost /\ counted' = counted + cost
  /\ answers' = answers \cup {answer}
  /\ UNCHANGED <<mode, quotaErr, tools, turn, errors, asked, overrun>>

\* An answer of another form is an error of the provider here.
SingleFails ==
  /\ apc = "single" /\ ~Refused
  /\ apc' = "ended" /\ outcome' = "failed"
  /\ errors' = errors \cup {"single"}
  /\ UNCHANGED <<mode, quotaErr, tools, turn, spent, counted, found>>
  /\ UNCHANGED <<asked, overrun, answers>>

\* In fail_fast mode the quota error ends the analysis of all chunks.
SingleQuota ==
  /\ apc = "single"
  /\ quotaErr' = TRUE
  /\ apc' = "ended"
  /\ IF mode = "fail_fast"
     THEN outcome' = "quota" /\ UNCHANGED errors
     ELSE outcome' = "failed" /\ errors' = errors \cup {"single"}
  /\ UNCHANGED <<mode, tools, turn, spent, counted, found, asked, overrun, answers>>

-----------------------------------------------------------------------------
Next ==
  \/ \E cost \in Costs :
       \/ TakesTurn(cost)
       \/ \E a \in Answers : FinalAnswer(cost, a) \/ Repaired(cost, a)
       \/ \E a \in {"findings", "nothing"} : SingleAnswers(cost, a)
  \/ RequestFails \/ RequestRaises \/ NoTools \/ SingleFails \/ SingleQuota

Spec == Init /\ [][Next]_vars

-----------------------------------------------------------------------------
TypeOK ==
  /\ mode \in {"fail_fast", "heuristic", "legacy"}
  /\ quotaErr \in BOOLEAN /\ tools \in BOOLEAN /\ found \in BOOLEAN
  /\ apc \in {"turn", "final", "repair", "single", "ended"}
  /\ turn \in 0..MaxTurns
  /\ spent \in Nat /\ counted \in Nat /\ asked \in Nat /\ overrun \in Nat
  /\ errors \subseteq {"parse", "provider", "single"}
  /\ outcome \in {"none", "done", "degraded", "failed", "quota", "raised"}
  /\ answers \subseteq Answers

\* The conversation is bounded by its turns, the answer it forces and one
\* repair, and when the budget is exceeded only these two requests are left.
ConversationBounded == asked <= MaxTurns + 2 /\ overrun <= 2

\* The token count of an analysis that has a result is exact when it is called
\* complete (token_usage_complete is `not errors`), and otherwise counts no token twice.
TokensCounted ==
  /\ counted <= spent
  /\ apc = "ended" /\ errors = {} /\ outcome \notin {"quota", "raised"} => counted = spent

\* "Preserve every candidate and its evidence; do not ... replace the answer
\* with an empty findings list" (agentic_analysis.py:145): a chunk counts as
\* analysed without findings only if the model said so in an answer that had
\* the form asked for, never after one that was lost.
NothingLost ==
  outcome = "done" /\ ~found => answers = {"nothing"}
=============================================================================
