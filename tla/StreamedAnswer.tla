--------------------------- MODULE StreamedAnswer ---------------------------
(***************************************************************************)
(* A streamed answer of an OpenAI-compatible endpoint, put together        *)
(* (_collect_streamed_completion in providers/openai_compat.py) and read   *)
(* by generate_with_tools: pieces of text, fragments of several tool calls *)
(* in any interleaving, a finish reason, the usage; a stream that breaks   *)
(* or just ends; another attempt after a transport error.                  *)
(***************************************************************************)
EXTENDS Naturals, SequencesExt

CONSTANTS
  MaxText,      \* pieces of text in an answer
  MaxTools,     \* tool calls in an answer
  MaxPieces,    \* fragments of the arguments of one
  MaxAttempts   \* max_retries

VARIABLES
  answer,     \* what the model answers: pieces of text, fragments of each tool call
  sentText,   \* how much of the text was sent
  sentTool,   \* how much of each tool call
  content,    \* what is collected: the text ...
  tools,      \* ... the fragments for each index of a tool call ...
  finish,     \* ... the finish reason, or none ...
  usage,      \* ... and whether usage came
  attempt,
  reply,      \* what the caller is given, once it is
  stream      \* off (another path is looked at), open, returned, failed

NoReply == [text |-> <<>>, tools |-> <<>>]

\* An answer is text, tool calls, both or neither; the arguments of a call may be garbled
\* (no JSON).
Answers ==
  [text : 0..MaxText,
   tools : BoundedSeq([pieces : 1..MaxPieces, garbled : BOOLEAN], MaxTools)]

InitStream(answers) ==
  /\ answer \in answers
  /\ sentText = 0 /\ sentTool = [i \in DOMAIN answer.tools |-> 0]
  /\ content = <<>> /\ tools = [i \in DOMAIN answer.tools |-> <<>>]
  /\ finish = "none" /\ usage = FALSE
  /\ attempt = 1
  /\ reply = NoReply

\* Faulty variant of ToolFragment: a fragment goes to the call begun last.
FragmentToLast(i) ==
  /\ stream = "open" /\ finish = "none"
  /\ sentTool[i] < answer.tools[i].pieces
  /\ sentTool' = [sentTool EXCEPT ![i] = @ + 1]
  /\ LET begun == {j \in DOMAIN tools : tools[j] # <<>>} \cup {i}
         last == CHOOSE j \in begun : \A k \in begun : k <= j
     IN  tools' = [tools EXCEPT ![last] = Append(@, <<i, sentTool[i] + 1>>)]
  /\ UNCHANGED <<answer, sentText, content, finish, usage, attempt, reply, stream>>

-----------------------------------------------------------------------------
(* One chunk of the stream, received and collected.                        *)

TextPiece ==
  /\ stream = "open" /\ finish = "none"
  /\ sentText < answer.text
  /\ sentText' = sentText + 1
  /\ content' = Append(content, sentText + 1)
  /\ UNCHANGED <<answer, sentTool, tools, finish, usage, attempt, reply, stream>>

ToolFragment(i) ==
  /\ stream = "open" /\ finish = "none"
  /\ sentTool[i] < answer.tools[i].pieces
  /\ sentTool' = [sentTool EXCEPT ![i] = @ + 1]
  /\ tools' = [tools EXCEPT ![i] = Append(@, <<i, sentTool[i] + 1>>)]
  /\ UNCHANGED <<answer, sentText, content, finish, usage, attempt, reply, stream>>

AllSent == /\ sentText = answer.text
           /\ \A i \in DOMAIN answer.tools : sentTool[i] = answer.tools[i].pieces

\* The last choice: the answer is complete, cut at max_tokens, or cut by a filter of
\* the endpoint.
LastChoice ==
  /\ stream = "open" /\ finish = "none"
  /\ finish' \in {"length", "content_filter"} \cup IF AllSent THEN {"stop"} ELSE {}
  /\ UNCHANGED <<answer, sentText, sentTool, content, tools, usage, attempt, reply, stream>>

UsageChunk ==
  /\ stream = "open" /\ ~usage
  /\ finish # "none"
  /\ usage' = TRUE
  /\ UNCHANGED <<answer, sentText, sentTool, content, tools, finish, attempt, reply, stream>>

-----------------------------------------------------------------------------
\* The indices of calls that are in S, in order.
InOrder(calls, S) == SelectSeq([i \in DOMAIN calls |-> i], LAMBDA i : i \in S)

\* A call whose arguments are no JSON, whole or in part, is skipped.
Parsed == LET good == InOrder(tools, {i \in DOMAIN tools :
                                        ~answer.tools[i].garbled
                                        /\ Len(tools[i]) = answer.tools[i].pieces})
          IN  [k \in DOMAIN good |-> tools[good[k]]]

\* Faulty variant of Ends: whatever has come by the end is the answer.
EndsEarly ==
  /\ stream = "open"
  /\ stream' = "returned"
  /\ reply' = [text |-> content, tools |-> Parsed]
  /\ UNCHANGED <<answer, sentText, sentTool, content, tools, finish, usage, attempt>>

\* The stream ends, complete or not: without a finish reason or usage, and when it
\* was cut at max_tokens, that is an error, which is not retried.
Ends ==
  /\ stream = "open"
  /\ \/ /\ finish \notin {"none", "length"} /\ usage
        /\ stream' = "returned"
        /\ reply' = [text |-> content, tools |-> Parsed]
     \/ /\ finish \in {"none", "length"} \/ ~usage
        /\ stream' = "failed"
        /\ UNCHANGED reply
  /\ UNCHANGED <<answer, sentText, sentTool, content, tools, finish, usage, attempt>>

\* A timeout or a lost connection is retried from the start, and the model may answer
\* something else; an error of another class, or the last attempt, fails the call.
Breaks ==
  /\ stream = "open"
  /\ \/ /\ attempt < MaxAttempts
        /\ attempt' = attempt + 1
        /\ answer' \in Answers
        /\ sentText' = 0 /\ sentTool' = [i \in DOMAIN answer'.tools |-> 0]
        /\ content' = <<>> /\ tools' = [i \in DOMAIN answer'.tools |-> <<>>]
        /\ finish' = "none" /\ usage' = FALSE
        /\ UNCHANGED stream
     \/ /\ stream' = "failed"
        /\ UNCHANGED <<answer, sentText, sentTool, content, tools, finish, usage, attempt>>
  /\ UNCHANGED reply

StreamSteps ==
  \/ TextPiece \/ LastChoice \/ UsageChunk \/ Ends \/ Breaks
  \/ \E i \in DOMAIN answer.tools : ToolFragment(i)

-----------------------------------------------------------------------------
\* Each tool call with all of its arguments.
Whole == [i \in DOMAIN answer.tools |-> [n \in 1..answer.tools[i].pieces |-> <<i, n>>]]

\* "Text and tool calls are assembled before analysis continues ... An unfinished or
\* truncated stream is an error" (README.md:99): whatever the interleaving of the
\* fragments, and on whichever attempt, what the caller is given is the whole answer,
\* each tool call with its own arguments; only calls the model garbled are missing.
\* An answer that the endpoint's filter cut is the exception the code makes.
StreamAssembled ==
  stream = "returned" /\ finish # "content_filter" =>
    LET good == InOrder(Whole, {i \in DOMAIN answer.tools : ~answer.tools[i].garbled})
    IN  /\ reply.text = [k \in 1..answer.text |-> k]
        /\ reply.tools = [k \in DOMAIN good |-> Whole[good[k]]]

\* The inductive invariant behind it: what is collected is what was sent, a finish
\* reason of "stop" was not given before all was sent, and nothing is given to the
\* caller before a finish reason.
StreamInv ==
  /\ sentText \in Nat
  /\ content = [k \in 1..sentText |-> k]
  /\ sentTool \in [DOMAIN answer.tools -> Nat]
  /\ tools = [i \in DOMAIN answer.tools |-> [n \in 1..sentTool[i] |-> <<i, n>>]]
  /\ finish \in {"none", "stop", "length", "content_filter"}
  /\ finish = "stop" => AllSent
  /\ stream = "returned" =>
       finish \in {"stop", "content_filter"} /\ reply = [text |-> content, tools |-> Parsed]
=============================================================================
