----------------------------- MODULE DataPaths -----------------------------
(***************************************************************************)
(* The three ways on which text reaches the analysis of a chunk: the diff, *)
(* cut into chunks; what the model reads of the repository, in pages; what *)
(* the provider streams.  They share no state: a behaviour follows one of  *)
(* them, chosen at the start, and the other two rest.                      *)
(***************************************************************************)
EXTENDS Naturals, Sequences

CONSTANTS
  Budget, HeaderSize, Files,
  LinesPerPage, MatchesPerPage, PathsPerPage, Finds,
  MaxText, MaxTools, MaxPieces, MaxAttempts

ASSUME PagesAssumption ==
  /\ {LinesPerPage, MatchesPerPage, PathsPerPage} \subseteq Nat \ {0}
  /\ Finds \subseteq Seq([items : Nat, colon : BOOLEAN])

ASSUME BudgetAssumption == Budget \in Nat /\ HeaderSize \in Nat

VARIABLES
  file, hunk, current, tokens, part, chunks, stage,
  tool, found, cursor, got, memo, reader,
  answer, sentText, sentTool, content, tools, finish, usage, attempt, reply, stream

Diff == INSTANCE DiffChunks
Pages == INSTANCE ToolPages
Stream == INSTANCE StreamedAnswer

ASSUME FilesAssumption == Files \subseteq Seq(Diff!Hunks)

chunkVars == <<file, hunk, current, tokens, part, chunks, stage>>
pageVars == <<tool, found, cursor, got, memo, reader>>
streamVars == <<answer, sentText, sentTool, content, tools, finish, usage, attempt,
                reply, stream>>
vars == <<chunkVars, pageVars, streamVars>>

\* What rests.
NoDiff == stage = "off" /\ Diff!InitChunks({<<>>})
NoPages == reader = "off" /\ tool = "changes" /\ Pages!InitPages({<<>>})
NoStream == stream = "off" /\ Stream!InitStream({[text |-> 0, tools |-> <<>>]})

Init ==
  \/ stage = "packing" /\ Diff!InitChunks(Files) /\ NoPages /\ NoStream
  \/ reader = "asking" /\ Pages!InitPages(Finds) /\ NoDiff /\ NoStream
  \/ stream = "open" /\ Stream!InitStream(Stream!Answers) /\ NoDiff /\ NoPages

Next ==
  \/ Diff!ChunkSteps /\ UNCHANGED <<pageVars, streamVars>>
  \/ Pages!PageSteps /\ UNCHANGED <<chunkVars, streamVars>>
  \/ Stream!StreamSteps /\ UNCHANGED <<chunkVars, pageVars>>

Spec == Init /\ [][Next]_vars

-----------------------------------------------------------------------------
\* However the hunks of a file are joined and cut, its chunks hold every line of
\* them once, in order and rightly numbered, within the budget (see DiffChunks).
ChunksFaithful == Diff!ChunksFaithful

\* Only a change after which both revisions read the same is noise (see DiffChunks).
NoiseIsNoise == Diff!NoiseIsNoise

\* The pages of a tool, followed to the last, are everything (see ToolPages).
PagesComplete == Pages!PagesComplete

\* What a stream is put together to is what was sent (see StreamedAnswer).
StreamAssembled == Stream!StreamAssembled
=============================================================================
