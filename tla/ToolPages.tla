----------------------------- MODULE ToolPages -----------------------------
(***************************************************************************)
(* The pages in which the repository tools answer the model                *)
(* (execute_tool_call and source_range in analyzers/repository_tools.py,   *)
(* search_code in sources/git.py): lines of a file or of its diff, matches *)
(* of a search, changed paths.  Every answer names where the next page     *)
(* starts; answers, errors among them, are kept and given again.           *)
(***************************************************************************)
EXTENDS Naturals, SequencesExt, FiniteSetsExt

CONSTANTS
  LinesPerPage,    \* 200
  MatchesPerPage,  \* 20
  PathsPerPage     \* 50

VARIABLES
  tool,      \* the tool that is asked: read, search, changes
  found,     \* what there is to be found: the files, with their number of items
  cursor,    \* where the next call starts, or NoCursor
  got,       \* the items the model was given so far
  memo,      \* execute_tool_call's cache: the answer for each cursor asked
  reader     \* off (another path is looked at), asking, finished, gave up

NoCursor == 0
Failure == [items |-> <<>>, next |-> NoCursor, failed |-> TRUE]
Answer(items, next) == [items |-> items, next |-> next, failed |-> FALSE]

\* The items of file f: its lines, or the matches git grep prints for it.
ItemsOf(f, n) == [i \in 1..n |-> <<f, i>>]

\* What is made of the first n of them.  A match in a file whose path holds a colon
\* cannot be parsed and is passed over.
Parsed(f, n) == IF tool = "search" /\ found[f].colon THEN <<>> ELSE ItemsOf(f, n)

\* Every item that is there, in the order of the tool.
Everything == FlattenSeq([f \in DOMAIN found |-> Parsed(f, found[f].items)])

InitPages(finds) ==
  /\ tool \in {"read", "search", "changes"}
  /\ found \in finds
  /\ tool = "read" => Len(found) = 1
  /\ cursor = 1
  /\ got = <<>>
  /\ memo = <<>>

-----------------------------------------------------------------------------
\* A page of lines: source_range without an end line.
LinesFrom(start) ==
  LET total == Len(Everything)
      stop == Min({total, start + LinesPerPage - 1})
  IN  Answer(SubSeq(Everything, start, stop), IF stop < total THEN stop + 1 ELSE NoCursor)

\* git grep stops in each file at the number of matches that the search needs in
\* all; search_code then keeps those it can parse, from the offset on.
Matches(max, offset) ==
  LET parsed == FlattenSeq([f \in DOMAIN found |->
                  Parsed(f, Min({found[f].items, max + offset}))])
  IN  SubSeq(parsed, offset + 1, Min({Len(parsed), max + offset}))

\* Faulty variant of MatchesFrom: no match beyond the page is asked for.
MatchesWithoutLookahead(start) ==
  LET matches == Matches(MatchesPerPage, start - 1)
  IN  Answer(matches, IF Len(matches) > MatchesPerPage THEN start + MatchesPerPage ELSE NoCursor)

\* One match more than the page holds tells whether there is a next page.
MatchesFrom(start) ==
  LET matches == Matches(MatchesPerPage + 1, start - 1)
  IN  Answer(SubSeq(matches, 1, Min({Len(matches), MatchesPerPage})),
             IF Len(matches) > MatchesPerPage THEN start + MatchesPerPage ELSE NoCursor)

PathsFrom(start) ==
  LET stop == start + PathsPerPage - 1
  IN  Answer(SubSeq(Everything, start, Min({stop, Len(Everything)})),
             IF stop < Len(Everything) THEN stop + 1 ELSE NoCursor)

Computed(start) ==
  CASE tool = "read"    -> LinesFrom(start)
    [] tool = "search"  -> MatchesFrom(start)
    [] tool = "changes" -> PathsFrom(start)

Asked(start) == \E i \in DOMAIN memo : memo[i].cursor = start
Kept(start) == memo[CHOOSE i \in DOMAIN memo : memo[i].cursor = start].answer

\* execute_tool_call: git is asked once for each page and may fail.
Executes(start, answer) ==
  IF Asked(start)
  THEN answer = Kept(start) /\ UNCHANGED memo
  ELSE /\ answer \in {Computed(start), Failure}
       /\ memo' = Append(memo, [cursor |-> start, answer |-> answer])

\* The model goes from page to page.
AsksForPage ==
  /\ reader = "asking"
  /\ \E answer \in {Failure, Computed(cursor)} :
       /\ Executes(cursor, answer)
       /\ ~answer.failed
       /\ got' = got \o answer.items
       /\ IF answer.next = NoCursor
          THEN reader' = "finished" /\ UNCHANGED cursor
          ELSE cursor' = answer.next /\ UNCHANGED reader
  /\ UNCHANGED <<tool, found>>

\* It is told of an error, and may ask again.
IsRefused ==
  /\ reader = "asking"
  /\ Executes(cursor, Failure)
  /\ reader' \in {"asking", "gave up"}
  /\ UNCHANGED <<tool, found, cursor, got>>

PageSteps == AsksForPage \/ IsRefused

-----------------------------------------------------------------------------
\* A model that follows the cursors is given every item once and in order: an
\* answer without a next page is the last ("Return a bounded range without hiding
\* whether more lines remain", repository_tools.py:87), although git's limit is
\* per file and the tool's over all files.  After an error it never gets there,
\* because the error is kept.
PagesComplete ==
  /\ IsPrefix(got, Everything)
  /\ reader = "finished" => got = Everything
  /\ reader # "off" /\ Asked(cursor) /\ Kept(cursor).failed => reader # "finished"

\* The inductive invariant behind it: the model was given all up to the cursor, and an
\* answer that ends its reading was no error.
PagesInv ==
  /\ tool \in {"read", "search", "changes"}
  /\ found \in Seq([items : Nat, colon : BOOLEAN])
  /\ cursor \in Nat \ {0}
  /\ memo \in Seq([cursor : Nat,
                   answer : [items : Seq(Nat \X Nat), next : Nat, failed : BOOLEAN]])
  /\ reader # "finished" => cursor - 1 <= Len(Everything) /\ got = SubSeq(Everything, 1, cursor - 1)
  /\ reader = "finished" => got = Everything /\ (Asked(cursor) => ~Kept(cursor).failed)
=============================================================================
