---------------------------- MODULE DiffChunks ----------------------------
(***************************************************************************)
(* The hunks of a changed file packed into chunks within a token budget    *)
(* (_chunk_patched_file in analyzers/diff_extractor.py): hunks that fit    *)
(* together share a chunk, and a hunk that does not fit is cut between     *)
(* lines into parts with headers of their own.  A line is its kind, its    *)
(* text and its length in characters; four characters count as a token.    *)
(* A hunk starts at a line of each revision.                               *)
(***************************************************************************)
EXTENDS Naturals, SequencesExt

CONSTANTS
  Budget,      \* chunk_token_budget
  HeaderSize   \* the length of a hunk header

VARIABLES
  file,        \* the hunks of the file, in order
  hunk,        \* the hunk the loop is at
  current,     \* current_hunks
  tokens,      \* current_tokens
  part,        \* what is left of a hunk that is being cut, or NoPart
  chunks,      \* the chunks made so far, each a sequence of hunks
  stage        \* off (another path is looked at), packing or packed

\* The lines and the hunks of a unified diff.
Lines == [kind : {"context", "added", "removed", "mark"}, text : STRING, size : Nat, marks : BOOLEAN]
Hunks == [source : Nat, target : Nat, lines : Seq(Lines)]

NoPart == [source |-> 0, target |-> 0, lines |-> <<>>]

\* The sum of a sequence of numbers.
Total(numbers) ==
  LET upTo[n \in 0..Len(numbers)] == IF n = 0 THEN 0 ELSE upTo[n - 1] + numbers[n]
  IN  upTo[Len(numbers)]

Size(lines) == Total([i \in DOMAIN lines |-> lines[i].size])

HunkTokens(h) == (HeaderSize + Size(h.lines)) \div 4

\* How many of the lines are in the source, and in the target.
\* (The mark of a missing newline at the end of a file is in neither.)
SourceLength(lines) == Cardinality({i \in DOMAIN lines : lines[i].kind \in {"removed", "context"}})
TargetLength(lines) == Cardinality({i \in DOMAIN lines : lines[i].kind \in {"added", "context"}})

\* The first line, and as many more as the budget allows.
Segment(lines) ==
  LET Fits(n) == n = 1 \/ Size(SubSeq(lines, 1, n)) <= Budget * 4
  IN  SubSeq(lines, 1, CHOOSE n \in DOMAIN lines :
                         Fits(n) /\ \A k \in DOMAIN lines : k > n => ~Fits(k))

Flushed == IF current = <<>> THEN chunks ELSE Append(chunks, current)

InitChunks(files) ==
  /\ file \in files
  /\ hunk = 1
  /\ current = <<>>
  /\ tokens = 0
  /\ part = NoPart
  /\ chunks = <<>>

\* Faulty variant of CutsSegment: the header of the next part forgets the context lines.
CutsMisnumbered ==
  /\ stage = "packing" /\ part.lines # <<>>
  /\ LET s == Segment(part.lines)
         n == Cardinality({i \in DOMAIN s : s[i].kind = "added"})
     IN  /\ chunks' = Append(chunks, <<[part EXCEPT !.lines = s]>>)
         /\ part' = [source |-> part.source + SourceLength(s),
                     target |-> part.target + n,
                     lines  |-> SubSeq(part.lines, Len(s) + 1, Len(part.lines))]
  /\ UNCHANGED <<file, hunk, current, tokens, stage>>

Looks == stage = "packing" /\ part.lines = <<>> /\ hunk <= Len(file)

\* A hunk that is larger than the budget: what was collected is flushed.
StartsCutting ==
  /\ Looks /\ HunkTokens(file[hunk]) > Budget
  /\ chunks' = Flushed
  /\ current' = <<>>
  /\ tokens' = 0
  /\ part' = file[hunk]
  /\ hunk' = hunk + 1
  /\ UNCHANGED <<file, stage>>

CutsSegment ==
  /\ stage = "packing" /\ part.lines # <<>>
  /\ LET s == Segment(part.lines)
     IN  /\ chunks' = Append(chunks, <<[part EXCEPT !.lines = s]>>)
         /\ part' = [source |-> part.source + SourceLength(s),
                     target |-> part.target + TargetLength(s),
                     lines  |-> SubSeq(part.lines, Len(s) + 1, Len(part.lines))]
  /\ UNCHANGED <<file, hunk, current, tokens, stage>>

\* A hunk that fits joins the ones collected, after a flush when they are too many.
Collects ==
  /\ Looks /\ HunkTokens(file[hunk]) <= Budget
  /\ LET n == HunkTokens(file[hunk])
         full == tokens + n > Budget /\ current # <<>>
     IN  /\ chunks' = IF full THEN Flushed ELSE chunks
         /\ current' = Append(IF full THEN <<>> ELSE current, file[hunk])
         /\ tokens' = n + IF full THEN 0 ELSE tokens
  /\ hunk' = hunk + 1
  /\ UNCHANGED <<file, part, stage>>

Packs ==
  /\ stage = "packing" /\ part.lines = <<>> /\ hunk > Len(file)
  /\ chunks' = Flushed
  /\ current' = <<>>
  /\ stage' = "packed"
  /\ UNCHANGED <<file, hunk, tokens, part>>

ChunkSteps == StartsCutting \/ CutsSegment \/ Collects \/ Packs

-----------------------------------------------------------------------------
(* _is_noise_only_change                                                   *)

Texts(lines, kind) ==
  LET picked == SelectSeq(lines, LAMBDA l : l.kind = kind /\ ~l.marks)
  IN  [i \in DOMAIN picked |-> picked[i].text]

\* The lines added are the lines removed.  A line that itself begins with ++ or
\* -- looks like the header of a file and is passed over.
NoiseOnly(lines) == Texts(lines, "added") = Texts(lines, "removed")

-----------------------------------------------------------------------------
\* The lines of a hunk, each with its number in the source and in the target.
Numbered(h) ==
  [i \in DOMAIN h.lines |->
     [line |-> h.lines[i],
      source |-> h.source + SourceLength(SubSeq(h.lines, 1, i - 1)),
      target |-> h.target + TargetLength(SubSeq(h.lines, 1, i - 1))]]

AllNumbered(hunks) == FlattenSeq([i \in DOMAIN hunks |-> Numbered(hunks[i])])

\* A chunk is within the budget, or a single line that is not.
Within(c) ==
  \/ Len(c) = 1 /\ (Len(c[1].lines) = 1 \/ Size(c[1].lines) <= Budget * 4)
  \/ Total([i \in DOMAIN c |-> HunkTokens(c[i])]) <= Budget

\* "Split on complete lines without discarding the tail" (diff_extractor.py:321):
\* the chunks hold every line of the file's hunks once and in order, under the line
\* numbers that it has in both revisions, however the hunks were joined and cut;
\* and only a chunk of a single line is cut beyond the budget.
ChunksFaithful ==
  stage = "packed" =>
    /\ AllNumbered(FlattenSeq(chunks)) = AllNumbered(file)
    /\ \A c \in ToSet(chunks) : Within(c)

\* The inductive invariant behind it: what was chunked, what is collected and what is
\* left of the hunk being cut are, in this order, the hunks that were looked at.
ChunksInv ==
  /\ file \in Seq(Hunks) /\ hunk \in 1..(Len(file) + 1)
  /\ current \in Seq(Hunks) /\ part \in Hunks /\ chunks \in Seq(Seq(Hunks))
  /\ AllNumbered(FlattenSeq(chunks) \o current) \o Numbered(part)
       = AllNumbered(SubSeq(file, 1, hunk - 1))
  /\ part.lines # <<>> => current = <<>>
  /\ stage = "packing" =>
       tokens = Total([i \in DOMAIN current |-> HunkTokens(current[i])]) /\ tokens <= Budget
  /\ stage = "packed" => current = <<>> /\ part.lines = <<>> /\ hunk = Len(file) + 1
  /\ \A i \in DOMAIN chunks : Within(chunks[i])

\* What a line of the diff is in each revision, in order.
Before(lines) == LET s == SelectSeq(lines, LAMBDA l : l.kind \in {"removed", "context"})
                 IN  [i \in DOMAIN s |-> s[i].text]
After(lines)  == LET s == SelectSeq(lines, LAMBDA l : l.kind \in {"added", "context"})
                 IN  [i \in DOMAIN s |-> s[i].text]

\* "Statement reordering, indentation changes, and commented-out guards no longer
\* count as noise" (CHANGELOG.md:43), "Only discard byte-identical changed lines,
\* preserving order" (diff_extractor.py:187): a change is noise only when both
\* revisions read the same.
NoiseIsNoise ==
  stage = "packed" =>
    \A c \in ToSet(chunks) :
      LET lines == FlattenSeq([i \in DOMAIN c |-> c[i].lines])
      IN  NoiseOnly(lines) => Before(lines) = After(lines)
=============================================================================
