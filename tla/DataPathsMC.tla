---------------------------- MODULE DataPathsMC ----------------------------
(* Small instances of DataPaths for TLC. *)
EXTENDS DataPaths, SequencesExt

Line(kind, text, size) == [kind |-> kind, text |-> text, size |-> size, marks |-> FALSE]
Hunk(source, target, lines) == [source |-> source, target |-> target, lines |-> lines]

\* One to three hunks.  A line is shorter than a part or longer than one; the lines of
\* the first hunk set where the second begins, ten lines further on.
Cuttable == [kind : {"context", "added", "removed", "mark"}, text : {"a"}, size : {3, 9},
             marks : {FALSE}]
FirstHunks == {Hunk(3, 5, ls) : ls \in UNION {[1..n -> Cuttable] : n \in 1..3}}
SecondHunks == {Hunk(20, 21, ls) : ls \in UNION {[1..n -> Cuttable] : n \in 1..2}}
ThirdHunks == {Hunk(30, 31, ls) : ls \in [1..1 -> Cuttable]}
Short(hunks) == {h \in hunks : Len(h.lines) = 1}
MCFiles == {<<h>> : h \in FirstHunks}
           \cup {<<h, i>> : h \in FirstHunks, i \in SecondHunks}
           \cup {<<h, i, j>> : h \in Short(FirstHunks), i \in SecondHunks, j \in ThirdHunks}

\* One hunk of three lines, with different texts.
Readable == [kind : {"context", "added", "removed"}, text : {"a", "b"}, size : {2},
             marks : {FALSE}]
NoisyFiles == {<<Hunk(1, 1, ls)>> : ls \in [1..3 -> Readable]}

MCFinds == BoundedSeq([items : 0..4, colon : BOOLEAN], 3)
NoFinds == {}
=============================================================================
