-------------------------- MODULE ScanProcessesMC --------------------------
(* A small instance of ScanProcesses for TLC. *)
EXTENDS ScanProcesses, TLC

\* Processes, revisions and the files that come to the path are interchangeable.
Symmetric == Permutations(Procs) \cup Permutations(Files) \cup Permutations(Refs)

\* The view of a state: of a deleted file that nobody is connected to nothing is told.
\* No step reads one, and before it comes to the path again it is emptied.
UsedFiles ==
  <<at, path, conn, writing, lapsed, dirVars, procVars, saved,
    [f \in {g \in Files : ~Unused(g)} |-> <<tables[f], version[f], rows[f]>>]>>
=============================================================================
