------------------------------ MODULE CloneDir ------------------------------
(***************************************************************************)
(* The clone of a remote repository (GitSource.ensure_cloned in            *)
(* sources/git.py): one directory per URL, shared by every process that    *)
(* scans it, fetched when it is there and deleted and cloned again when    *)
(* the fetch fails.  git itself is external.                               *)
(***************************************************************************)
EXTENDS FiniteSets

CONSTANTS Procs

VARIABLES
  at,            \* where each process stands
  dir,           \* the directory: absent, headless (no .git), broken (a partial .git),
                 \* whole, or a local repository, which needs no clone
  maker,         \* the processes whose git clone made the directory that is there
  distrusted     \* history: the processes that found the clone unusable in their present run

dirVars == <<dir, maker, distrusted>>

InitDir == dir \in {"absent", "whole", "local"} /\ maker = {} /\ distrusted = {}

Moves(p, step) == at' = [at EXCEPT ![p] = step]

\* Faulty variant of LooksForClone: the clone is always made anew.
ClonesAlways(p) ==
  /\ at[p] = "open"
  /\ Moves(p, CASE dir = "absent" -> "clone" [] dir = "local" -> "load" [] OTHER -> "remove")
  /\ UNCHANGED dirVars

\* A local repository is used where it is.  A directory with a .git is opened and
\* fetched, unless its .git is no repository (FindsNoRepo); else it is cloned to.
LooksForClone(p) ==
  /\ at[p] = "open"
  /\ \/ dir = "local" /\ Moves(p, "load")
     \/ dir \in {"whole", "broken"} /\ Moves(p, "fetch")
     \/ dir \in {"absent", "headless"} /\ Moves(p, "clone")
  /\ UNCHANGED dirVars

\* Neither is an unfinished clone, of a killed process or of one still at it, told
\* from a damaged one.
FindsNoRepo(p) ==
  /\ at[p] = "open" /\ dir = "broken"
  /\ distrusted' = distrusted \cup {p}
  /\ Moves(p, "remove")
  /\ UNCHANGED <<dir, maker>>

\* The fetch, in a thread.  It may fail at any time (the network, a ref that
\* another fetch has locked), and without the repository it does.
Fetches(p) ==
  /\ at[p] = "fetch"
  /\ \/ dir = "whole" /\ Moves(p, "load") /\ UNCHANGED distrusted
     \/ Moves(p, "remove") /\ distrusted' = distrusted \cup {p}
  /\ UNCHANGED <<dir, maker>>

\* rmtree, entry by entry, .git first, last or in between; it raises when
\* another process has removed what it was going to remove.
StartsRemoving(p) ==
  /\ at[p] = "remove"
  /\ \/ dir # "absent" /\ dir' \in {"headless", "broken"} /\ Moves(p, "removing")
     \/ dir = "absent" /\ Moves(p, "close") /\ UNCHANGED dir
  /\ UNCHANGED <<maker, distrusted>>

EndsRemoving(p) ==
  /\ at[p] = "removing"
  /\ \/ dir # "absent" /\ dir' = "absent" /\ maker' = {} /\ Moves(p, "clone")
     \/ dir = "absent" /\ Moves(p, "close") /\ UNCHANGED <<dir, maker>>
  /\ UNCHANGED distrusted

\* git clone refuses a directory that is there and not empty.
StartsCloning(p) ==
  /\ at[p] = "clone"
  /\ \/ dir = "absent" /\ dir' = "broken" /\ maker' = {p} /\ Moves(p, "cloning")
     \/ dir # "absent" /\ Moves(p, "close") /\ UNCHANGED <<dir, maker>>
  /\ UNCHANGED distrusted

\* It fails for reasons of its own or because its directory was taken away, and then
\* removes whatever is at the path.
EndsCloning(p) ==
  /\ at[p] = "cloning"
  /\ \/ dir = "broken" /\ maker = {p} /\ dir' = "whole" /\ Moves(p, "load") /\ UNCHANGED maker
     \/ dir' = "absent" /\ maker' = {} /\ Moves(p, "close")
  /\ UNCHANGED distrusted
=============================================================================
