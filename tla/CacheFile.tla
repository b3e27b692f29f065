----------------------------- MODULE CacheFile -----------------------------
(***************************************************************************)
(* The cache database (cache/storage.py) as several sentrysloth processes  *)
(* use it: probed, deleted when its schema is not the current one, opened, *)
(* created, and then written row by row.  A process stays connected to the *)
(* file it opened, also when another one has deleted that file.            *)
(*                                                                         *)
(* A file is told by its tables, its committed version row and its         *)
(* committed rows.  SQLite is external: one writer at a time on a file,    *)
(* and what is not committed when a process ends is gone.                  *)
(***************************************************************************)
EXTENDS Naturals, FiniteSets

CONSTANTS
  Procs,       \* the processes that use the cache
  Files,       \* the files that can be at the path, one after the other
  NoFile,
  Refs         \* the revisions that are scanned

ASSUME FilesAssumption == NoFile \notin Files

VARIABLES
  at,          \* where each process stands
  path,        \* the file at settings.cache.db_path
  tables,      \* the tables of each file: none, all but the last, all, an older schema's
  version,     \* the committed row of schema_version
  rows,        \* the committed rows of each file
  conn,        \* the file each process is connected to
  writing,     \* the processes with a write that is executed and not committed
  lapsed       \* history: a current file could not be probed, or two processes
               \* set up a cache at the same time

cacheVars == <<path, tables, version, rows, conn, writing, lapsed>>

NoProfile == [ref |-> "none", madeAt |-> "none", evidence |-> {}]
NoRows == [scans |-> {}, profile |-> NoProfile, history |-> {}]

SettingUp == {"reset", "connect", "create", "index", "version"}
Unlocked(p) == \A q \in writing \ {p} : conn[q] # conn[p]
Unused(f) == f # path /\ \A q \in Procs : conn[q] # f

\* No cache yet, one of an older schema, or one left by an earlier run.
InitCache ==
  /\ \/ path = NoFile /\ tables = [f \in Files |-> "none"]
     \/ /\ path \in Files
        /\ \E t \in {"old", "all"} : tables = [f \in Files |-> IF f = path THEN t ELSE "none"]
  /\ version = [f \in Files |-> CASE tables[f] = "old" -> "old"
                                  [] tables[f] = "all" -> "current"
                                  [] OTHER -> "none"]
  /\ rows = [f \in Files |-> NoRows]
  /\ conn = [p \in Procs |-> NoFile]
  /\ writing = {}
  /\ lapsed = FALSE

Moves(p, step) == at' = [at EXCEPT ![p] = step]

Current(f) == f # NoFile /\ version[f] = "current"

-----------------------------------------------------------------------------
(* Faulty variants, no part of the specification.                          *)

\* of Probes: a version that does not match is only reported
ProbeTolerates(p) ==
  /\ at[p] = "probe"
  /\ Moves(p, "connect")
  /\ UNCHANGED cacheVars

\* of SetsVersion: the old row is deleted in a transaction of its own
VersionInTwoCommits(p) ==
  /\ at[p] = "version"
  /\ Unlocked(p)
  /\ IF version[conn[p]] # "none"
     THEN version' = [version EXCEPT ![conn[p]] = "none"] /\ UNCHANGED at
     ELSE version' = [version EXCEPT ![conn[p]] = "current"] /\ Moves(p, "open")
  /\ UNCHANGED <<path, tables, rows, conn, writing, lapsed>>

-----------------------------------------------------------------------------
(* initialize                                                              *)

\* _reset_if_schema_mismatch: is there a file, has it the table, is its row the
\* current version?  A file that cannot be read counts as one that does not match,
\* also when it is current: every error of SQLite or of the system is caught alike
\* (a lock that lasts, no descriptor left, an I/O error).
Probes(p) ==
  /\ at[p] = "probe"
  /\ \/ /\ path = NoFile \/ Current(path)
        /\ Moves(p, "connect")
        /\ UNCHANGED lapsed
     \/ /\ path # NoFile
        /\ Moves(p, "reset")
        /\ lapsed' = (lapsed \/ Current(path) \/ \E q \in Procs \ {p} : at[q] \in SettingUp)
  /\ UNCHANGED <<path, tables, version, rows, conn, writing>>

\* The unlink, whatever is at the path by now.
Resets(p) ==
  /\ at[p] = "reset"
  /\ path' = NoFile
  /\ Moves(p, "connect")
  /\ UNCHANGED <<tables, version, rows, conn, writing, lapsed>>

\* connect opens the file at the path or makes an empty one.
Connects(p) ==
  /\ at[p] = "connect"
  /\ Moves(p, "create")
  /\ \/ /\ path # NoFile
        /\ conn' = [conn EXCEPT ![p] = path]
        /\ UNCHANGED <<path, tables, version, rows>>
     \/ /\ path = NoFile
        /\ \E f \in Files :
             /\ Unused(f)
             /\ path' = f
             /\ conn' = [conn EXCEPT ![p] = f]
             /\ tables' = [tables EXCEPT ![f] = "none"]
             /\ version' = [version EXCEPT ![f] = "none"]
             /\ rows' = [rows EXCEPT ![f] = NoRows]
  /\ UNCHANGED <<writing, lapsed>>

\* executescript commits every CREATE ... IF NOT EXISTS by itself: a process may
\* end, and another look, between the first and the last of them.
CreatesTables(p) ==
  /\ at[p] = "create"
  /\ Unlocked(p)
  /\ tables' = [tables EXCEPT ![conn[p]] = IF @ = "none" THEN "some" ELSE @]
  /\ Moves(p, "index")
  /\ UNCHANGED <<path, version, rows, conn, writing, lapsed>>

CreatesLast(p) ==
  /\ at[p] = "index"
  /\ Unlocked(p)
  /\ tables' = [tables EXCEPT ![conn[p]] = IF @ = "some" THEN "all" ELSE @]
  /\ Moves(p, "version")
  /\ UNCHANGED <<path, version, rows, conn, writing, lapsed>>

\* The row is deleted and inserted in one transaction.
SetsVersion(p) ==
  /\ at[p] = "version"
  /\ Unlocked(p)
  /\ version' = [version EXCEPT ![conn[p]] = "current"]
  /\ Moves(p, "open")
  /\ UNCHANGED <<path, tables, rows, conn, writing, lapsed>>

-----------------------------------------------------------------------------
(* The writes of an open cache: an execute, then a commit.                 *)

Executes(p) ==
  /\ p \notin writing
  /\ Unlocked(p)
  /\ writing' = writing \cup {p}
  /\ UNCHANGED <<at, path, tables, version, rows, conn, lapsed>>

\* Another process holds the lock for longer than busy_timeout: the execute raises.
LockTimesOut(p) ==
  /\ ~Unlocked(p)
  /\ Moves(p, "close")
  /\ UNCHANGED cacheVars

Commits(p, changed, step) ==
  /\ p \in writing
  /\ writing' = writing \ {p}
  /\ rows' = [rows EXCEPT ![conn[p]] = changed]
  /\ Moves(p, step)
  /\ UNCHANGED <<path, tables, version, conn, lapsed>>

\* The connection ends, closed or with its process.
Disconnects(p) ==
  /\ conn' = [conn EXCEPT ![p] = NoFile]
  /\ writing' = writing \ {p}
  /\ Moves(p, "off")
  /\ UNCHANGED <<path, tables, version, rows, lapsed>>
=============================================================================
