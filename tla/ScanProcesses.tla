--------------------------- MODULE ScanProcesses ---------------------------
(***************************************************************************)
(* Several runs of `sentrysloth scan` on one repository, each a process of *)
(* its own (cli._run_scan around scanner.run_scan): they share the cache   *)
(* database and the directory of the clone, start and restart at any time, *)
(* and may be killed between any two steps.  Composes CacheFile and        *)
(* CloneDir with the repository profile (cache/repo_profile.py); what a    *)
(* scan does with the model is ScanRun's.                                  *)
(***************************************************************************)
EXTENDS CacheFile

CONSTANT MaxRuns   \* how often a process is started, taken together

VARIABLES
  runs,      \* how often a process was started
  scan,      \* the scan_id of each process's present run
  ref,       \* the revision each process scans, pinned_after
  profile,   \* the profile each process holds
  saved,     \* history: the scans whose save_scan returned
  dir, maker, distrusted   \* of CloneDir

Clone == INSTANCE CloneDir
dirVars == <<dir, maker, distrusted>>

procVars == <<runs, scan, ref, profile>>
vars == <<at, cacheVars, dirVars, procVars, saved>>

Init ==
  /\ InitCache
  /\ Clone!InitDir
  /\ at = [p \in Procs |-> "off"]
  /\ runs = 0
  /\ scan = [p \in Procs |-> 0]
  /\ ref = [p \in Procs |-> "none"]
  /\ profile = [p \in Procs |-> NoProfile]
  /\ saved = {}

Rows(p) == rows[conn[p]]

\* What a profile is at the end of the scan of p, and as it is made from nothing.
Updated(p) == [profile[p] EXCEPT !.ref = ref[p], !.evidence = @ \cup {scan[p]}]
Bootstrapped(p) == [ref |-> ref[p], madeAt |-> ref[p], evidence |-> {}]

-----------------------------------------------------------------------------
(* Faulty variants, no part of the specification.                          *)

\* of LoadsProfile: last_ref is not looked at
LoadsAny(p) ==
  /\ at[p] = "load"
  /\ \/ /\ Rows(p).profile # NoProfile
        /\ profile' = [profile EXCEPT ![p] = Rows(p).profile]
        /\ Moves(p, "scan")
     \/ /\ Rows(p).profile = NoProfile
        /\ profile' = [profile EXCEPT ![p] = Bootstrapped(p)]
        /\ Moves(p, "store")
  /\ UNCHANGED <<cacheVars, dirVars, runs, scan, ref, saved>>

-----------------------------------------------------------------------------
\* A process starts, on some revision.
Starts(p) ==
  /\ at[p] = "off" /\ runs < MaxRuns
  /\ runs' = runs + 1
  /\ scan' = [scan EXCEPT ![p] = runs + 1]
  /\ \E r \in Refs : ref' = [ref EXCEPT ![p] = r]
  /\ Moves(p, "probe")
  /\ UNCHANGED <<cacheVars, dirVars, profile, saved>>

OpensCache(p) ==
  /\ \/ Probes(p) \/ Resets(p) \/ Connects(p)
     \/ CreatesTables(p) \/ CreatesLast(p) \/ SetsVersion(p)
  /\ UNCHANGED <<dirVars, procVars, saved>>

GetsClone(p) ==
  /\ \/ Clone!LooksForClone(p) \/ Clone!FindsNoRepo(p) \/ Clone!Fetches(p)
     \/ Clone!StartsRemoving(p) \/ Clone!EndsRemoving(p)
     \/ Clone!StartsCloning(p) \/ Clone!EndsCloning(p)
  /\ UNCHANGED <<cacheVars, procVars, saved>>

\* load_or_bootstrap_repo_profile reuses a profile of the same revision only, if it
\* is valid; otherwise one is made anew, by the model or from the file tree.
LoadsProfile(p) ==
  /\ at[p] = "load"
  /\ \/ /\ Rows(p).profile.ref = ref[p]
        /\ profile' = [profile EXCEPT ![p] = Rows(p).profile]
        /\ Moves(p, "scan")
     \/ /\ profile' = [profile EXCEPT ![p] = Bootstrapped(p)]
        /\ Moves(p, "store")
  /\ UNCHANGED <<cacheVars, dirVars, runs, scan, ref, saved>>

StoresProfile(p) ==
  /\ at[p] = "store"
  /\ Commits(p, [Rows(p) EXCEPT !.profile = profile[p]], "scan")
  /\ UNCHANGED <<dirVars, procVars, saved>>

\* The analysis, on the clone.  A scan that fails or was told to stop saves nothing.
Scans(p) ==
  /\ at[p] = "scan"
  /\ \E step \in {"save", "close"} : Moves(p, step)
  /\ UNCHANGED <<cacheVars, dirVars, procVars, saved>>

\* save_scan; the profile follows it, rewritten as it is when no chunk was
\* relevant ("touch"), updated by the model otherwise.
Saves(p) ==
  /\ at[p] = "save"
  /\ \E step \in {"touch", "ask"} :
       Commits(p, [Rows(p) EXCEPT !.scans = @ \cup {scan[p]}], step)
  /\ saved' = saved \cup {scan[p]}
  /\ UNCHANGED <<dirVars, procVars>>

Touches(p) ==
  /\ at[p] = "touch"
  /\ Commits(p, [Rows(p) EXCEPT !.profile = profile[p]], "close")
  /\ UNCHANGED <<dirVars, procVars, saved>>

\* The model is asked for the new profile; when it fails the old one stays.
AsksForUpdate(p) ==
  /\ at[p] = "ask"
  /\ \/ Moves(p, "close") /\ UNCHANGED profile
     \/ Moves(p, "update") /\ profile' = [profile EXCEPT ![p] = Updated(p)]
  /\ UNCHANGED <<cacheVars, dirVars, runs, scan, ref, saved>>

\* The profile and its history are two commits.
Updates(p) ==
  /\ at[p] = "update"
  /\ Commits(p, [Rows(p) EXCEPT !.profile = profile[p]], "append")
  /\ UNCHANGED <<dirVars, procVars, saved>>

Appends(p) ==
  /\ at[p] = "append"
  /\ Commits(p, [Rows(p) EXCEPT !.history = @ \cup {profile[p]}], "close")
  /\ UNCHANGED <<dirVars, procVars, saved>>

Writes(p) == StoresProfile(p) \/ Saves(p) \/ Touches(p) \/ Updates(p) \/ Appends(p)

\* What an execute does before each of those commits.
Executing(p) ==
  /\ at[p] \in {"store", "save", "touch", "update", "append"}
  /\ Executes(p) \/ LockTimesOut(p)
  /\ UNCHANGED <<dirVars, procVars, saved>>

\* What a process held is gone with it.
Gone(p) ==
  /\ Disconnects(p)
  /\ scan' = [scan EXCEPT ![p] = 0]
  /\ ref' = [ref EXCEPT ![p] = "none"]
  /\ profile' = [profile EXCEPT ![p] = NoProfile]
  /\ distrusted' = distrusted \ {p}
  /\ UNCHANGED <<dir, maker, runs, saved>>

\* The finally of _run_scan.
Closes(p) == at[p] = "close" /\ Gone(p)

Killed(p) == at[p] \notin {"off", "close"} /\ Gone(p)

Next ==
  \E p \in Procs :
    \/ Starts(p) \/ OpensCache(p) \/ GetsClone(p) \/ LoadsProfile(p) \/ Scans(p)
    \/ AsksForUpdate(p) \/ Executing(p) \/ Writes(p) \/ Closes(p) \/ Killed(p)

Spec == Init /\ [][Next]_vars

-----------------------------------------------------------------------------
(* Properties                                                              *)

Opened == {"open", "fetch", "remove", "removing", "clone", "cloning", "load", "store",
           "scan", "save", "touch", "ask", "update", "append"}

Profiles == [ref : Refs \cup {"none"}, madeAt : Refs \cup {"none"}, evidence : SUBSET Nat]

TypeOK ==
  /\ at \in [Procs -> {"off", "probe", "close"} \cup SettingUp \cup Opened]
  /\ path \in Files \cup {NoFile}
  /\ tables \in [Files -> {"none", "some", "all", "old"}]
  /\ version \in [Files -> {"none", "old", "current"}]
  /\ rows \in [Files -> [scans : SUBSET Nat, profile : Profiles, history : SUBSET Profiles]]
  /\ conn \in [Procs -> Files \cup {NoFile}]
  /\ writing \subseteq Procs /\ lapsed \in BOOLEAN
  /\ dir \in {"absent", "headless", "broken", "whole", "local"}
  /\ maker \subseteq Procs /\ distrusted \subseteq Procs
  /\ runs \in Nat /\ scan \in [Procs -> Nat]
  /\ ref \in [Procs -> Refs \cup {"none"}]
  /\ profile \in [Procs -> Profiles]
  /\ saved \subseteq Nat

\* A file whose tables are another release's never passes for a current one, and
\* a process works on a current file only, whoever was killed while setting it up
\* ("On cache schema version mismatch, SentrySloth recreates the cache DB").
OpenMeansCurrent ==
  /\ \A f \in Files : version[f] = "current" => tables[f] = "all"
  /\ \A p \in Procs : at[p] \in Opened => Current(conn[p])

\* A scan that save_scan returned from is in the cache that the next process
\* opens, whichever processes start, end and are killed meanwhile.  The exceptions
\* are told exactly: two processes that set up a cache which is not current at the
\* same time, where one deletes the file the other has just made, and a probe of a
\* current file that fails, after which the file is deleted (storage.py:104-112).
SavedScansKept ==
  lapsed \/ (saved # {} => path # NoFile /\ saved \subseteq rows[path].scans)

Grounded(pr, f) == pr.madeAt = pr.ref /\ pr.evidence \subseteq rows[f].scans

\* Profiles "are reused only at the same revision": the stored one and each one in
\* use was made at the revision it is for, and what it was updated with is a scan
\* recorded in the same cache.
ProfileGrounded ==
  /\ \A f \in Files : \A pr \in rows[f].history \cup {rows[f].profile} : Grounded(pr, f)
  /\ \A p \in Procs : at[p] \in {"store", "scan", "save", "touch", "ask"} =>
       profile[p].ref = ref[p] /\ Grounded(profile[p], conn[p])

\* A process on its way to delete a clone: one that found it unusable, or a git
\* clone that fails because such a process took its directory away.
Deletes(q) ==
  \/ at[q] \in {"remove", "removing"} /\ q \in distrusted
  \/ at[q] = "cloning" /\ q \notin maker

\* A process that got its clone keeps it while it reads it, unless another process
\* found it unusable (its fetch failed, or it looked while the clone was being made)
\* and deletes it ("Corrupt clone ..., re-cloning", git.py:83), or a git clone whose
\* directory such a process deleted fails and removes the one now at the path.
CloneStays ==
  [][(\E p \in Procs : at[p] \in {"load", "store", "scan"})
     /\ dir \in {"whole", "local"} /\ dir' # dir
       => \E q \in Procs : Deletes(q)]_vars

-----------------------------------------------------------------------------
(* The inductive invariants behind them                                    *)

UsesFile == {"create", "index", "version"} \cup Opened

\* How far the file is that a process sets up; nobody connects to an old one.
FileInv ==
  /\ OpenMeansCurrent
  /\ \A p \in Procs :
       /\ at[p] \in UsesFile => conn[p] \in Files
       /\ at[p] = "index" => tables[conn[p]] \in {"some", "all"}
       /\ at[p] = "version" => tables[conn[p]] = "all"
  /\ \A f \in Files : tables[f] = "old" =>
       \A p \in Procs : conn[p] # f /\ (path = f => at[p] # "connect")

\* Without those two everyone works on the file at the path, and a process that is
\* going to delete it found it outdated and is the only one that sets anything up.
KeepInv ==
  \/ lapsed
  \/ /\ \A p \in Procs : at[p] \in UsesFile => conn[p] = path
     /\ \A p \in Procs : at[p] = "reset" =>
          path # NoFile /\ ~Current(path) /\ \A q \in Procs \ {p} : at[q] \notin SettingUp
     /\ saved # {} => Current(path) /\ saved \subseteq rows[path].scans

\* What ProfileGrounded says holds until the new profile is written, because the scan
\* it was updated with is in the cache before the model is asked.
GroundInv ==
  /\ ProfileGrounded
  /\ \A p \in Procs : at[p] \in {"update", "append"} =>
       profile[p].ref = ref[p] /\ Grounded(profile[p], conn[p])
  /\ \A p \in Procs : at[p] \in {"touch", "ask", "update", "append"} =>
       scan[p] \in rows[conn[p]].scans

\* Who is about to delete found the clone unusable, and what a git clone still makes
\* is not whole.
CloneInv ==
  \A p \in Procs :
    /\ at[p] \in {"remove", "removing"} => p \in distrusted
    /\ at[p] = "cloning" /\ p \in maker => dir \notin {"whole", "local"}
=============================================================================
