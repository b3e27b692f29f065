------------------------ MODULE ScanProcessesProofs ------------------------
(***************************************************************************)
(* What holds of ScanProcesses for every number of processes, cache files  *)
(* and revisions and any number of starts, whichever processes are killed  *)
(* and whenever.                                                           *)
(***************************************************************************)
EXTENDS ScanProcesses, TLAPS

Steps == {"off", "probe", "close"} \cup SettingUp \cup Opened

\* Every step of a process but those that start it, open the cache or end it.
Works(p) == \/ GetsClone(p) \/ LoadsProfile(p) \/ Scans(p) \/ AsksForUpdate(p)
            \/ Executing(p) \/ Writes(p)

-----------------------------------------------------------------------------
(* Types                                                                   *)

LEMMA MovesType ==
  ASSUME TypeOK, NEW p \in Procs, NEW x \in Steps, Moves(p, x)
  PROVE  at' \in [Procs -> Steps] /\ at'[p] = x /\ \A q \in Procs \ {p} : at'[q] = at[q]
  BY DEF TypeOK, Moves, Steps

\* The steps of an open cache leave its file as it is and stay open, or close it.
LEMMA WorksStep ==
  ASSUME TypeOK, NEW p \in Procs, Works(p)
  PROVE  /\ UNCHANGED <<path, tables, version, conn, lapsed, runs, scan, ref>>
         /\ at[p] \in Opened
         /\ \E x \in Opened \cup {"close"} : at' = [at EXCEPT ![p] = x]
<1> USE DEF Opened
<1>1. CASE GetsClone(p)
  BY <1>1 DEF GetsClone, cacheVars, procVars, Clone!LooksForClone, Clone!FindsNoRepo,
              Clone!Fetches, Clone!StartsRemoving, Clone!EndsRemoving,
              Clone!StartsCloning, Clone!EndsCloning, Clone!Moves
<1>2. CASE LoadsProfile(p)
  BY <1>2 DEF LoadsProfile, cacheVars, Moves
<1>3. CASE Scans(p)
  BY <1>3 DEF Scans, cacheVars, procVars, Moves
<1>4. CASE AsksForUpdate(p)
  BY <1>4 DEF AsksForUpdate, cacheVars, Moves
<1>5. CASE Executing(p)
  <2>1. CASE Executes(p)
    <3>1. at' = [at EXCEPT ![p] = at[p]]
      BY <2>1 DEF Executes, TypeOK
    <3> QED BY <1>5, <2>1, <3>1 DEF Executing, Executes, procVars
  <2>2. CASE LockTimesOut(p)
    BY <1>5, <2>2 DEF Executing, LockTimesOut, cacheVars, procVars, Moves
  <2> QED BY <1>5, <2>1, <2>2 DEF Executing
<1>6. CASE Writes(p)
  BY <1>6 DEF Writes, StoresProfile, Saves, Touches, Updates, Appends, Commits, procVars,
              Moves
<1> QED BY <1>1, <1>2, <1>3, <1>4, <1>5, <1>6 DEF Works

LEMMA WritesType ==
  ASSUME TypeOK, NEW p \in Procs, conn[p] \in Files, Writes(p)
  PROVE  /\ rows' \in [Files -> [scans : SUBSET Nat, profile : Profiles,
                                 history : SUBSET Profiles]]
         /\ writing' \subseteq Procs /\ saved' \subseteq Nat
         /\ UNCHANGED <<dir, maker, distrusted, profile>>
<1> DEFINE R == [scans : SUBSET Nat, profile : Profiles, history : SUBSET Profiles]
<1>1. rows[conn[p]] \in R /\ profile[p] \in Profiles /\ scan[p] \in Nat
  BY DEF TypeOK
<1>2. ASSUME NEW changed \in R, NEW x, Commits(p, changed, x)
      PROVE  rows' \in [Files -> R] /\ writing' \subseteq Procs
  BY <1>2 DEF Commits, TypeOK
<1>3. CASE StoresProfile(p) \/ Touches(p) \/ Updates(p)
  <2>1. [Rows(p) EXCEPT !.profile = profile[p]] \in R
    BY <1>1 DEF Rows
  <2> HIDE DEF R
  <2> QED BY <2>1, <1>2, <1>3 DEF StoresProfile, Touches, Updates, dirVars, procVars, R, TypeOK
<1>4. CASE Saves(p)
  <2>1. [Rows(p) EXCEPT !.scans = @ \cup {scan[p]}] \in R
    BY <1>1 DEF Rows
  <2> HIDE DEF R
  <2> QED BY <2>1, <1>1, <1>2, <1>4 DEF Saves, dirVars, procVars, R, TypeOK
<1>5. CASE Appends(p)
  <2>1. [Rows(p) EXCEPT !.history = @ \cup {profile[p]}] \in R
    BY <1>1 DEF Rows
  <2> HIDE DEF R
  <2> QED BY <2>1, <1>2, <1>5 DEF Appends, dirVars, procVars, R, TypeOK
<1> QED BY <1>3, <1>4, <1>5 DEF Writes

LEMMA TypeStep == TypeOK /\ FileInv /\ [Next]_vars => TypeOK'
<1> SUFFICES ASSUME TypeOK, FileInv, [Next]_vars PROVE TypeOK'
  OBVIOUS
<1>t. TypeOK
  OBVIOUS
<1>1. ASSUME NEW p \in Procs, Starts(p) PROVE TypeOK'
  <2>1. at' \in [Procs -> Steps]
    BY <1>1, MovesType DEF Starts, Steps
  <2>2. /\ runs' \in Nat /\ scan' \in [Procs -> Nat] /\ ref' \in [Procs -> Refs \cup {"none"}]
        /\ UNCHANGED <<cacheVars, dirVars, profile, saved>>
    BY <1>1 DEF Starts, TypeOK
  <2> QED BY <2>1, <2>2 DEF TypeOK, Steps, cacheVars, dirVars
<1>2. ASSUME NEW p \in Procs, OpensCache(p) PROVE TypeOK'
  <2>1. UNCHANGED <<dir, maker, distrusted, runs, scan, ref, profile, saved>>
    BY <1>2 DEF OpensCache, dirVars, procVars
  <2>2. at' \in [Procs -> Steps]
    BY <1>2, MovesType DEF OpensCache, Probes, Resets, Connects, CreatesTables,
       CreatesLast, SetsVersion, Steps, SettingUp, Opened
  <2>3. CASE Probes(p)
    BY <2>1, <2>2, <2>3 DEF Probes, TypeOK, Steps
  <2>4. CASE Resets(p)
    BY <2>1, <2>2, <2>4 DEF Resets, TypeOK, Steps
  <2>5. CASE Connects(p)
    <3>1. CASE path # NoFile /\ conn' = [conn EXCEPT ![p] = path]
               /\ UNCHANGED <<path, tables, version, rows>>
      BY <2>1, <2>2, <2>5, <3>1 DEF Connects, TypeOK, Steps
    <3>2. CASE \E f \in Files :
                 /\ path' = f /\ conn' = [conn EXCEPT ![p] = f]
                 /\ tables' = [tables EXCEPT ![f] = "none"]
                 /\ version' = [version EXCEPT ![f] = "none"]
                 /\ rows' = [rows EXCEPT ![f] = NoRows]
      <4>1. NoRows \in [scans : SUBSET Nat, profile : Profiles, history : SUBSET Profiles]
        BY DEF NoRows, NoProfile, Profiles
      <4> QED BY <2>1, <2>2, <2>5, <3>2, <4>1 DEF Connects, TypeOK, Steps
    <3> QED BY <2>5, <3>1, <3>2 DEF Connects
  <2>6. CASE CreatesTables(p) \/ CreatesLast(p) \/ SetsVersion(p)
    BY <2>1, <2>2, <2>6 DEF CreatesTables, CreatesLast, SetsVersion, TypeOK, Steps
  <2> QED BY <1>2, <2>3, <2>4, <2>5, <2>6 DEF OpensCache
<1>3. ASSUME NEW p \in Procs, Works(p) PROVE TypeOK'
  <2>1. /\ UNCHANGED <<path, tables, version, conn, lapsed, runs, scan, ref>>
        /\ at[p] \in Opened /\ at' \in [Procs -> Steps]
    BY <1>3, WorksStep DEF Steps, TypeOK
  <2>2. conn[p] \in Files
    BY <2>1 DEF FileInv, UsesFile
  <2>3. CASE GetsClone(p)
    <3>1. UNCHANGED <<rows, writing, profile, saved>>
      BY <2>3 DEF GetsClone, cacheVars, procVars
    <3>2. dir' \in {"absent", "headless", "broken", "whole", "local"}
          /\ maker' \subseteq Procs /\ distrusted' \subseteq Procs
      BY <2>3 DEF GetsClone, TypeOK, Clone!LooksForClone, Clone!FindsNoRepo, Clone!Fetches,
         Clone!StartsRemoving, Clone!EndsRemoving, Clone!StartsCloning, Clone!EndsCloning,
         Clone!dirVars
    <3> QED BY <2>1, <3>1, <3>2 DEF TypeOK, Steps
  <2>4. CASE LoadsProfile(p)
    <3>1. Rows(p).profile \in Profiles
      BY <2>2 DEF Rows, TypeOK
    <3>2. Bootstrapped(p) \in Profiles
      BY DEF Bootstrapped, Profiles, TypeOK
    <3>3. profile' \in [Procs -> Profiles] /\ UNCHANGED <<rows, writing, dir, maker, distrusted, saved>>
      BY <2>4, <3>1, <3>2 DEF LoadsProfile, cacheVars, dirVars, TypeOK
    <3> QED BY <2>1, <3>3 DEF TypeOK, Steps
  <2>5. CASE Scans(p)
    BY <2>1, <2>5 DEF Scans, cacheVars, dirVars, procVars, TypeOK, Steps
  <2>6. CASE AsksForUpdate(p)
    <3>1. Updated(p) \in Profiles
      <4>1. profile[p] \in Profiles /\ ref[p] \in Refs \cup {"none"} /\ scan[p] \in Nat
        BY DEF TypeOK
      <4> QED BY <4>1 DEF Updated, Profiles
    <3>2. profile' \in [Procs -> Profiles] /\ UNCHANGED <<rows, writing, dir, maker, distrusted, saved>>
      BY <2>6, <3>1 DEF AsksForUpdate, cacheVars, dirVars, TypeOK
    <3> QED BY <2>1, <3>2 DEF TypeOK, Steps
  <2>7. CASE Executing(p)
    <3>1. writing' \subseteq Procs /\ UNCHANGED <<rows, dir, maker, distrusted, profile, saved>>
      BY <2>7 DEF Executing, Executes, LockTimesOut, cacheVars, dirVars, procVars, TypeOK
    <3> QED BY <2>1, <3>1 DEF TypeOK, Steps
  <2>8. CASE Writes(p)
    BY <2>1, <2>2, <2>8, WritesType DEF TypeOK, Steps
  <2> QED BY <1>3, <2>3, <2>4, <2>5, <2>6, <2>7, <2>8 DEF Works
<1>4. ASSUME NEW p \in Procs, Gone(p) PROVE TypeOK'
  <2>1. at' \in [Procs -> Steps]
    BY <1>4, MovesType DEF Gone, Disconnects, Steps
  <2>2. /\ scan' \in [Procs -> Nat] /\ ref' \in [Procs -> Refs \cup {"none"}]
        /\ profile' \in [Procs -> Profiles]
    BY <1>4 DEF Gone, NoProfile, Profiles, TypeOK
  <2>3. /\ conn' \in [Procs -> Files \cup {NoFile}] /\ writing' \subseteq Procs
        /\ distrusted' \subseteq Procs
        /\ UNCHANGED <<path, tables, version, rows, lapsed, dir, maker, runs, saved>>
    BY <1>4 DEF Gone, Disconnects, TypeOK
  <2> QED BY <2>1, <2>2, <2>3 DEF TypeOK, Steps
<1>5. CASE UNCHANGED vars
  BY <1>5 DEF vars, cacheVars, dirVars, procVars, TypeOK
<1> QED BY <1>1, <1>2, <1>3, <1>4, <1>5 DEF Next, Works, Closes, Killed

-----------------------------------------------------------------------------
(* The file that is opened                                                 *)

LEMMA FileStep == TypeOK /\ FileInv /\ [Next]_vars => FileInv'
<1> SUFFICES ASSUME TypeOK, FileInv, [Next]_vars PROVE FileInv'
  OBVIOUS
<1>t. /\ at \in [Procs -> Steps] /\ path \in Files \cup {NoFile} /\ NoFile \notin Files
      /\ tables \in [Files -> {"none", "some", "all", "old"}]
      /\ version \in [Files -> {"none", "old", "current"}]
      /\ conn \in [Procs -> Files \cup {NoFile}]
  BY FilesAssumption DEF TypeOK, Steps
<1> USE DEF OpenMeansCurrent, UsesFile, Current
\* A step that moves one process among the places that say nothing of the files.
<1>1. ASSUME NEW p \in Procs, NEW x, at' = [at EXCEPT ![p] = x],
             UNCHANGED <<path, tables, version>>,
             conn' = conn \/ conn' = [conn EXCEPT ![p] = NoFile],
             x \in {"off", "probe", "reset", "close"}
             \/ (x \in Opened /\ at[p] \in Opened /\ conn' = conn)
      PROVE  FileInv'
  <2>1. \A q \in Procs \ {p} : at'[q] = at[q] /\ conn'[q] = conn[q]
    BY <1>1, <1>t
  <2>2. at'[p] = x /\ (conn'[p] = conn[p] \/ conn'[p] = NoFile)
    BY <1>1, <1>t
  <2>3. x \notin {"index", "version", "connect"}
    BY <1>1 DEF Opened
  <2>4. x \in UsesFile => x \in Opened /\ at[p] \in Opened /\ conn'[p] = conn[p]
    BY <1>1 DEF Opened
  <2>5. OpenMeansCurrent'
    BY <1>1, <2>1, <2>2, <2>4 DEF FileInv
  <2>6. \A q \in Procs :
          /\ at'[q] \in UsesFile => conn'[q] \in Files
          /\ at'[q] = "index" => tables'[conn'[q]] \in {"some", "all"}
          /\ at'[q] = "version" => tables'[conn'[q]] = "all"
    BY <1>1, <2>1, <2>2, <2>3, <2>4 DEF FileInv
  <2>7. \A f \in Files : tables'[f] = "old" =>
          \A q \in Procs : conn'[q] # f /\ (path' = f => at'[q] # "connect")
    BY <1>1, <1>t, <2>1, <2>2, <2>3 DEF FileInv
  <2> QED BY <2>5, <2>6, <2>7 DEF FileInv
<1>2. ASSUME NEW p \in Procs, Starts(p) PROVE FileInv'
  BY <1>2, <1>1 DEF Starts, cacheVars, Moves
<1>3. ASSUME NEW p \in Procs, Works(p) PROVE FileInv'
  BY <1>3, <1>1, WorksStep
<1>4. ASSUME NEW p \in Procs, Gone(p) PROVE FileInv'
  BY <1>4, <1>1 DEF Gone, Disconnects, Moves
<1>5. ASSUME NEW p \in Procs, Probes(p) PROVE FileInv'
  <2>1. CASE Moves(p, "reset")
    BY <1>5, <2>1, <1>1 DEF Probes, Moves
  <2>2. CASE Moves(p, "connect") /\ (path = NoFile \/ Current(path))
    <3>1. UNCHANGED <<path, tables, version, conn>>
      BY <1>5 DEF Probes
    <3>2. at'[p] = "connect" /\ \A q \in Procs \ {p} : at'[q] = at[q]
      BY <2>2, <1>t DEF Moves
    <3>3. path \in Files => tables[path] # "old"
      BY <2>2, <1>t DEF FileInv
    <3> QED BY <3>1, <3>2, <3>3, <1>t DEF FileInv, Opened
  <2> QED BY <1>5, <2>1, <2>2 DEF Probes
<1>6. ASSUME NEW p \in Procs, Resets(p) PROVE FileInv'
  <2>1. path' = NoFile /\ UNCHANGED <<tables, version, conn>>
    BY <1>6 DEF Resets
  <2>2. at'[p] = "connect" /\ \A q \in Procs \ {p} : at'[q] = at[q]
    BY <1>6, <1>t DEF Resets, Moves
  <2> QED BY <2>1, <2>2, <1>t DEF FileInv, Opened
<1>7. ASSUME NEW p \in Procs, Connects(p) PROVE FileInv'
  <2>1. at[p] = "connect" /\ at'[p] = "create" /\ \A q \in Procs \ {p} : at'[q] = at[q]
    BY <1>7, <1>t DEF Connects, Moves
  <2>2. CASE path # NoFile /\ conn' = [conn EXCEPT ![p] = path]
             /\ UNCHANGED <<path, tables, version, rows>>
    <3>1. path \in Files /\ tables[path] # "old"
      BY <2>1, <2>2, <1>t DEF FileInv
    <3>2. conn'[p] = path /\ \A q \in Procs \ {p} : conn'[q] = conn[q]
      BY <2>2, <1>t
    <3> QED BY <2>1, <2>2, <3>1, <3>2 DEF FileInv, Opened
  <2>3. CASE \E f \in Files :
               /\ Unused(f) /\ path' = f /\ conn' = [conn EXCEPT ![p] = f]
               /\ tables' = [tables EXCEPT ![f] = "none"]
               /\ version' = [version EXCEPT ![f] = "none"]
    <3>1. PICK f \in Files :
               /\ Unused(f) /\ path' = f /\ conn' = [conn EXCEPT ![p] = f]
               /\ tables' = [tables EXCEPT ![f] = "none"]
               /\ version' = [version EXCEPT ![f] = "none"]
      BY <2>3
    <3>2. /\ tables'[f] = "none" /\ version'[f] = "none"
          /\ \A g \in Files \ {f} : tables'[g] = tables[g] /\ version'[g] = version[g]
      BY <3>1, <1>t
    <3>3. conn'[p] = f /\ \A q \in Procs \ {p} : conn'[q] = conn[q] /\ conn[q] # f
      BY <3>1, <1>t DEF Unused
    <3>4. OpenMeansCurrent'
      BY <2>1, <3>2, <3>3, <1>t DEF FileInv, Opened
    <3>5. \A q \in Procs :
            /\ at'[q] \in UsesFile => conn'[q] \in Files
            /\ at'[q] = "index" => tables'[conn'[q]] \in {"some", "all"}
            /\ at'[q] = "version" => tables'[conn'[q]] = "all"
      BY <2>1, <3>2, <3>3, <1>t DEF FileInv, Opened
    <3>6. \A g \in Files : tables'[g] = "old" =>
            \A q \in Procs : conn'[q] # g /\ (path' = g => at'[q] # "connect")
      BY <3>1, <3>2, <3>3, <1>t DEF FileInv
    <3> QED BY <3>4, <3>5, <3>6 DEF FileInv
  <2> QED BY <1>7, <2>2, <2>3 DEF Connects
<1>8. ASSUME NEW p \in Procs, CreatesTables(p) \/ CreatesLast(p) PROVE FileInv'
  <2>1. /\ at[p] \in {"create", "index"}
        /\ UNCHANGED <<path, version, conn>> /\ \A q \in Procs \ {p} : at'[q] = at[q]
    BY <1>8, <1>t DEF CreatesTables, CreatesLast, Moves
  <2>2. conn[p] \in Files /\ tables[conn[p]] # "old"
    BY <2>1 DEF FileInv
  <2>3. /\ \A f \in Files \ {conn[p]} : tables'[f] = tables[f]
        /\ tables[conn[p]] = "all" => tables'[conn[p]] = "all"
        /\ tables[conn[p]] = "some" => tables'[conn[p]] \in {"some", "all"}
        /\ tables'[conn[p]] # "old"
    BY <1>8, <2>2, <1>t DEF CreatesTables, CreatesLast
  <2>4. \/ at'[p] = "index" /\ tables'[conn[p]] \in {"some", "all"}
        \/ at'[p] = "version" /\ tables'[conn[p]] = "all"
    BY <1>8, <2>2, <1>t DEF CreatesTables, CreatesLast, Moves, FileInv
  <2> QED BY <2>1, <2>2, <2>3, <2>4 DEF FileInv, Opened
<1>9. ASSUME NEW p \in Procs, SetsVersion(p) PROVE FileInv'
  <2>1. /\ at[p] = "version" /\ at'[p] = "open"
        /\ UNCHANGED <<path, tables, conn>> /\ \A q \in Procs \ {p} : at'[q] = at[q]
    BY <1>9, <1>t DEF SetsVersion, Moves
  <2>2. conn[p] \in Files /\ tables[conn[p]] = "all"
    BY <2>1 DEF FileInv
  <2>3. version'[conn[p]] = "current" /\ \A f \in Files \ {conn[p]} : version'[f] = version[f]
    BY <1>9, <2>2, <1>t DEF SetsVersion
  <2> QED BY <2>1, <2>2, <2>3, <1>t DEF FileInv, Opened
<1>10. CASE UNCHANGED vars
  BY <1>10 DEF vars, cacheVars, FileInv
<1> QED BY <1>2, <1>3, <1>4, <1>5, <1>6, <1>7, <1>8, <1>9, <1>10
        DEF Next, OpensCache, Works, Closes, Killed

LEMMA FileInit == Init => TypeOK /\ FileInv
<1> SUFFICES ASSUME Init PROVE TypeOK /\ FileInv
  OBVIOUS
<1>1. /\ at = [p \in Procs |-> "off"] /\ conn = [p \in Procs |-> NoFile]
      /\ writing = {} /\ lapsed = FALSE /\ runs = 0 /\ saved = {}
      /\ rows = [f \in Files |-> NoRows] /\ path \in Files \cup {NoFile}
      /\ maker = {} /\ distrusted = {}
    BY DEF Init, InitCache, Clone!InitDir
<1>2. /\ NoProfile \in Profiles
      /\ NoRows \in [scans : SUBSET Nat, profile : Profiles, history : SUBSET Profiles]
  BY DEF NoRows, NoProfile, Profiles
<1>3. /\ tables \in [Files -> {"none", "old", "all"}]
      /\ version \in [Files -> {"none", "old", "current"}]
      /\ \A f \in Files : version[f] = "current" => tables[f] = "all"
  BY DEF Init, InitCache
<1>4. /\ scan \in [Procs -> Nat] /\ ref \in [Procs -> Refs \cup {"none"}]
      /\ profile \in [Procs -> Profiles] /\ dir \in {"absent", "whole", "local"}
  BY <1>2 DEF Init, Clone!InitDir
<1>5. TypeOK
  BY <1>1, <1>2, <1>3, <1>4 DEF TypeOK
<1>6. FileInv
  BY <1>1, <1>3, FilesAssumption DEF FileInv, OpenMeansCurrent, UsesFile, Opened, Current
<1> QED BY <1>5, <1>6

\* Whoever is killed while a cache is set up, deleted or made anew, a process goes on
\* to work on a file of the current schema only.
THEOREM CacheCurrent == Spec => []OpenMeansCurrent
<1>1. FileInv => OpenMeansCurrent
  BY DEF FileInv
<1> QED BY <1>1, FileInit, TypeStep, FileStep, PTL DEF Spec

LEMMA Base == Spec => [](TypeOK /\ FileInv)
  BY FileInit, TypeStep, FileStep, PTL DEF Spec

-----------------------------------------------------------------------------
(* The scans that were saved                                               *)

\* A commit changes the rows of the file its process is connected to.
LEMMA CommitsRows ==
  ASSUME TypeOK, NEW p \in Procs, conn[p] \in Files, NEW changed, NEW x,
         Commits(p, changed, x)
  PROVE  /\ rows'[conn[p]] = changed
         /\ \A f \in Files \ {conn[p]} : rows'[f] = rows[f]
         /\ at'[p] = x /\ \A q \in Procs \ {p} : at'[q] = at[q]
  BY DEF Commits, Moves, TypeOK

\* No step of an open cache loses a scan, and one is only said to be saved when it is.
LEMMA WorksKeeps ==
  ASSUME TypeOK, FileInv, NEW p \in Procs, Works(p)
  PROVE  /\ \A f \in Files : rows[f].scans \subseteq rows'[f].scans
         /\ \/ saved' = saved
            \/ saved' = saved \cup {scan[p]} /\ scan[p] \in rows'[conn[p]].scans
<1>1. conn[p] \in Files
  BY WorksStep DEF FileInv, UsesFile
<1>2. rows[conn[p]] \in [scans : SUBSET Nat, profile : Profiles, history : SUBSET Profiles]
  BY <1>1 DEF TypeOK
<1>3. CASE GetsClone(p) \/ LoadsProfile(p) \/ Scans(p) \/ AsksForUpdate(p) \/ Executing(p)
  BY <1>3 DEF GetsClone, LoadsProfile, Scans, AsksForUpdate, Executing, Executes,
              LockTimesOut, cacheVars, procVars
<1>4. CASE StoresProfile(p) \/ Touches(p) \/ Updates(p)
  <2>1. rows'[conn[p]] = [Rows(p) EXCEPT !.profile = profile[p]]
        /\ \A f \in Files \ {conn[p]} : rows'[f] = rows[f]
    BY <1>1, <1>4, CommitsRows DEF StoresProfile, Touches, Updates
  <2> QED BY <1>2, <1>4, <2>1 DEF StoresProfile, Touches, Updates, Rows
<1>5. CASE Saves(p)
  <2>1. rows'[conn[p]] = [Rows(p) EXCEPT !.scans = @ \cup {scan[p]}]
        /\ \A f \in Files \ {conn[p]} : rows'[f] = rows[f]
    BY <1>1, <1>5, CommitsRows DEF Saves
  <2> QED BY <1>2, <1>5, <2>1 DEF Saves, Rows
<1>6. CASE Appends(p)
  <2>1. rows'[conn[p]] = [Rows(p) EXCEPT !.history = @ \cup {profile[p]}]
        /\ \A f \in Files \ {conn[p]} : rows'[f] = rows[f]
    BY <1>1, <1>6, CommitsRows DEF Appends
  <2> QED BY <1>2, <1>6, <2>1 DEF Appends, Rows
<1> QED BY <1>3, <1>4, <1>5, <1>6 DEF Works, Writes

LEMMA KeepStep == TypeOK /\ FileInv /\ KeepInv /\ [Next]_vars => KeepInv'
<1> SUFFICES ASSUME TypeOK, FileInv, KeepInv, [Next]_vars PROVE KeepInv'
  OBVIOUS
<1>t. /\ at \in [Procs -> Steps] /\ path \in Files \cup {NoFile} /\ NoFile \notin Files
      /\ version \in [Files -> {"none", "old", "current"}]
      /\ conn \in [Procs -> Files \cup {NoFile}]
  BY FilesAssumption DEF TypeOK, Steps
<1>r. lapsed => lapsed'
  BY DEF Next, Starts, OpensCache, GetsClone, LoadsProfile, Scans, AsksForUpdate, Executing,
         Writes, StoresProfile, Saves, Touches, Updates, Appends, Commits, Executes,
         LockTimesOut, Closes, Killed, Gone, Disconnects, Probes, Resets, Connects,
         CreatesTables, CreatesLast, SetsVersion, vars, cacheVars
<1>0. CASE lapsed'
  BY <1>0 DEF KeepInv
<1> SUFFICES ASSUME ~lapsed' PROVE KeepInv'
  BY <1>0
<1>k. /\ \A p \in Procs : at[p] \in UsesFile => conn[p] = path
      /\ \A p \in Procs : at[p] = "reset" =>
           path # NoFile /\ ~Current(path) /\ \A q \in Procs \ {p} : at[q] \notin SettingUp
      /\ saved # {} => Current(path) /\ saved \subseteq rows[path].scans
  BY <1>r DEF KeepInv
<1>f. \A p \in Procs :
        /\ at[p] \in UsesFile => conn[p] \in Files
        /\ at[p] \in Opened => Current(conn[p])
  BY DEF FileInv, OpenMeansCurrent
\* A step that leaves the files alone and sets nothing up.
<1>1. ASSUME NEW p \in Procs, NEW x, at' = [at EXCEPT ![p] = x],
             UNCHANGED <<path, version, rows, saved>>,
             conn' = conn \/ conn' = [conn EXCEPT ![p] = NoFile],
             x \in {"off", "probe", "close"}
      PROVE  KeepInv'
  <2>1. \A q \in Procs \ {p} : at'[q] = at[q] /\ conn'[q] = conn[q]
    BY <1>1, <1>t
  <2>2. at'[p] \notin UsesFile \cup SettingUp
    BY <1>1, <1>t DEF UsesFile, SettingUp, Opened
  <2>3. Current(path)' <=> Current(path)
    BY <1>1 DEF Current
  <2>4. at'[p] # "reset"
    BY <2>2 DEF SettingUp
  <2> QED BY <1>1, <1>k, <2>1, <2>2, <2>3, <2>4 DEF KeepInv
<1>2. ASSUME NEW p \in Procs, Starts(p) PROVE KeepInv'
  BY <1>2, <1>1 DEF Starts, cacheVars, Moves
<1>3. ASSUME NEW p \in Procs, Gone(p) PROVE KeepInv'
  BY <1>3, <1>1 DEF Gone, Disconnects, Moves
<1>4. ASSUME NEW p \in Procs, Works(p) PROVE KeepInv'
  <2>1. /\ UNCHANGED <<path, version, conn>> /\ at[p] \in Opened
        /\ at'[p] \in Opened \cup {"close"} /\ \A q \in Procs \ {p} : at'[q] = at[q]
    BY <1>4, <1>t, WorksStep
  <2>2. conn[p] = path /\ path \in Files /\ Current(path)
    BY <2>1, <1>k, <1>f DEF UsesFile
  <2>3. \A f \in Files : rows[f].scans \subseteq rows'[f].scans
    BY <1>4, WorksKeeps
  <2>4. saved' = saved \/ (saved' = saved \cup {scan[p]} /\ scan[p] \in rows'[path].scans)
    BY <1>4, <2>2, WorksKeeps
  <2>5. \A q \in Procs : at'[q] # "reset"
    <3>1. \A q \in Procs : at[q] # "reset"
      BY <2>2, <1>k
    <3> QED BY <3>1, <2>1 DEF Opened
  <2>6. Current(path)'
    BY <2>1, <2>2 DEF Current
  <2>7. saved' # {} => saved' \subseteq rows'[path].scans
    BY <2>2, <2>3, <2>4, <1>k
  <2>8. \A q \in Procs : at'[q] \in UsesFile => conn'[q] = path'
    BY <2>1, <2>2, <1>k
  <2> QED BY <2>1, <2>5, <2>6, <2>7, <2>8 DEF KeepInv
<1>5. ASSUME NEW p \in Procs, OpensCache(p), NEW x, Moves(p, x)
      PROVE  /\ at'[p] = x /\ \A q \in Procs \ {p} : at'[q] = at[q]
             /\ UNCHANGED saved
  BY <1>5, <1>t DEF OpensCache, Moves
<1>6. ASSUME NEW p \in Procs, OpensCache(p), Probes(p) PROVE KeepInv'
  <2>1. UNCHANGED <<path, version, rows, conn, saved>>
    BY <1>6 DEF OpensCache, Probes
  <2>2. Current(path)' <=> Current(path)
    BY <2>1 DEF Current
  <2>3. CASE (path = NoFile \/ Current(path)) /\ Moves(p, "connect")
    <3>1. at'[p] = "connect" /\ \A q \in Procs \ {p} : at'[q] = at[q]
      BY <1>5, <1>6, <2>3
    <3>2. \A q \in Procs : at'[q] # "reset"
      BY <3>1, <2>3, <1>k
    <3>3. at'[p] \notin UsesFile
      BY <3>1 DEF UsesFile, Opened
    <3> QED BY <2>1, <2>2, <3>1, <3>2, <3>3, <1>k DEF KeepInv
  <2>4. CASE path # NoFile /\ Moves(p, "reset")
             /\ lapsed' = (lapsed \/ Current(path) \/ \E q \in Procs \ {p} : at[q] \in SettingUp)
    <3>1. at'[p] = "reset" /\ \A q \in Procs \ {p} : at'[q] = at[q]
      BY <1>5, <1>6, <2>4
    <3>2. \A q \in Procs \ {p} : at'[q] \notin SettingUp
      BY <3>1, <2>4
    <3>3. at'[p] \notin UsesFile
      BY <3>1 DEF UsesFile, Opened
    <3>4. \A q \in Procs \ {p} : at'[q] # "reset"
      BY <3>2 DEF SettingUp
    <3> QED BY <2>1, <2>2, <2>4, <3>1, <3>2, <3>3, <3>4, <1>k DEF KeepInv
  <2> QED BY <1>6, <2>3, <2>4 DEF Probes
<1>7. ASSUME NEW p \in Procs, OpensCache(p), Resets(p) PROVE KeepInv'
  <2>1. at[p] = "reset" /\ path' = NoFile /\ UNCHANGED <<version, rows, conn, saved>>
    BY <1>7 DEF OpensCache, Resets
  <2>2. at'[p] = "connect" /\ \A q \in Procs \ {p} : at'[q] = at[q]
    BY <1>5, <1>7 DEF Resets
  <2>3. ~Current(path) /\ saved = {} /\ \A q \in Procs \ {p} : at[q] \notin SettingUp
    BY <2>1, <1>k
  <2>4. \A q \in Procs \ {p} : at[q] \notin UsesFile
    <3> SUFFICES ASSUME NEW q \in Procs \ {p}, at[q] \in UsesFile PROVE FALSE
      OBVIOUS
    <3>1. at[q] \in Opened
      BY <2>3 DEF UsesFile, SettingUp
    <3> QED BY <3>1, <2>3, <1>k, <1>f
  <2>5. at'[p] \notin UsesFile /\ \A q \in Procs : at'[q] # "reset"
    BY <2>2, <2>3 DEF UsesFile, Opened, SettingUp
  <2> QED BY <2>1, <2>2, <2>3, <2>4, <2>5 DEF KeepInv
<1>8. ASSUME NEW p \in Procs, OpensCache(p), Connects(p) PROVE KeepInv'
  <2>1. at[p] = "connect" /\ UNCHANGED saved
    BY <1>8 DEF OpensCache, Connects
  <2>2. at'[p] = "create" /\ \A q \in Procs \ {p} : at'[q] = at[q]
    BY <1>5, <1>8 DEF Connects
  <2>3. \A q \in Procs : at'[q] # "reset"
    BY <2>1, <2>2, <1>k DEF SettingUp
  <2>4. CASE path # NoFile /\ conn' = [conn EXCEPT ![p] = path]
             /\ UNCHANGED <<path, version, rows>>
    <3>1. conn'[p] = path /\ \A q \in Procs \ {p} : conn'[q] = conn[q]
      BY <2>4, <1>t
    <3>2. Current(path)' <=> Current(path)
      BY <2>4 DEF Current
    <3> QED BY <2>1, <2>2, <2>3, <2>4, <3>1, <3>2, <1>k DEF KeepInv
  <2>5. CASE path = NoFile /\ \E f \in Files : path' = f /\ conn' = [conn EXCEPT ![p] = f]
    <3>1. \A q \in Procs : at[q] \notin UsesFile
      BY <2>5, <1>k, <1>f, <1>t
    <3>2. saved' = {}
      BY <2>1, <2>5, <1>k DEF Current
    <3>3. conn'[p] = path'
      BY <2>5, <1>t
    <3> QED BY <2>2, <2>3, <3>1, <3>2, <3>3 DEF KeepInv
  <2> QED BY <1>8, <2>4, <2>5 DEF Connects
<1>9. ASSUME NEW p \in Procs, OpensCache(p),
             CreatesTables(p) \/ CreatesLast(p) \/ SetsVersion(p)
      PROVE  KeepInv'
  <2>1. /\ at[p] \in {"create", "index", "version"}
        /\ UNCHANGED <<path, rows, conn, saved>>
    BY <1>9 DEF OpensCache, CreatesTables, CreatesLast, SetsVersion
  <2>2. at'[p] \in {"index", "version", "open"} /\ \A q \in Procs \ {p} : at'[q] = at[q]
    BY <1>5, <1>9 DEF CreatesTables, CreatesLast, SetsVersion
  <2>3. conn[p] = path /\ path \in Files
    BY <2>1, <1>k, <1>f DEF UsesFile
  <2>4. Current(path) => Current(path)'
    BY <1>9, <2>1, <2>3, <1>t DEF CreatesTables, CreatesLast, SetsVersion, Current
  <2>5. \A q \in Procs : at'[q] # "reset"
    BY <2>1, <2>2, <1>k DEF SettingUp
  <2> QED BY <2>1, <2>2, <2>3, <2>4, <2>5, <1>k DEF KeepInv
<1>10. CASE UNCHANGED vars
  <2>1. UNCHANGED <<at, path, version, rows, conn, saved>>
    BY <1>10 DEF vars, cacheVars
  <2> QED BY <2>1, <1>k DEF KeepInv, Current
<1> QED BY <1>2, <1>3, <1>4, <1>6, <1>7, <1>8, <1>9, <1>10
        DEF Next, OpensCache, Works, Closes, Killed

\* What save_scan has recorded stays in the cache, unless two processes set up a cache
\* at once of which one deletes the file the other has just made.
THEOREM ScansKept == Spec => []SavedScansKept
<1>1. Init => KeepInv
  BY DEF Init, InitCache, KeepInv, UsesFile, Opened
<1>2. KeepInv => SavedScansKept
  BY DEF KeepInv, SavedScansKept, Current
<1> QED BY <1>1, <1>2, KeepStep, Base, PTL DEF Spec

-----------------------------------------------------------------------------
(* The profiles                                                            *)

\* What a process says of its profile, once it has loaded one.
Holds(p) ==
  /\ at[p] \in {"store", "scan", "save", "touch", "ask", "update", "append"} =>
       profile[p].ref = ref[p] /\ Grounded(profile[p], conn[p])
  /\ at[p] \in {"touch", "ask", "update", "append"} => scan[p] \in rows[conn[p]].scans

StoredGrounded ==
  \A f \in Files : \A pr \in rows[f].history \cup {rows[f].profile} : Grounded(pr, f)

LEMMA GroundParts == GroundInv <=> StoredGrounded /\ \A p \in Procs : Holds(p)
  BY DEF GroundInv, ProfileGrounded, StoredGrounded, Holds

LEMMA GroundPartsNext ==
  (StoredGrounded /\ \A p \in Procs : Holds(p))' => GroundInv'
  BY DEF GroundInv, ProfileGrounded, StoredGrounded, Holds

\* Where no scan is lost, a process that does not step keeps what it holds.
LEMMA OthersHold ==
  ASSUME FileInv, GroundInv, NEW p \in Procs, NEW q \in Procs, p # q,
         at'[q] = at[q], profile'[q] = profile[q], ref'[q] = ref[q], scan'[q] = scan[q],
         conn'[q] = conn[q],
         at[q] \in UsesFile => rows[conn[q]].scans \subseteq rows'[conn[q]].scans
  PROVE  Holds(q)'
<1>1. Holds(q)
  BY GroundParts
<1>2. at[q] \in {"store", "scan", "save", "touch", "ask", "update", "append"} =>
        rows[conn[q]].scans \subseteq rows'[conn[q]].scans
  BY DEF UsesFile, Opened
<1> QED BY <1>1, <1>2 DEF Holds, Grounded

LEMMA GroundStep == TypeOK /\ FileInv /\ GroundInv /\ [Next]_vars => GroundInv'
<1> SUFFICES ASSUME TypeOK, FileInv, GroundInv, [Next]_vars PROVE GroundInv'
  OBVIOUS
<1>t. /\ at \in [Procs -> Steps] /\ conn \in [Procs -> Files \cup {NoFile}]
      /\ rows \in [Files -> [scans : SUBSET Nat, profile : Profiles, history : SUBSET Profiles]]
      /\ profile \in [Procs -> Profiles] /\ ref \in [Procs -> Refs \cup {"none"}]
      /\ scan \in [Procs -> Nat]
  BY DEF TypeOK, Steps
<1>g. StoredGrounded /\ \A p \in Procs : Holds(p)
  BY GroundParts
<1>c. \A p \in Procs : at[p] \in UsesFile => conn[p] \in Files
  BY DEF FileInv
\* A step that writes nothing and does not bring its process to a profile.
<1>1. ASSUME NEW p \in Procs, rows' = rows,
             \A q \in Procs \ {p} :
               /\ at'[q] = at[q] /\ profile'[q] = profile[q] /\ ref'[q] = ref[q]
               /\ scan'[q] = scan[q] /\ conn'[q] = conn[q],
             Holds(p)'
      PROVE  GroundInv'
  <2>1. StoredGrounded'
    BY <1>1, <1>g DEF StoredGrounded, Grounded
  <2>2. \A q \in Procs \ {p} : Holds(q)'
    BY <1>1, OthersHold
  <2>3. (StoredGrounded /\ \A q \in Procs : Holds(q))'
    BY <2>1, <2>2, <1>1
  <2> QED BY <2>3, GroundPartsNext
<1>2. ASSUME NEW p \in Procs, Starts(p) PROVE GroundInv'
  <2>1. at' = [at EXCEPT ![p] = "probe"] /\ UNCHANGED <<rows, conn, profile>>
    BY <1>2 DEF Starts, Moves, cacheVars
  <2>2. \A q \in Procs \ {p} : scan'[q] = scan[q] /\ ref'[q] = ref[q]
    BY <1>2, <1>t DEF Starts
  <2>3. Holds(p)'
    BY <2>1, <1>t DEF Holds
  <2> QED BY <2>1, <2>2, <2>3, <1>1, <1>t
<1>3. ASSUME NEW p \in Procs, Gone(p) PROVE GroundInv'
  <2>1. at' = [at EXCEPT ![p] = "off"] /\ rows' = rows
    BY <1>3 DEF Gone, Disconnects, Moves
  <2>2. \A q \in Procs \ {p} :
          /\ profile'[q] = profile[q] /\ ref'[q] = ref[q]
          /\ scan'[q] = scan[q] /\ conn'[q] = conn[q]
    BY <1>3, <1>t DEF Gone, Disconnects
  <2>3. Holds(p)'
    BY <2>1, <1>t DEF Holds
  <2> QED BY <2>1, <2>2, <2>3, <1>1, <1>t
<1>4. ASSUME NEW p \in Procs, OpensCache(p) PROVE GroundInv'
  <2>1. UNCHANGED <<profile, ref, scan>>
    BY <1>4 DEF OpensCache, procVars
  <2>2. PICK x \in SettingUp \cup {"open"} : at' = [at EXCEPT ![p] = x]
    BY <1>4 DEF OpensCache, Probes, Resets, Connects, CreatesTables, CreatesLast,
                SetsVersion, Moves, SettingUp
  <2>3. Holds(p)'
    BY <2>2, <1>t DEF Holds, SettingUp
  <2>4. CASE UNCHANGED <<rows, conn>>
    BY <2>1, <2>2, <2>3, <2>4, <1>1, <1>t
  <2>5. CASE Connects(p)
    <3>1. \A q \in Procs \ {p} : conn'[q] = conn[q] /\ at'[q] = at[q]
      BY <2>2, <2>5, <1>t DEF Connects
    <3>2. CASE UNCHANGED rows
      BY <2>1, <2>3, <3>1, <3>2, <1>1
    <3>3. CASE \E f \in Files : Unused(f) /\ rows' = [rows EXCEPT ![f] = NoRows]
      <4>1. PICK f \in Files : Unused(f) /\ rows' = [rows EXCEPT ![f] = NoRows]
        BY <3>3
      <4>2. rows'[f] = NoRows /\ \A g \in Files \ {f} : rows'[g] = rows[g]
        BY <4>1, <1>t
      <4>3. StoredGrounded'
        <5>1. \A pr \in rows'[f].history \cup {rows'[f].profile} : Grounded(pr, f)'
          BY <4>2 DEF NoRows, NoProfile, Grounded
        <5>2. ASSUME NEW g \in Files \ {f}
              PROVE  \A pr \in rows'[g].history \cup {rows'[g].profile} : Grounded(pr, g)'
          BY <4>2, <1>g DEF StoredGrounded, Grounded
        <5> QED BY <5>1, <5>2 DEF StoredGrounded
      <4>4. ASSUME NEW q \in Procs \ {p} PROVE Holds(q)'
        <5>1. at[q] \in UsesFile => conn[q] \in Files \ {f}
          BY <4>1, <1>c DEF Unused
        <5>2. at[q] \in UsesFile => rows[conn[q]].scans \subseteq rows'[conn[q]].scans
          BY <4>2, <5>1
        <5> QED BY <2>1, <3>1, <5>2, OthersHold
      <4>5. (StoredGrounded /\ \A q \in Procs : Holds(q))'
        BY <2>3, <4>3, <4>4
      <4> QED BY <4>5, GroundPartsNext
    <3> QED BY <2>5, <3>2, <3>3 DEF Connects
  <2> QED BY <1>4, <2>4, <2>5 DEF OpensCache, Probes, Resets, CreatesTables, CreatesLast,
                                  SetsVersion
<1>5. ASSUME NEW p \in Procs, Works(p)
      PROVE  /\ at[p] \in Opened /\ conn[p] \in Files /\ UNCHANGED <<conn, ref, scan>>
             /\ \A q \in Procs \ {p} : at'[q] = at[q] /\ profile'[q] = profile[q]
  <2>1. \A q \in Procs \ {p} : profile'[q] = profile[q]
    BY <1>5, <1>t DEF Works, GetsClone, LoadsProfile, Scans, AsksForUpdate, Executing, Writes,
       StoresProfile, Saves, Touches, Updates, Appends, procVars
  <2> QED BY <1>5, <2>1, <1>c, <1>t, WorksStep DEF UsesFile
<1>6. ASSUME NEW p \in Procs, GetsClone(p) PROVE GroundInv'
  <2>1. /\ at'[p] \in {"fetch", "remove", "removing", "clone", "cloning", "load", "close"}
        /\ UNCHANGED <<rows, profile>>
    BY <1>6, <1>t DEF GetsClone, cacheVars, procVars, Clone!LooksForClone, Clone!FindsNoRepo,
              Clone!Fetches, Clone!StartsRemoving, Clone!EndsRemoving,
              Clone!StartsCloning, Clone!EndsCloning, Clone!Moves
  <2>2. Holds(p)'
    BY <2>1 DEF Holds
  <2> QED BY <1>6, <2>1, <2>2, <1>1, <1>5 DEF Works
<1>7. ASSUME NEW p \in Procs, LoadsProfile(p) PROVE GroundInv'
  <2>1. at'[p] \in {"scan", "store"} /\ rows' = rows
    BY <1>7, <1>t DEF LoadsProfile, Moves, cacheVars
  <2>2. conn[p] \in Files /\ UNCHANGED <<conn, ref>>
    BY <1>7, <1>5 DEF Works
  <2>3. \/ profile'[p] = rows[conn[p]].profile /\ rows[conn[p]].profile.ref = ref[p]
        \/ profile'[p] = Bootstrapped(p)
    BY <1>7, <1>t DEF LoadsProfile, Rows
  <2>4. profile'[p].ref = ref[p] /\ Grounded(profile'[p], conn[p])
    BY <2>2, <2>3, <1>g DEF StoredGrounded, Bootstrapped, Grounded
  <2>5. Holds(p)'
    BY <2>1, <2>2, <2>4 DEF Holds, Grounded
  <2> QED BY <1>7, <2>1, <2>5, <1>1, <1>5 DEF Works
<1>8. ASSUME NEW p \in Procs, Scans(p) \/ Executing(p) PROVE GroundInv'
  <2>1. UNCHANGED <<rows, profile>>
    BY <1>8 DEF Scans, Executing, Executes, LockTimesOut, cacheVars, procVars
  <2>2. at'[p] = at[p] \/ at'[p] = "close" \/ (at[p] = "scan" /\ at'[p] = "save")
    BY <1>8, <1>t DEF Scans, Executing, Executes, LockTimesOut, Moves
  <2>3. Holds(p)'
    BY <1>8, <2>1, <2>2, <1>g, <1>5 DEF Works, Holds, Grounded
  <2> QED BY <1>8, <2>1, <2>3, <1>1, <1>5 DEF Works
<1>9. ASSUME NEW p \in Procs, AsksForUpdate(p) PROVE GroundInv'
  <2>1. rows' = rows /\ at[p] = "ask"
    BY <1>9 DEF AsksForUpdate, cacheVars
  <2>2. /\ profile[p].ref = ref[p] /\ Grounded(profile[p], conn[p])
        /\ scan[p] \in rows[conn[p]].scans /\ profile[p] \in Profiles
    BY <2>1, <1>g, <1>t DEF Holds
  <2>3. \/ at'[p] = "close"
        \/ at'[p] = "update" /\ profile'[p] = Updated(p)
    BY <1>9, <1>t DEF AsksForUpdate, Moves
  <2>4. /\ Updated(p).ref = ref[p] /\ Updated(p).madeAt = ref[p]
        /\ Updated(p).evidence \subseteq rows[conn[p]].scans
    BY <2>2 DEF Updated, Grounded, Profiles
  <2>5. Holds(p)'
    BY <1>9, <2>1, <2>2, <2>3, <2>4, <1>5 DEF Works, Holds, Grounded
  <2> QED BY <1>9, <2>1, <2>5, <1>1, <1>5 DEF Works
\* A commit of rows in which everything is grounded.
<1>10. ASSUME NEW p \in Procs, Writes(p), NEW x, NEW changed, Commits(p, changed, x),
              rows[conn[p]].scans \subseteq changed.scans,
              \A pr \in changed.history \cup {changed.profile} :
                pr.madeAt = pr.ref /\ pr.evidence \subseteq changed.scans,
              profile' = profile,
              x \in {"scan", "touch", "ask", "append", "close"},
              x # "close" => /\ profile[p].ref = ref[p] /\ profile[p].madeAt = profile[p].ref
                             /\ profile[p].evidence \subseteq changed.scans,
              x \in {"touch", "ask", "append"} => scan[p] \in changed.scans
       PROVE  GroundInv'
  <2>1. /\ conn[p] \in Files /\ UNCHANGED <<conn, ref, scan>>
        /\ \A q \in Procs \ {p} : at'[q] = at[q]
    BY <1>5, <1>10 DEF Works
  <2>2. /\ rows'[conn[p]] = changed /\ \A f \in Files \ {conn[p]} : rows'[f] = rows[f]
        /\ at'[p] = x
    BY <1>10, <2>1, CommitsRows
  <2>3. \A f \in Files : rows[f].scans \subseteq rows'[f].scans
    BY <1>10, <2>2
  <2>4. StoredGrounded'
    <3>1. \A pr \in rows'[conn[p]].history \cup {rows'[conn[p]].profile} :
            pr.madeAt = pr.ref /\ pr.evidence \subseteq rows'[conn[p]].scans
      BY <1>10, <2>2
    <3>2. ASSUME NEW f \in Files \ {conn[p]}
          PROVE  \A pr \in rows'[f].history \cup {rows'[f].profile} :
                   pr.madeAt = pr.ref /\ pr.evidence \subseteq rows'[f].scans
      BY <2>2, <1>g DEF StoredGrounded, Grounded
    <3> QED BY <3>1, <3>2 DEF StoredGrounded, Grounded
  <2>5. ASSUME NEW q \in Procs \ {p} PROVE Holds(q)'
    <3>1. at[q] \in UsesFile => rows[conn[q]].scans \subseteq rows'[conn[q]].scans
      BY <2>3, <1>c
    <3> QED BY <3>1, <2>1, <1>10, OthersHold
  <2>6. Holds(p)'
    BY <1>10, <2>1, <2>2 DEF Holds, Grounded
  <2>7. (StoredGrounded /\ \A q \in Procs : Holds(q))'
    BY <2>4, <2>5, <2>6
  <2> QED BY <2>7, GroundPartsNext
<1>11. ASSUME NEW p \in Procs, Writes(p) PROVE GroundInv'
  <2>1. conn[p] \in Files /\ Rows(p) = rows[conn[p]]
    BY <1>5, <1>11 DEF Works, Rows
  <2>2. /\ Rows(p) \in [scans : SUBSET Nat, profile : Profiles, history : SUBSET Profiles]
        /\ \A pr \in Rows(p).history \cup {Rows(p).profile} :
             pr.madeAt = pr.ref /\ pr.evidence \subseteq Rows(p).scans
    BY <2>1, <1>t, <1>g DEF StoredGrounded, Grounded
  <2>3. /\ at[p] \in {"store", "save", "touch", "update", "append"}
        /\ profile[p].ref = ref[p] /\ profile[p].madeAt = profile[p].ref
        /\ profile[p].evidence \subseteq Rows(p).scans
        /\ at[p] \in {"touch", "update", "append"} => scan[p] \in Rows(p).scans
    BY <1>11, <2>1, <1>g DEF Writes, StoresProfile, Saves, Touches, Updates, Appends, Holds,
                             Grounded
  <2>4. CASE StoresProfile(p) \/ Touches(p) \/ Updates(p)
    <3> DEFINE c == [Rows(p) EXCEPT !.profile = profile[p]]
    <3>1. c.scans = Rows(p).scans /\ c.history = Rows(p).history /\ c.profile = profile[p]
      BY <2>2
    <3>2. PICK x \in {"scan", "append", "close"} :
            /\ Commits(p, c, x) /\ profile' = profile
            /\ x = "append" => at[p] = "update"
      BY <2>4 DEF StoresProfile, Touches, Updates, procVars
    <3> HIDE DEF c
    <3>3. \A pr \in c.history \cup {c.profile} :
            pr.madeAt = pr.ref /\ pr.evidence \subseteq c.scans
      BY <2>2, <2>3, <3>1
    <3> QED BY <1>11, <2>1, <2>3, <3>1, <3>2, <3>3, <1>10
  <2>5. CASE Saves(p)
    <3> DEFINE c == [Rows(p) EXCEPT !.scans = @ \cup {scan[p]}]
    <3>1. /\ c.scans = Rows(p).scans \cup {scan[p]}
          /\ c.history = Rows(p).history /\ c.profile = Rows(p).profile
      BY <2>2
    <3>2. PICK x \in {"touch", "ask"} : Commits(p, c, x) /\ profile' = profile
      BY <2>5 DEF Saves, procVars
    <3> HIDE DEF c
    <3>3. \A pr \in c.history \cup {c.profile} :
            pr.madeAt = pr.ref /\ pr.evidence \subseteq c.scans
      BY <2>2, <3>1
    <3>4. profile[p].evidence \subseteq c.scans
      BY <2>3, <3>1
    <3> QED BY <1>11, <2>1, <2>3, <3>1, <3>2, <3>3, <3>4, <1>10
  <2>6. CASE Appends(p)
    <3> DEFINE c == [Rows(p) EXCEPT !.history = @ \cup {profile[p]}]
    <3>1. /\ c.scans = Rows(p).scans /\ c.profile = Rows(p).profile
          /\ c.history = Rows(p).history \cup {profile[p]}
      BY <2>2
    <3>2. Commits(p, c, "close") /\ profile' = profile
      BY <2>6 DEF Appends, procVars
    <3> HIDE DEF c
    <3>3. \A pr \in c.history \cup {c.profile} :
            pr.madeAt = pr.ref /\ pr.evidence \subseteq c.scans
      BY <2>2, <2>3, <3>1
    <3> QED BY <1>11, <2>1, <3>1, <3>2, <3>3, <1>10
  <2> QED BY <1>11, <2>4, <2>5, <2>6 DEF Writes
<1>12. CASE UNCHANGED vars
  BY <1>12 DEF vars, cacheVars, procVars, GroundInv, ProfileGrounded, Grounded
<1> QED BY <1>2, <1>3, <1>4, <1>6, <1>7, <1>8, <1>9, <1>11, <1>12 DEF Next, Closes, Killed

\* A profile is never used at another revision than the one it was made for, and rests on
\* scans recorded in the cache it is stored in, whoever writes to that cache meanwhile.
THEOREM ProfilesGrounded == Spec => []ProfileGrounded
<1>1. Init => GroundInv
  BY DEF Init, InitCache, GroundInv, ProfileGrounded, Grounded, NoRows, NoProfile
<1>2. GroundInv => ProfileGrounded
  BY DEF GroundInv
<1> QED BY <1>1, <1>2, GroundStep, Base, PTL DEF Spec

-----------------------------------------------------------------------------
(* The clone                                                               *)

LEMMA CloneStep == TypeOK /\ CloneInv /\ [Next]_vars => CloneInv'
<1> SUFFICES ASSUME TypeOK, CloneInv, [Next]_vars PROVE CloneInv'
  OBVIOUS
<1>t. at \in [Procs -> Steps]
  BY DEF TypeOK, Steps
\* A step that leaves the clone alone.
<1>1. ASSUME NEW p \in Procs, NEW x, at' = [at EXCEPT ![p] = x], UNCHANGED <<dir, maker>>,
             x \notin {"remove", "removing", "cloning"},
             distrusted \ {p} \subseteq distrusted'
      PROVE  CloneInv'
  BY <1>1, <1>t DEF CloneInv
<1>2. ASSUME NEW p \in Procs, Starts(p) PROVE CloneInv'
  BY <1>2, <1>1 DEF Starts, Moves, dirVars
<1>3. ASSUME NEW p \in Procs, OpensCache(p) PROVE CloneInv'
  BY <1>3, <1>1 DEF OpensCache, Probes, Resets, Connects, CreatesTables, CreatesLast,
                    SetsVersion, Moves, dirVars
<1>4. ASSUME NEW p \in Procs, Gone(p) PROVE CloneInv'
  BY <1>4, <1>1 DEF Gone, Disconnects, Moves
<1>5. ASSUME NEW p \in Procs,
             LoadsProfile(p) \/ Scans(p) \/ AsksForUpdate(p) \/ Writes(p)
             \/ (Executing(p) /\ LockTimesOut(p))
      PROVE  CloneInv'
  BY <1>5, <1>1 DEF LoadsProfile, Scans, AsksForUpdate, Writes, StoresProfile, Saves, Touches,
                    Updates, Appends, Commits, Executing, LockTimesOut, Moves, dirVars
<1>6. ASSUME NEW p \in Procs, Executing(p), Executes(p) PROVE CloneInv'
  BY <1>6 DEF Executing, Executes, dirVars, CloneInv
<1>7. ASSUME NEW p \in Procs, GetsClone(p) PROVE CloneInv'
  <2>1. CASE Clone!LooksForClone(p)
    BY <2>1, <1>1 DEF Clone!LooksForClone, Clone!Moves, Clone!dirVars
  <2>2. CASE Clone!FindsNoRepo(p) \/ Clone!Fetches(p)
    BY <2>2, <1>t DEF Clone!FindsNoRepo, Clone!Fetches, Clone!Moves, CloneInv
  <2>3. CASE Clone!StartsRemoving(p) \/ Clone!EndsRemoving(p)
    BY <2>3, <1>t DEF Clone!StartsRemoving, Clone!EndsRemoving, Clone!Moves, CloneInv
  <2>4. CASE Clone!StartsCloning(p) \/ Clone!EndsCloning(p)
    BY <2>4, <1>t DEF Clone!StartsCloning, Clone!EndsCloning, Clone!Moves, CloneInv
  <2> QED BY <1>7, <2>1, <2>2, <2>3, <2>4 DEF GetsClone
<1>8. CASE UNCHANGED vars
  BY <1>8 DEF vars, dirVars, CloneInv
<1> QED BY <1>2, <1>3, <1>4, <1>5, <1>6, <1>7, <1>8 DEF Next, Executing, Closes, Killed

\* A clone that a process reads is only changed by one that found it unusable, or by a
\* git clone whose own directory was taken away.
THEOREM CloneKept == Spec => CloneStays
<1>1. Init => CloneInv
  BY DEF Init, CloneInv
<1>2. CloneInv /\ [Next]_vars =>
        [(\E p \in Procs : at[p] \in {"load", "store", "scan"})
         /\ dir \in {"whole", "local"} /\ dir' # dir => \E q \in Procs : Deletes(q)]_vars
  <2> SUFFICES ASSUME CloneInv, Next, dir \in {"whole", "local"}, dir' # dir
               PROVE  \E q \in Procs : Deletes(q)
    OBVIOUS
  <2>1. PICK q \in Procs : GetsClone(q)
    BY DEF Next, Starts, OpensCache, LoadsProfile, Scans, AsksForUpdate, Executing, Writes,
       StoresProfile, Saves, Touches, Updates, Appends, Closes, Killed, Gone, dirVars
  <2>2. CASE Clone!StartsRemoving(q) \/ Clone!EndsRemoving(q)
    BY <2>2 DEF Clone!StartsRemoving, Clone!EndsRemoving, CloneInv, Deletes
  <2>3. CASE Clone!StartsCloning(q) \/ Clone!EndsCloning(q)
    BY <2>3 DEF Clone!StartsCloning, Clone!EndsCloning, CloneInv, Deletes
  <2>4. CASE Clone!LooksForClone(q) \/ Clone!FindsNoRepo(q) \/ Clone!Fetches(q)
    BY <2>4 DEF Clone!LooksForClone, Clone!FindsNoRepo, Clone!Fetches, Clone!dirVars
  <2> QED BY <2>1, <2>2, <2>3, <2>4 DEF GetsClone
<1> QED BY <1>1, <1>2, CloneStep, Base, PTL DEF Spec, CloneStays
=============================================================================
