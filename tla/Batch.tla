------------------------------- MODULE Batch -------------------------------
(***************************************************************************)
(* batch_scan (cli.py) and run_batch_scan (batch.py): the repositories of  *)
(* the list are resolved to release pairs one after the other, then the    *)
(* pairs of each are scanned in order, several repositories at a time,     *)
(* with one scheduler and one cache.  A scan is its start and its exit     *)
(* code or exception (ScanRun has what is inside it).                      *)
(***************************************************************************)
EXTENDS ReleasePairs

CONSTANTS
  RepoList,        \* the URLs of the file, in order
  Histories,       \* per URL: the histories that its clone may have
  MaxConcurrency,  \* the bound of --concurrency in the model
  MaxReleases,     \* the bound of --last-releases in the model
  NoCode,          \* there is no exit code yet
  Raised           \* an exception escapes instead

ASSUME BatchAssumption ==
  /\ RepoList # <<>> /\ RepoList \in Seq(Range(RepoList))
  /\ DOMAIN Histories = Range(RepoList)
  /\ \A r \in Range(RepoList) : \A h \in Histories[r] : IsHistory(h)
  /\ MaxConcurrency \in Nat \ {0} /\ MaxReleases \in Nat
  /\ NoCode \notin 0..3 /\ Raised \notin 0..3 /\ NoCode # Raised

VARIABLES
  pairing,  \* --pairing-mode
  last,     \* --last-releases, or NoLimit with --since
  jobs,     \* --concurrency, read when the scans start
  stage,    \* setup, resolve, scan, finally, closing, hung, ended; or cut short
  at,       \* how many entries of the list are resolved
  history,  \* history: what was listed of the last entry, and its pairs
  items,    \* per URL: its pairs
  skipped,  \* the URLs skipped
  repo,     \* per URL: its task; gone when it ended cancelled
  outcomes, \* per URL: the exit codes of its scans
  sched,    \* the shared scheduler: none, open, closed
  cache,    \* the shared cache
  code      \* the exit code of the batch, or the exception that escapes

vars == <<pairing, last, jobs, stage, at, history, items, skipped, repo, outcomes, sched,
          cache, code>>

settings == <<pairing, last, jobs>>
shared   == <<sched, cache>>

Urls == Range(RepoList)

NoHistory == [listed |-> <<>>, pairs |-> <<>>]

Planned == {r \in Urls : items[r] # <<>>}

Scanning == {r \in Urls : repo[r] \in {"scanning", "cancelled"}}

Init ==
  /\ pairing \in Modes
  /\ last \in {NoLimit} \cup 0..MaxReleases
  /\ jobs = 1
  /\ stage = "setup" /\ at = 0 /\ history = NoHistory
  /\ items = [r \in Urls |-> <<>>] /\ skipped = {}
  /\ repo = [r \in Urls |-> "none"] /\ outcomes = [r \in Urls |-> <<>>]
  /\ sched = "none" /\ cache = "none" /\ code = NoCode

-----------------------------------------------------------------------------
(* Faulty variants of the definitions below, no part of the specification. *)

\* of ScanRaises: a scan that raised leaves no outcome and ends its repository
ScanRaisesOn(r) ==
  /\ repo[r] = "scanning"
  /\ repo' = [repo EXCEPT ![r] = "done"]
  /\ UNCHANGED <<settings, stage, at, history, items, skipped, outcomes, shared, code>>

\* of Gathered: the first task that ends will do, also one that was not cancelled
GatheredFirst == \E r \in Planned : repo[r] \in {"done", "gone"}

\* of AllResolved: an entry that was skipped is not counted
ResolvedAll == at = Len(RepoList) /\ skipped = {}

-----------------------------------------------------------------------------
(* The scheduler and the cache                                             *)

\* create_provider may refuse; the cache may fail to open, before the try that
\* would close the scheduler.
SetupFails ==
  /\ stage = "setup"
  /\ stage' = "cut" /\ code' = Raised
  /\ sched' \in {"none", "open"}
  /\ UNCHANGED <<settings, at, history, items, skipped, repo, outcomes, cache>>

SetsUp ==
  /\ stage = "setup"
  /\ stage' = "resolve"
  /\ sched' = "open" /\ cache' \in {"none", "open"}
  /\ UNCHANGED <<settings, at, history, items, skipped, repo, outcomes, code>>

-----------------------------------------------------------------------------
(* The resolve phase                                                       *)

\* The next entry of the list is skipped, when it cannot be cloned, or gets the
\* pairs of its history.
Resolves(r, pairs) ==
  /\ at' = at + 1
  /\ IF pairs = <<>> THEN skipped' = skipped \cup {r} /\ UNCHANGED items
     ELSE items' = [items EXCEPT ![r] = pairs] /\ UNCHANGED skipped
  /\ UNCHANGED <<settings, stage, repo, outcomes, shared, code>>

CloneFails ==
  /\ stage = "resolve" /\ at < Len(RepoList)
  /\ history' = NoHistory
  /\ Resolves(RepoList[at + 1], <<>>)

Lists(h) ==
  /\ stage = "resolve" /\ at < Len(RepoList)
  /\ \E listed \in {Listed(h, pairing, last)} :
     \E pairs \in {ResolvedPairs(listed, pairing, last)} :
       /\ history' = [listed |-> listed, pairs |-> pairs]
       /\ Resolves(RepoList[at + 1], pairs)

\* Any other error of git, or one of the directory of the reports, is not caught.
ResolveRaises ==
  /\ stage = "resolve" /\ at < Len(RepoList)
  /\ stage' = "finally" /\ code' = Raised
  /\ history' = NoHistory
  /\ UNCHANGED <<settings, at, items, skipped, repo, outcomes, shared>>

AllResolved == at = Len(RepoList)

StartsScans ==
  /\ stage = "resolve" /\ AllResolved
  /\ stage' = "scan"
  /\ history' = NoHistory
  /\ jobs' \in 1..MaxConcurrency
  /\ repo' = [r \in Urls |-> IF r \in Planned THEN "waiting" ELSE "none"]
  /\ UNCHANGED <<pairing, last, at, items, skipped, outcomes, shared, code>>

-----------------------------------------------------------------------------
(* The scan phase                                                          *)

\* The semaphore lets a repository in, whichever is first in its queue.
Enters(r) ==
  /\ stage = "scan" /\ repo[r] = "waiting"
  /\ Cardinality(Scanning) < jobs
  /\ repo' = [repo EXCEPT ![r] = "scanning"]
  /\ UNCHANGED <<settings, stage, at, history, items, skipped, outcomes, shared, code>>

NextPair(r) == Len(outcomes'[r]) = Len(items[r])

\* The scan of a pair ends with an exit code and the next one begins; the
\* repository leaves the semaphore after the last one.  A cancellation that the
\* scheduler swallowed lets it go on as well, whatever has become of the batch.
ScanEnds(r, exitCode) ==
  /\ r \in Scanning
  /\ outcomes' = [outcomes EXCEPT ![r] = Append(@, exitCode)]
  /\ repo' = [repo EXCEPT ![r] = IF NextPair(r) THEN "done" ELSE "scanning"]
  /\ UNCHANGED <<settings, stage, at, history, items, skipped, shared, code>>

\* An exception counts as an error of this pair only.
ScanRaises(r) == ScanEnds(r, 2)

\* The cancelled scan unwinds, without an outcome.
ScanUnwinds(r) ==
  /\ repo[r] = "cancelled"
  /\ repo' = [repo EXCEPT ![r] = "gone"]
  /\ UNCHANGED <<settings, stage, at, history, items, skipped, outcomes, shared, code>>

Cancelled(state) ==
  CASE state = "waiting"  -> "gone"
    [] state = "scanning" -> "cancelled"
    [] OTHER -> state

CancelsTasks == repo' = [r \in Urls |-> Cancelled(repo[r])]

\* Ctrl-C cancels the task of the batch and, in the scan phase, all tasks that
\* it gathers; those that wait for the semaphore end at once.
Interrupt ==
  /\ stage \in {"resolve", "scan"} /\ code = NoCode
  /\ code' = Raised /\ history' = NoHistory
  /\ stage' = IF stage = "resolve" THEN "finally" ELSE "scan"
  /\ CancelsTasks
  /\ UNCHANGED <<settings, at, items, skipped, outcomes, shared>>

\* The gather is not told to return exceptions: the first task that ends
\* cancelled ends it, and it does not wait for the others.
Gathered == \/ \E r \in Planned : repo[r] = "gone"
            \/ \A r \in Planned : repo[r] = "done"

Gathers ==
  /\ stage = "scan" /\ Gathered
  /\ stage' = "finally"
  /\ UNCHANGED <<settings, at, history, items, skipped, repo, outcomes, shared, code>>

AllOutcomes == UNION {Range(outcomes[r]) : r \in Urls}

Worst == IF AllOutcomes = {} THEN 0
         ELSE CHOOSE c \in AllOutcomes : \A d \in AllOutcomes : d <= c

\* Calls that are left at the shared scheduler: a scan that raised or was
\* incomplete may have abandoned some, one that was cancelled may still ask.
CallsLeft == \/ AllOutcomes \cap {2, 3} # {}
             \/ \E r \in Planned : repo[r] \in {"scanning", "cancelled", "gone"}

\* The finally of batch_scan: close() puts the sentinels, behind which no call is
\* answered any more, and waits for the workers.
Closes ==
  /\ stage = "finally"
  /\ stage' = "closing" /\ sched' = "closed"
  /\ UNCHANGED <<settings, at, history, items, skipped, repo, outcomes, cache, code>>

\* In fail_fast mode one of those calls may meet the end of the quota, and the
\* drain takes the sentinels that the workers are waiting for (see ScanPool).
CloseHangs ==
  /\ stage = "closing" /\ CallsLeft
  /\ stage' = "hung"
  /\ UNCHANGED <<settings, at, history, items, skipped, repo, outcomes, shared, code>>

\* Ctrl-C in close() skips the close of the cache.
InterruptsClose ==
  /\ stage \in {"closing", "hung"} /\ code = NoCode
  /\ stage' = "cut" /\ code' = Raised
  /\ UNCHANGED <<settings, at, history, items, skipped, repo, outcomes, shared>>

\* Then the cache is closed; asyncio.run cancels the tasks that still run.  The
\* exit code is the worst one if nothing was raised.
Ends ==
  /\ stage = "closing"
  /\ stage' = "ended"
  /\ cache' = IF cache = "open" THEN "closed" ELSE cache
  /\ code' = IF code = Raised THEN code ELSE Worst
  /\ CancelsTasks
  /\ UNCHANGED <<settings, at, history, items, skipped, outcomes, sched>>

-----------------------------------------------------------------------------
Steps ==
  \/ SetupFails \/ SetsUp
  \/ CloneFails \/ ResolveRaises \/ StartsScans
  \/ at < Len(RepoList) /\ \E h \in Histories[RepoList[at + 1]] : Lists(h)
  \/ \E r \in Urls : \/ Enters(r) \/ ScanRaises(r) \/ ScanUnwinds(r)
                     \/ \E exitCode \in 0..3 : ScanEnds(r, exitCode)
  \/ Gathers \/ Closes \/ CloseHangs \/ Ends

Next == Steps \/ Interrupt \/ InterruptsClose

Spec == Init /\ [][Next]_vars

\* What only others can end: the git commands of the resolve phase, the scans, and
\* the calls that close() waits for; nothing bounds them in time for every provider.
WaitsOutside ==
  \/ stage = "resolve" /\ at < Len(RepoList)
  \/ stage = "scan" /\ Scanning # {}
  \/ stage = "closing" /\ CallsLeft

\* Nothing is assumed of those; the batch itself is run by the event loop.
FairSpec == Spec /\ WF_vars(~WaitsOutside /\ Steps)

-----------------------------------------------------------------------------
TypeOK ==
  /\ pairing \in Modes /\ last \in {NoLimit} \cup Nat /\ jobs \in 1..MaxConcurrency
  /\ stage \in {"setup", "resolve", "scan", "finally", "closing", "hung", "ended", "cut"}
  /\ at \in 0..Len(RepoList)
  /\ DOMAIN items = Urls /\ skipped \subseteq Urls
  /\ repo \in [Urls -> {"none", "waiting", "scanning", "cancelled", "gone",
                     "done"}]
  /\ \A r \in Urls : /\ Range(outcomes[r]) \subseteq 0..3
                     /\ Len(outcomes[r]) <= Len(items[r])
  /\ {sched, cache} \subseteq {"none", "open", "closed"}
  /\ code \in {NoCode, Raised} \cup 0..3

\* The pairs just resolved are the ones that the pairing mode promises (see
\* AncestryCorrect and LegacyCorrect), for every history: linear, forked, with
\* tags that share a commit or a version, or that are no versions.
PairsCorrect ==
  history # NoHistory =>
    IF pairing = "ancestry" THEN AncestryCorrect(history.listed, last, history.pairs)
    ELSE LegacyCorrect(history.listed, pairing, last, history.pairs)

\* "Exceptions in scan_fn should be captured, not crash the batch"
\* (tests/test_batch.py:472): a batch that ends with a code has an outcome for
\* every pair that it planned, has planned pairs for every URL of the list or
\* skipped it, and ends with 0 only if every scan did.
NothingUnaccounted ==
  stage = "ended" /\ code # Raised =>
    /\ \A r \in Urls : /\ items[r] = <<>> => r \in skipped
                       /\ Len(outcomes[r]) = Len(items[r])
    /\ code = 0 => AllOutcomes \subseteq {0}

\* The scheduler and the cache are shared: they are open as long as any scan
\* runs, but for the scans that an interrupt cancelled with another repository,
\* whose task was the first to end; no more repositories are scanned at a time
\* than asked for; and a batch that comes to its end has closed what it opened.
SharedOutliveScans ==
  /\ Scanning # {} =>
       \/ sched = "open" /\ cache # "closed"
       \/ code = Raised /\ \E r \in Planned : repo[r] = "gone"
  /\ Cardinality(Scanning) <= jobs
  /\ stage = "ended" => sched = "closed" /\ cache # "open"

\* The batch does not stand still by itself: it ends, interrupted or not, unless
\* git, a scan or a model call never does, or close() waits for workers whose
\* sentinels a drain took, which takes calls that a scan has left behind.
BatchEnds ==
  \/ <>(stage \in {"ended", "cut"})
  \/ <>[]WaitsOutside
  \/ <>(stage = "hung" /\ CallsLeft)
=============================================================================
