# TLA+ models of SentrySloth

SentrySloth compares two revisions of a repository, sends the changed chunks to a
language model (triage, deep analysis, verification) and reports security findings.
Its own logic is concurrent: an asyncio scheduler with worker tasks, a rate limiter,
retries, quota exhaustion that must reach every waiting call, bounded pools, scans that
share a scheduler in a batch, and a verdict that must not call a scan complete when
something failed on the way. This directory models that logic. Paths below are
relative to the repository; `scheduler.py:247` means
`src/sentrysloth/providers/scheduler.py` line 247, and so on.

## Inventory

| Part (source) | State | Operations | Correct when |
|---|---|---|---|
| Request scheduler (`providers/scheduler.py`) | queue, futures, workers, `quota_error`, `_rpm_lock` | `generate_structured`, `generate_with_tools`, `_worker_loop`, `_drain_queue`, `close` | no call is lost, answered twice or left waiting; FIFO; few requests after the quota error; `close` ends |
| Rate limits and retries (`providers/base.py`, `openai_compat.py`, `gemini.py`) | time of the last request, cooldown deadline, attempts | `_wait_rpm`, `_wait_for_rate_limit`, `_call_with_retries`, `_handle_retryable_error` | grants are spaced, cooldown wakes are staggered, attempts are bounded, calls end |
| Worker pool (`analyzers/worker_pool.py`) | pending tasks, results, iterator | `run_bounded_pool` | bound kept, results in order, first exception ends it |
| Scan (`scanner.py`) | findings, coverage issues, exit code, scheduler ownership | `run_scan` and its phases | complete means covered; report, code and cache agree; its scheduler is closed |
| Triage (`analyzers/triage.py`) | one result per chunk | `_triage_chunk_with_metrics`, `run_triage` | a failed call never drops a chunk silently |
| Deep analysis (`analyzers/deep_analysis.py`, `agentic_analysis.py`, `analysis_shared.py`) | messages, token counts, errors | agentic loop, JSON repair, single-turn fallback | failures are recorded, turns and tokens bounded |
| Verification (`analyzers/verification.py`) | messages, inspected revisions | `verify_candidate`, `apply_decision`, `validate_evidence` | nothing is confirmed without valid evidence |
| Repo profile (`cache/repo_profile.py`) | profile of a ref | load, bootstrap, update | reused at its own revision only, rests on saved scans, never fails a scan |
| Cache (`cache/storage.py`) | SQLite file | `initialize`, `save_scan`, profile writes | of the current schema when in use; no data lost by a restart or a second process |
| Provider streams (`openai_compat.py`) | fragments collected so far | `_collect_streamed_completion`, `generate_with_tools` | text and tool calls are put together as they were sent; a cut answer is no answer |
| Batch (`batch.py`, `cli.py`) | work items, outcomes, shared scheduler | `resolve_tag_pairs`, `build_tag_pairs`, `run_batch_scan` | pairs are what the mode promises, every pair has an outcome, what is shared outlives the scans |
| Git source (`sources/git.py`) | clone directory | `ensure_cloned`, git subprocesses | a clone in use stays; errors are typed |
| Chunks (`diff_extractor.py`, `context_builder.py`) | hunks packed so far | `_chunk_patched_file`, `_is_noise_only_change` | no line lost or misnumbered; noise is noise |
| Repository tools (`repository_tools.py`, `search_code`) | answers kept | `execute_tool_call`, `source_range` | pages followed to the end are everything |
| Reporters, evaluation, models, config, CLI | none | formatting, settings, argument parsing | — |

How they interact: `run_scan` creates a scheduler, or gets the one that `batch_scan`
shares between scans. Triage and deep analysis hand their chunks to `run_bounded_pool`;
each task of the pool awaits calls of the scheduler, whose workers await the provider,
whose retry loop awaits the SDK client. `quota_error` of the scheduler is sticky and is
read by the scan phases. In a `finally`, `run_scan` closes the scheduler it made.
Processes meet only in the cache file and in the directories of the clones.

What is hard here: a caller, a worker, the drain and a cancellation race for one future;
a check of the quota is followed by a wait before the request is sent; the tasks a pool
abandons outlive it and meet `close()`; sleeps of the limiter and of the cooldown end
late and overlap; a failure in any phase must reach the verdict; two processes share a
cache file and a clone directory, and either may be killed between any two steps; text
reaches the model cut into chunks, in pages and in streams, each with its own ways to lose
a part. `PROJECT.json` lists these hazards with their lines and the properties that cover
them.

## The modules

Every module that models code is parameterised by CONSTANTS with named assumptions; the
`MC` modules give instances for TLC, the `Proofs` modules hold the theorems.

**Scheduler** models `LlmRequestScheduler`. An action is the code from one `await` to
the next, since asyncio switches tasks only there. `generate_structured` is the calls'
program counter `call`: `CallRefused`, `CallStarts`, then `PutDone` (the put task),
`CallQuota` or `CallEnqueued` (what `asyncio.wait` woke with), `CallSettled` (the
`finally` that awaits the quota task), `CallEnds`, and `CancelCall` at each of its
awaits. A worker (`wpc`) takes the head of the queue in one of four ways (`WorkerExits`,
`WorkerDrops`, `WorkerRefuses`, `WorkerTakes`), passes the limiter (`WorkerSends`) and
gets an answer (`ProviderAnswers`, `ProviderQuota`, the latter with the whole drain).
`rpmQueue` is the FIFO lock of the limiter, which tool calls (`tpc`) share. `close()`
is `CloseStarts`, one `PutSentinel` per worker, `CloseEnds`. `accepted`, `sent`,
`lateSends` and `cancelReq` are history. A caller that wakes with the put done may or
may not see the quota event: the model allows both at any time, which covers every
order in which the event loop may resume the tasks. **CallService** is what the scheduler
promises to its callers, with none of this: what calls may be answered, with whose
outcome, and when no more. `KeepsService` is that every step of the scheduler is a step of
that service, or none (`Service` in `Scheduler` has the mapping: a call is open from its
put to its end, its answer is the state of its future, and what was sent was asked).
**SchedulerMC** adds the symmetry of the safety run. **SchedulerModes** makes the mode
(`fail_fast` or a fallback) a choice of the initial state, states the fairness of the event
loop for both, and has the liveness properties.

**WorkerPool** models `run_bounded_pool`: `Wake` is one return of `asyncio.wait` with
all tasks done by then, visited in any order; it is the loop body as a whole, because
there is no await in it.

**ScanPool** composes `WorkerPool` and `Scheduler`. The tasks of the pool are those of
triage (one structured call each) or of the agentic analysis (turns by
`generate_with_tools`, then the structured call if one fails, is refused or cannot be
parsed); the `finally` of `run_scan` closes the scheduler when the pool returned or raised.
A task raises for the quota in fail_fast mode (`TaskFinishes`), and in every mode for an
exception that is no `LLMProviderError`, of its call or of a turn (`TaskBreaks`): a
provider raises what it does not know as it is (`openai_compat.py:164`), and triage and
analysis catch `LLMProviderError` only. Tasks that a raise abandoned go on calling.

**RateLimits** models what times the HTTP requests: `_wait_rpm`, then
`_wait_for_rate_limit` and `_call_with_retries` with the error handlers of the providers.
Time is discrete and relative to now, and ages saturate, so the state space is finite
without a horizon. A sleeping task resumes at its deadline or any time later. `Second` is
the ticks of a second, so that the base delay, on which the configuration sets no bound,
can be shorter than the stagger of 1 to 3 seconds.

**ScanRun** models `run_scan` over the outcomes of what it calls. Per chunk it keeps how
triage judged it, what became of its analysis and of its finding; the quota flag obeys
the scheduler's rule (a structured call sets it, in fail_fast mode it refuses all later
calls, tool calls do not set it). `OtherScanExhausts` is another scan of a batch, and
`CallRaises` the exception that no phase catches. When the task of a pool raised, the scan
unwinds while other tasks go on, and `close()` may then never return (`CloseHangs`).
Settings that are read once are choices of the step that reads them.

**Analysis** is one chunk in `run_deep_analysis`: the turns of `analyze_chunk_agentic`
(`TakesTurn`), the answer it forces when turns or tokens are used up (`FinalAnswer`), the
one repair (`Repaired`), each way to fail (`RequestFails`, `Fallback`) and the
single-turn call behind it. A request and its answer are one step, since one chunk's
conversation is sequential. **Verification** is `verify_candidate` in the same manner:
which revisions the verifier read with tools (`ReadsSource`), and `apply_decision`,
`check_citation` and `validate_evidence` as one judgement (`Judged`) of a verdict that
says what it cites and what of it matches.

**ChunkReview** composes the two for one chunk and its candidate, and maps the result to
a `ScanRun` of one chunk: `StepsOfScanRun` is that every step of the conversations is a
step of `ScanRun` or leaves its variables alone. So the outcomes that `ScanRun`
chooses from are what the loops produce, errors and issues included.

**CacheFile** is the cache database between processes: a file is its tables, its version
row and its committed rows; `initialize` is probe, unlink, connect, the `CREATE`
statements (each committed by itself), and the version row; a write is executed and
committed in two steps, under SQLite's lock of one writer per file. A process stays
connected to the file it opened, also when it is no longer at the path. **CloneDir** is
`GitSource.ensure_cloned` on a directory that processes share: looks, fetch, `rmtree` in
two steps, `git clone` in two steps, each of which may fail. A probe that fails counts as a
file of another schema, whatever failed (`storage.py:104`), so `Probes` may choose to reset
any file that exists. **ScanProcesses** composes
them: processes that run `sentrysloth scan` again and again, with the steps of
`repo_profile.py` (load or make, store, rewrite after the scan, append to the history)
and `save_scan` between them, any process killed between any two steps.
**ScanProcessesMC** adds the symmetry and a view that leaves the content of deleted files
out, which nobody is connected to and no step reads before it is emptied.

**DiffChunks** is `_chunk_patched_file` (the packing loop and the cutting of a hunk that is
over the budget, with the line numbers of its parts) and `_is_noise_only_change`.
**ToolPages** is a model that reads a file, a diff, a search or the list of changes page by
page through `execute_tool_call`, which keeps answers and errors. **StreamedAnswer** is
`_collect_streamed_completion` with what `generate_with_tools` makes of it: fragments of
text and of several tool calls in any interleaving, a stream that breaks or just ends, an
attempt after it. **DataPaths** puts the three, which share no state, under one
specification; **DataPathsMC** has the inputs.

**ReleasePairs** has `resolve_tag_pairs` and `build_tag_pairs` as operators on a history
(tags by date, versions, commits, ancestry, dates): its sorts are the listing in which the
keys do not fall and equals keep their order (`Sorted`), its loops are folds. Next to them
stands what the pairs should be (`AncestryCorrect`, `LegacyCorrect`), defined without loops
or order of search: of each release the closest older one, and in legacy mode exactly the
transitions of every major, in order, or the newest of them when only some are asked for.
**Batch** is `batch_scan` with `run_batch_scan`: set-up, the resolve phase one URL after
the other (`CloneFails`, `Lists`, `ResolveRaises`), the scans of each repository in
sequence under the semaphore (`Enters`, `ScanEnds`, `ScanRaises`), a Ctrl-C
(`Interrupt`, `ScanUnwinds`) and the `finally` (`Closes`, then `Ends`, `CloseHangs` or a
Ctrl-C in it, `InterruptsClose`). `asyncio.gather` is not told to return exceptions
(`batch.py:450`): the first task that ends cancelled ends it (`Gathered`), and the
`finally` runs while other scans still do. A scan is its exit code or an
exception: what can happen inside is `ScanRun`. **BatchMC** gives it the histories.

Modules have sections of faulty variants: the bugs that `PROJECT.json` uses to show that
every property can fail. They are no part of the specifications.

## What the runs check

| Run | Instance | Checks |
|---|---|---|
| `SchedulerFailFast` | 3 calls, 2 workers, queue of 2 | `NoLostRequest`, `SentAtMostOnce`, `AnswersAreReal`, `SentInOrder`, `FewLateSends`, `KeepsService` |
| `SchedulerLive` | 2 calls, 1 tool call, 2 workers, queue of 1, every mode | `EveryCallEnds`, `AcceptedIsAnswered`, `ToolCallsEnd`, `CloseCompletes` |
| `WorkerPool` | 5 items, 3 in flight | `BoundedConcurrency`, `ResultsInOrder`, `PoolEnds` |
| `ScanPool` | triage or analysis of 3 chunks, 2 in flight, 1 worker, queue of 1, fail_fast | `ReturnedSentAll`, `AbandonedAreContained`, `UnwindsUnlessDrained` |
| `RateLimits` | 3 calls, 2 attempts, interval and second of 2 ticks, base delay of 1 | `GrantsSpaced`, `CooldownStaggers`, `EveryCallEnds` |
| `ScanRun` | 2 chunks, every mode and failure | `CompleteMeansCovered`, `StoriesAgree`, `SchedulerOwnership`, `ScanEnds` |
| `ChunkReview` | 3 turns and 2 of the verifier, budgets and costs of 1 | `ConversationBounded`, `TokensCounted`, `NothingLost`, `VerdictsProven`, `StepsOfScanRun`, `ReviewEnds` |
| `ScanProcesses` | 2 processes, 3 starts, 3 files, 2 revisions | `OpenMeansCurrent`, `SavedScansKept`, `ProfileGrounded`, `CloneStays` |
| `DataPaths` | files of 1 to 3 hunks, finds of up to 3 files, streams of up to 2 texts and 2 tool calls | `ChunksFaithful`, `PagesComplete`, `StreamAssembled` |
| `Batch` | 3 entries of 2 URLs, 512 histories of 3 tags, 2 at a time | `PairsCorrect`, `NothingUnaccounted`, `SharedOutliveScans`, `BatchEnds` |
| `ScanPoolHangs` | 2 chunks, 2 workers, queue of 2 | disagreement 1, by a counterexample to `ScanUnwinds` |
| `ChunkNoise` | one hunk of 3 lines | disagreement 2, by a counterexample to `NoiseIsNoise` |

What they show, in short: no request is lost, doubled, out of order or answered with what
did not happen, and all of it ends, except where a drain takes a sentinel of `close()`
(said so in `CloseCompletes`, `UnwindsUnlessDrained`, `ScanEnds` and `BatchEnds`, shown by
`ScanPoolHangs`). A scan
that is called complete covered everything; the conversations behind its chunks produce no
outcome it does not reckon with. A process works on a cache of the current schema only,
saved scans and profiles stay right whoever is killed, with the two exceptions that
`SavedScansKept` names (`lapsed`, see below). Line numbers, pages and streams lose nothing.
A batch pairs the tags it lists as the mode promises and accounts for every pair.

Why these bounds are enough:

- *Scheduler*: three requests, two workers and a queue of two give a request in each
  place at once (held, queued, blocked in its put), a worker at the limiter while another
  is with the provider, a drain with something in the queue, and a put that the drain
  wakes. For liveness a queue of one makes callers wait for a slot with two calls
  already, and puts the sentinels of `close()` into competition with them.
- *Pool*: three in flight and two behind give wakes with one, two and three done tasks,
  some raised, with items left for some of them and with none left.
- *ScanPool*: two in flight and one behind give a raise with one abandoned task before,
  at or in its call, and a task that is started by the wake that raises. One turn and the
  fallback behind it give the two kinds of calls; further turns repeat the first. With one
  worker a second call can only be with the provider as a tool call; two workers that are
  both there when `close()` starts are in `ScanPoolHangs`, whose two chunks leave none behind
  (both at once is too large for the liveness check). The safety of a phase
  is proved for any number of each.
- *RateLimits*: three calls give a holder, a waiter and a newcomer at each lock; an
  interval of two ticks tells "in time", "late" and "early" apart. The base delay is below
  the second, where a 429 shortens the stagger; the theorem covers any. `MaxRetries` is two
  here, the code's default is larger: the steps of a further attempt are the same.
- *ScanRun*: one chunk that fails beside one that does not. The proofs need no bound.
- *ChunkReview*: three turns give a first, a middle and a last one; with a budget of one
  and costs of 0 or 1 it is exceeded in any turn or in none.
- *ScanProcesses*: with three starts one process can be killed and start again while the
  other works, and each of the two files that a reset can replace (the one found, and the
  one another process made) has a successor. Two revisions tell a profile that is reused
  from one that must be made anew. What is proved needs no bound.
- *DataPaths*: lines shorter and longer than a part, of each kind, in hunks before and
  after one that is cut; pages of two items over files of none to four, so that a page
  ends inside a file, at its end and over the border of two, and git's limit per file
  cuts and does not cut; two calls of two fragments can interleave, and two attempts show
  what a broken one leaves behind.
- *Batch*: three tags with versions of one stream, of one major, of two majors, equal or
  none, on linear, forked and unrelated commits or sharing one; limits of 0, 1 and 2
  pairs (`MaxReleases`), or by date. `ChronoLimit` (2) is below the number of tags, so the cut is
  seen. Three entries and two slots leave one waiting only if two URLs are planned at
  concurrency 1, which is one of the choices.

Named bounds are `MaxConcurrency`, `MaxCost`, `MaxReleases`, `MaxRuns` (starts of processes), `MaxUserSteps`
(what users of the scheduler begin or cancel), the sizes of the inputs (`MaxText`,
`MaxTools`, `MaxPieces`, `Files`, `Finds`) and the constants of the code; nothing else counts
without end. `CHECK_DEADLOCK FALSE` is set where the system may stop: a scheduler that was
closed, a pool, a scan, a batch, a process or a path that ended. In `RateLimits` time goes on,
so deadlock is checked.

Fairness: the event loop resumes every task that is ready, so each step of a caller, a
worker, the pool or the scan that stays possible is taken (weak fairness per actor, in
`SchedulerModes` under the mode that was chosen); sleeps end. That a call of the provider
ends is an assumption about the endpoint, made in `SchedulerModes`, `ScanPool`, `RateLimits`
and `ChunkReview`: only the Gemini provider uses `total_timeout`; the default one sets
timeouts to connect, to read and to write (`openai_compat.py:105`), which a server that
keeps sending bytes never meets. Git commands have no timeouts (`git.py:81`, `git.py:92`).
So `ScanRun` and `Batch` assume neither: they are fair to a step only when nothing outside
the process is waited for (`WaitsOutside`), and their properties except a wait that lasts
for ever. Nothing obliges a user to call, to cancel, to interrupt or to close, and nothing
obliges a process to go on: `ScanProcesses` and `DataPaths` claim safety only. In `ScanRun`,
`ChunkReview` and `Batch` one weak fairness over all steps is enough: each has one task, or
tasks of which none can step for ever.

## Disagreements found

1. **`close()` can hang** (`ScanPoolHangs`). `_drain_queue` (`scheduler.py:247`) removes
   sentinels too. Two calls are with the provider; the first reports the quota, the pool
   raises and `run_scan` calls `close()`, which puts its sentinels; the second reports the
   quota and drains them. The workers wait for ever, and so does `close()`, in the `finally`
   of `run_scan` (`CloseHangs` of `ScanRun`) or of `batch_scan` (`CloseHangs` of `Batch`).
2. **A statement that moves counts as noise** (`ChunkNoise`). `_is_noise_only_change`
   (`diff_extractor.py:187`) compares the removed lines with the added ones and leaves the
   lines between them out, so that `-a`, ` b`, `+a` is noise, while the changelog
   (`CHANGELOG.md:43`) says that reordered statements no longer are.

Observed while modelling, without a run:

- *Scheduler and providers.* The `suppress` at `scheduler.py:141` cannot tell the caller's
  cancellation from that of the quota task, so a cancellation at that await is swallowed. A
  retry does not pass `_wait_rpm` (`base.py:95`), so that attempts may be closer than the
  interval; only what the limiter lets through is spaced (`GrantsSpaced`). The SDK client
  gets the same `max_retries` as the loop around it (`openai_compat.py:111`): the limits
  multiply. A 429 replaces the cooldown that staggers the callers (`openai_compat.py:142`), so
  with `retry_base_delay` below a second they start closer than the second that
  `base.py:78` sets; `CooldownStaggers` claims the shorter of the two. `max_tokens_per_minute` (README line 61) is not enforced. A stream that ends with
  `content_filter` passes as a whole answer; tool calls whose arguments are no JSON are
  skipped; `generate_with_tools` of the Gemini provider does not look for `MAX_TOKENS`.
- *Scan.* An uncaught exception (a git error at `scanner.py:153`, a baseline of the wrong
  form at `scanner.py:75`, a database error, an error of a provider that is no
  `LLMProviderError`) ends the process with 1, the status of a finding (README line 190). After
  an error of the last kind `quota_error` is not set: the calls that the pool abandoned are
  not refused but answered, for a scan that has failed, or, behind the sentinels of `close()`,
  wait until `asyncio.run` cancels them (`AbandonedAreContained`). Verification replaces the evidence and with it `finding_id`
  (`scanner.py:505`), after the findings were de-duplicated. The cache is opened after the
  scheduler was made and before the `try` that closes it (`cli.py:717`): if that fails, the
  workers are left to the end of the event loop.
- *Deep analysis.* A quota error of an agentic call is caught in `analyze_chunk_agentic` like
  any other: the `except LLMQuotaExceededError: raise` around it (`deep_analysis.py:137`) is
  not reached. The chunk falls back to the single-turn call and is marked degraded, which is
  why `CompleteMeansCovered` still holds.
- *Cache.* Of two processes that set up a cache which is not current at the same time, one may
  delete the file that the other has just made, and what the other then saves is not in the
  cache. And a probe that fails for any reason, a lock that lasts or an I/O error, deletes the
  file, also a current one with saved scans (`storage.py:104`). Both are `lapsed` in
  `SavedScansKept`. Two processes that update the profile of one
  repository lose one of the updates; both profiles are grounded. The reset leaves the
  `-wal` and `-shm` files beside the new file; the model gives it a clean one.
- *Clones.* An `rmtree` that is interrupted after it removed `.git` leaves a directory that
  every later clone refuses. A process that looks while another clones finds no repository
  and deletes the unfinished clone; the first's `git clone` then fails and removes whatever
  is at the path (`CloneStays` names both).
- *Chunks and tools.* The estimate of a chunk floors each hunk and the cutting counts no
  header, so a chunk may be a little over its budget; `ChunksFaithful` bounds it as the code
  computes it. Lines that begin with `++` or `--` and the mark of a missing newline are
  passed over in the test for noise. A match in a file whose path has a colon is dropped by
  `search_code`. `execute_tool_call` keeps errors as well as answers, so the same page cannot
  be asked again with another result (part of `PagesComplete`).
- *Batch.* After a Ctrl-C the first task that ends cancelled, for instance one that waits
  for the semaphore, ends the gather (`batch.py:450`), and the scheduler and the cache are
  closed (`cli.py:817`) under scans that still unwind, or go on because a cancellation was
  swallowed. A second task is what it takes: `SharedOutliveScans` says so. A Ctrl-C in
  `close()` skips the close of the cache. `build_tag_pairs` says "ordered old->new"
  (`batch.py:169`); with `last_releases` the pairs of the newest major come first
  (`batch.py:194`). The preference for the target's own stream (`batch.py:290`) changes
  nothing: among older versions those of the same major and minor are always the highest,
  which `HighestIsClosest` proves. Reports of two repositories of one name go to one file
  (`batch.py:389`).

## What is proved

All proofs hold for every value of the constants under the named assumptions of the
modules: finite nonempty sets of workers or chunks, positive bounds, elements that are
told apart; for `Batch` a list whose URLs have histories, each of which lists a tag once and
gives it a version or none (`IsHistory`, what git and `parse_version` return); for `DataPaths` files that are
sequences of hunks, finds that are sequences of counts (`FilesAssumption`,
`PagesAssumption`), pages of one item at least and a budget and a header of any size, also
none (`BudgetAssumption`).

| Module | Theorems (property) | By the invariant |
|---|---|---|
| `SchedulerProofs` | `TypeCorrect` (`TypeOK`), `RequestsSafe`, `RequestsKept` (`NoLostRequest`), `SentOnce` (`SentAtMostOnce`), `AnswersReal` (`AnswersAreReal`), `LateSendsBounded` (`FewLateSends`), `SentOrdered` (`SentInOrder`), `ServiceKept` (`KeepsService`), `SentinelsKept` | `RequestInv`, `LateInv`, `OrderInv`, `AnswerInv`, `SentinelInv` |
| `PoolProofs` | of the pool `PoolTypeCorrect`, `ConcurrencyBounded` (`BoundedConcurrency`), `ResultsOrdered` (`ResultsInOrder`); of a phase over the scheduler `PhaseBounded`, `PhaseSentAll` (`ReturnedSentAll`), `AbandonedContained` (`AbandonedAreContained`) | `PoolInv`, `ResultInv`, `PhaseInv` |
| `ScanRunProofs` | `ScanTypeCorrect`, `CompleteCovered` (`CompleteMeansCovered`), `StoriesAlwaysAgree` (`StoriesAgree`), `OwnerCloses` (`SchedulerOwnership`) | `ScanInv` |
| `ChunkReviewProofs` | `ConversationsBounded` (`ConversationBounded`), `TokensAreCounted` (`TokensCounted`), `NoAnswerLost` (`NothingLost`), `VerdictsAlwaysProven` (`VerdictsProven`), `ReviewRefinesScan` (`StepsOfScanRun`) | `ReviewInv` (`AnalysisInv`, `VerdictInv`, `OutcomeInv`, `CandidateInv`) |
| `ScanProcessesProofs` | `CacheCurrent` (`OpenMeansCurrent`), `ScansKept` (`SavedScansKept`), `ProfilesGrounded` (`ProfileGrounded`), `CloneKept` (`CloneStays`) | `FileInv`, `KeepInv`, `GroundInv`, `CloneInv` |
| `RateLimitsProofs` | `LimiterSpaces` (`GrantsSpaced`), `CooldownHolds` (`CooldownStaggers`) | `LimiterInv`, `CoolInv` |
| `DataPathsProofs` | `ChunksWhole` (`ChunksFaithful`), `PagesWhole` (`PagesComplete`), `StreamWhole` (`StreamAssembled`) | `ChunksInv`, `PagesInv`, `StreamInv` |
| `BatchProofs` | `SharedOutlive` (`SharedOutliveScans`), `AllAccounted` (`NothingUnaccounted`), `PairsAreCorrect` (`PairsCorrect`), `HighestIsClosest` | `BatchInv`, `PairsInv` |

Why the properties alone are not inductive, and what the invariants add:

- `RequestInv`: *where a request can be* (`PlaceInv`: in the queue once, or with one
  worker, or with the provider, never in two places) and *what the futures say of it*
  (`CallInv`). That a worker's answer goes to a pending future of its own request needs
  that no other worker holds it and that it is no longer in the queue. `LateInv`: a late
  send uses up one of the workers that were at the limiter when the quota was exhausted,
  and the one that reported it was not among them. `OrderInv`: the requests that were sent,
  those that workers hold in the line of the limiter, and those in the queue, one after
  the other, are in the order of `accepted`; each step appends, drops the head or removes
  from the middle, which keeps the order (`OrderedAppend`, `OrderedTail`, `OrderedRemove`).
  `AnswerInv`: a future is made when its call goes in flight and only that call cancels it.
  With `RequestInv` this gives the step simulation of `KeepsService`: a send maps to
  `Asked`, the drain with the quota error to `Exhausted`, a refusal by a worker to `Told`,
  what queue, lock and `close()` do among themselves to no step. `SentinelInv`: exited
  workers, sentinels in the queue and those still to be put are as many as the workers,
  and fewer only after a drain. So the hang of disagreement 1 has no second cause: without
  the drain every worker that `gather()` waits for has a sentinel before it
  (`SentinelsKept`).
- `PoolInv`: every running task is in `pending`, and `pending` never exceeds the bound,
  because a wake starts at most as many tasks as it takes out. A task that ended but was
  not yet seen still has its slot. `ResultInv`: an item that was handed out is in `pending`
  or among the results. `PhaseInv`: of a phase over the scheduler, nobody cancels its calls
  (`CallsInv`), a task that ended well was asked about, and one that raised has no call under
  way (`TasksInv`). That a request behind the sentinels is never taken rests on
  `SentinelInv`: while one is behind them, who could take it has a sentinel before it
  (`BehindStep`). The theorems of the scheduler hold in a phase because each of its steps is
  one of `Scheduler` or none (`PhaseIsScheduler`), so they are cited there, not proved again.
- `ScanInv`: `MarkInv` is the argument: whatever went wrong with a chunk has left its mark
  in the issues or in the quota error *when it happened*, and the verdict is drawn from
  these marks; `PhaseInv` says which variables are still untouched before their phase,
  `StoryInv` what report and cache are between the save and the end.
- `AnalysisInv`: requests and overrun at each point of a conversation (`ConversationInv`),
  what is counted before it ends (`CountInv`), and which answers were seen as long as it
  goes on (`AnswersInv`). `VerdictInv`: only the last step confirms or rejects.
  `OutcomeInv` and `CandidateInv` add what the step simulation of `ScanRun` needs: when the
  outcome of the chunk and the status of its candidate are settled, and by what.
- `FileInv`: how far the tables of a file are at each step of its making, and that nobody is
  connected to a file of an older schema. `KeepInv`: without the two exceptions everyone works
  on the file at the path, and who is about to delete it is alone with the set-up. `GroundInv`: a
  profile keeps to the file its holder is connected to until it is written. `CloneInv`: who
  deletes distrusts the clone, and what is being cloned is not whole.
- `LimiterInv`: only the head of the line sleeps, and its sleep and the age of the last
  grant together reach the interval. `CoolInv`: only the head of the cooldown's line sleeps,
  and until the second or the base delay has gone by in which a call has slept it out a
  cooldown is in force and nobody's sleep is over. That a 429 sets none of length 0 needs `2 ^ n > 0`, which the provers do
  not know of `^`; it follows from the library's fact that a set of `n` elements has `2 ^ n`
  subsets (`PowerPositive`).
- `ChunksInv`: what was chunked, what is collected and what is left of the hunk being cut
  are, in this order and with their numbers, the hunks looked at so far. `PagesInv`: the
  reader has got everything before the cursor, and no kept answer that ended its reading is
  an error. `StreamInv`: what was collected is what was sent. What the sequence operators of
  these modules compute (sums, flattening, pages of a list) is proved by induction on
  lengths, in lemmas: the library's induction theorems cannot be instantiated here, but
  every nonempty set of lengths has a least element (`LeastNat`, from the well-foundedness
  of `<`), which serves as well (`SetInduction`).
- `BatchInv`: nothing runs before the scheduler is open, and after the scans all are done
  or one of them ended cancelled and the batch was interrupted (`StageInv`), the semaphore's count (`CountInv`), the exit code as the worst outcome
  (`CodeInv`) and as many outcomes as pairs (`AccountInv`). `PairsInv` adds only what pairing
  mode and limit can be: the argument is in the lemmas about the operators, for every
  history. A sorted listing exists, by induction on the number of tags (`SortedExists`), and
  a sort that `CHOOSE` picks is one. The candidates of a release are sorted, the release's
  own stream first, so the first ancestor among them is the closest (`ClosestFound`), since
  an older version of another stream is below all of the own one (`HighestIsClosest`). In
  legacy mode the pairs of a major are the neighbours in its sorted list
  (`TransitionsAre`), and what the loop over the majors leaves out is older than all it
  took, and left out only when the limit is reached (`AllMajors`, by induction on the
  majors).

Only model-checked:

- all liveness (`SchedulerLive`, `PoolEnds`, `UnwindsUnlessDrained`, `ScanEnds`, `ReviewEnds`,
  `BatchEnds`, `EveryCallEnds`): termination under fairness is out of the prover's reach;
- the two disagreements, which are counterexamples.

## What is not modelled

Formatting, prompts, logging, statistics and token estimates other than those of chunks; the
reporters, the evaluation, the data classes and the settings (no state; a setting that
matters is a constant or a variable); argument parsing and the dry run; the patterns by which
files are skipped and chunks scored, and the context builder (tables of regular expressions);
the content of findings and profiles; the identity of a finding (each chunk yields at most
one, all distinct), and so de-duplication; the files of the reports; the read-only queries of
the cache; `read_symbol`, which has no pages.

In `Scheduler` the order of puts that compete for a slot is free, which includes asyncio's.
In `RateLimits` quota errors and final errors are one kind of end. In `Batch` the semaphore
may let in any waiting repository, which includes its FIFO order; an interrupt while the
batch is set up and a second one are left out, and `CloseHangs` does not look at the mode. In `ScanProcesses` the conversation with the model is
one step (`ScanRun` has it), and SQLite's locks either are free or fail the write.

## What would come next

The identity of findings through de-duplication and verification (`scanner.py:505`), and the
names of the report files of a batch (`batch.py:389`): the two hazards in the core that no
property covers because the state they are about is not in the model.
