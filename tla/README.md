# A TLA+ model of Fendix

Fendix is an API and code security scanner. This directory models the parts of it whose correctness depends on
order, concurrency, failure or history, checks them with TLC on small instances, and proves the central safety
properties with TLAPS for every value of the constants. Paths below are relative to the repository's root, which is
`src/` in PROJECT.json. PROJECT.json names, for each definition of the modules, the lines it stands for.

Contents: 1 the system, 2 how the modules correspond to the code, 3 the runs, 4 the proofs, 5 fairness, 6 bounds,
7 where code and documentation disagree, 8 what is not modelled, 9 the plan.

## 1. The system

Fendix ships two programs. `fendix` is a command line tool: one process, one scan, one exit code. `fendix-app` is a
GitHub App server that receives webhooks and runs scans in the background. Both use the packages under
`go/internal`; a scan may also start the Python engine (`python/engine.py`) as a child process.

| Component | State it keeps | Operations | Interacts with | What is hard |
|---|---|---|---|---|
| GitHub App scan pool (`ghapp/worker.go`) | dedup set, closed flag, bounded channel, semaphore channel, wait group, base context | `submit`, `dispatch`, a scan's goroutine, `Shutdown` | called by the handler; calls the scan | the send is after the unlock; three ways to count one job; shutdown under load |
| GitHub App server (`cmd/fendix-app/main.go`, `ghapp/{webhook,handler,scanner,comment,sarif}.go`) | HTTP connections, signal channel, the state of each scan | `ServeHTTP`, dispatch, `enqueueScan`, `runScan`, main's shutdown sequence | GitHub, the pool, the token cache, the scanner | redelivery, slow clients, deadlines within deadlines, order of the two shutdowns |
| Installation token cache (`ghapp/auth.go`) | token map, map of flights in progress | `Get`, the fetch goroutine | scans of one installation, GitHub | single flight under the leader's context; ageing tokens |
| Black-box worker pool (`engine/workerpool.go`) | two bounded channels, worker goroutines, a collector | `RunEvidence` | checks, request budget, context | cancellation at any select; a closed channel with a full buffer; panics |
| Request budget (`budget/budget.go`) | atomic counters, a cap, a `sync.Once` cancel | `RoundTrip`, `Stats`, `CapExceeded` | every HTTP request of a scan; read by the orchestrator | racing workers at the cap |
| Scan pipeline (`engine/orchestrator.go`, `scannerstatus.go`, `registry.go`, `reporters/coverage.go`, `gitdiff`, `cmd/fendix/main.go`) | status list, findings, context, hard exit code | `Run`, one stage after another, `BuildCoverage`, the gates, the exit code | all scanners, the Python engine, plugins | each stage may be skipped, fail, time out or be cut short, and must say which |
| Python engine and spawner (`python/engine.py`, `engine/spawner.go`) | the child's progress; a stream result | the child's three checks; `readFindings`, classification of the run | a pipe | crash, kill, garbled or missing lines, hang |
| Suppression and baseline (`engine/{collapse,occurrences,dedup,ignore,baseline}.go`, `finalize`) | the baseline file and the ignore rules, across scans | collapse, group, ignore, diff, save, report | files shared by successive and overlapping scans | what a rule or an old baseline hides; non-atomic save; positional ids |
| Black-box checks (`scanner/{injection,xss,openredirect,ssrf,hostheader,graphql,methodtamper,auth,idor,configleak,headers,cors,exposure,ratelimit,cookie_flags}.go`) | the audit log of probes per URL, the set of origins swept, what each probe brought | `Run` of each check | the worker pool; the target | a probe that fails is not an answer; the cap is read before and raised after a request; checks share endpoints |
| Crawler (`scanner/crawler.go`) | queues and visited sets, the endpoints found | specification, robots.txt, sitemaps, scripts, links, word list; merge, filter, sort, cap | the target; hands endpoints to the checks | circles, precedence of sources, filter and cap in the right order |
| Correlation, evidence and import (`engine/{correlator,correlator_v2,crosstool,collapse,dedup}.go`, `evidence`, `sarifimport`) | the provenance index of a scan | pair, merge, corroborate, collapse, group, restore | findings of all engines | order of arrival; each field must survive each fold; a foreign tool's word |
| Decision and confidence (`decision`, `confidence`, `policy`) | none | options from policy and flags; confidence; the gates; exit code | findings | gates that act after one another |
| Managed CI client (`managedci`, `cmd/fendix/managed.go`) | the evidence document on disk, attempts, the decision budget | context, export, submit, await | a backend over HTTP | lost and late answers, retries, a key that jobs share, the deadline |
| Integrations (`integrations/jira`, `integrations/notify`) | an issue tracker's labels, the claims of a notifier | search and create; claim and post | Jira, chat webhooks | check-then-act over HTTP |
| Dependency scanners (`scanner/deps/*`) | a cache, a batch semaphore | OSV queries, subprocess tools, offline lookup | network, subprocesses | partial failure |
| Native file scanners, Python analyzers | none beyond a run | match text | the pipeline | data rather than control |
| Reporters, plugins, offline snapshot, network guard, commands (`verify`, `demo`, `init`, `hook`, `ignore`), metrics, diagnostics, benchmark, catalogue | none, or one file | rendering, discovery, single-shot commands | the pipeline | little |

What makes each part correct, in words:

* **Pool**: one job per key at a time; at most `maxConcurrent` at once; an accepted job runs exactly once and in order;
  no key is left behind; when `Shutdown` returns nothing is left to run.
* **Server**: no request meets a closed pool; only verified requests start scans; every request is answered; every
  accepted scan concludes and a signal ends the process, as long as what a scan's commands leave behind lets go of their
  output; status 0 means that nothing was dropped.
* **Token cache**: one refresh at a time per installation; no token for another installation; no refresh wasted; no
  failed refresh that blocks later ones.
* **Sweep and budget**: the sweep always ends; no findings are lost while it is not cut short; if it is cut short the
  report says so; the request cap holds on the wire.
* **Pipeline**: each analyzer has one entry; work that was left undone is a gap, outside the cases section 7 lists; the gates
  and the exit code follow from the entries; an ended context ends the scan, under the same condition on commands.
* **Suppression**: nothing new is hidden; nothing accepted comes back; a torn baseline is never compared with; an id in
  a rule keeps its meaning.
* **Checks**: no finding without the flaw it names; no flaw the target showed without its finding, unless a probe was lost;
  the probe cap holds up to what was under way.
* **Crawler**: what the specification declares of an operation decides how it is probed; the walk is complete to its
  depth and no deeper; nothing disallowed is handed to the checks or guessed at (it may be fetched by the link walk, section 7);
  discovery ends.
* **Findings**: a verdict does not depend on who reported first; proof is neither lost nor minted by a fold; an import
  counts only through a strong match; production code stays visible.
* **Managed client and integrations**: no exit 0 or 1 but on the backend's decision about this job's evidence; a submission
  ends; one issue for each occurrence.

The hazards behind these sentences are listed with their lines in PROJECT.json.

## 2. Modules and code

    ScanService  <--implements--  ScanPool  <--extended by--  AppServer -- AppServerProofs

    TokenSource <--extended by-- AppServerProofs        WorkerPool -- WorkerPoolProofs

    PythonEngine <--extended by-- ScanPipeline -- ScanPipelineProofs
    ScanHistory -- ScanHistoryProofs

    Probe <-- PayloadChecks, AccessChecks, PassiveChecks <--extended by-- Probing -- ProbingProofs
    SpecReading <--extended by-- Crawler -- CrawlerProofs

    Evidence <-- Decision, Correlator, SarifImport <--extended by-- Findings -- FindingsProofs
    Findings --instance of--> ManagedEvidence
    Evidence <-- ManagedEvidence <-- ManagedClient <--extended by-- Publication -- PublicationProofs

Every `MC` module extends one of these and holds only values of constants. Definitions marked as mutated forms, or
`Mutant`, are variants of the definition after them, as a plausible slip would leave it; no specification uses them.

### ScanPool, ScanService

`ScanPool` has one action for each step another goroutine can observe. A member of `Jobs` is one call of `submit`;
`KeyOf` gives its dedup key.

| Code (`worker.go`) | Model |
|---|---|
| `submit`: the locked section | `SubmitRejected`, `SubmitDuplicate`, `SubmitReserve` |
| `submit`: the `select` after the unlock | `SendQueued`, `SendFull`, `SendPanics`; then `RefuseFull` for the `releaseKey` of a full queue |
| `dispatch`: receive; semaphore, `wg.Add`, `go`; return | `DispatchReceive`, `DispatchStart`, `DispatchExit` |
| a scan's goroutine: timer, `run`, the three deferred calls | `Timeout`, `RunReturns`, `ReleaseKey`, `FreeSlot`, `GoroutineDone` |
| `Shutdown`: close, the two outcomes of the select, the second wait | `ShutdownBegin`, `ShutdownDrained`, `ShutdownDeadline`, `ShutdownUnwound` |

A send on the channel that `Shutdown` has closed panics; the model has that step. By itself the pool does not prevent
it. The server's order of shutdown does, which is why `PoolOutlivesRequests` is stated in `AppServer`.

`ScanService` is the abstract promise: a bounded first-in-first-out backlog, no two jobs of one key, bounded
concurrency, each accepted job started and completed once, halting only when closed and idle. The mapping
(`Service == INSTANCE ScanService WITH ...`) counts the job in the dispatcher's hand as backlog, so the backlog is one
longer than the channel, and takes a job as completed when its key is free, a little before its slot is.

### AppServer

`AppServer` extends `ScanPool` with the HTTP request of each delivery, the stages of `runScan`, the comment on the pull
request and main. Each of its actions is a pool action with the server's part conjoined, or a server step that leaves the
pool's variables alone. A delivery's kind says what its body holds: unreadable, forged, malformed, an event that asks for
no scan, or one that does. `Kill` may happen at any time.

A scan runs git, `fendix` and its report as commands and waits for their output to close. The context kills the command alone, so
`OrphanHolds` is a command that leaves a process behind with the output pipe, `OrphanExits` the end of that process, and until
then the scan takes no step.

The comment is posted, refused, or created with its answer lost (`PostFails`). `UploadSARIF` can only log a failure and
is part of `FinishScan`. Shutdown's deadline is as long as a scan's timeout, so the scans that were running when
it was called have timed out when it passes (`DrainDeadline`); scans that started later need not have.

### TokenSource

One member of `Calls` is one call of `Get`; it names the flight it leads and the token that flight fetches. `Hit`, `Join`
and `Lead` are the locked section; `FetchOk`, `FetchFails`, `Store`, `StoreNothing` and `CloseDone` the goroutine;
`ReturnFlight` and `ReturnCancelled` the two cases of the waiter's select. `Age` moves a token inside the leeway of 30
seconds. Times are only "fresh" and "expiring": nothing else of the clock is looked at.

### WorkerPool

One call of `RunEvidence` with the budget's transport under its checks. The jobs channel is first in first out and its
content is given by two counters; the results channel is a set, since the code sorts findings later. `Produce` and
`CloseJobs` are the producer, `Receive` to `CancelOnce` a worker (with `RoundTrip` for the budget: the counter is moved and
compared in one step, the refusal is counted in a second and the cancel called in a third), `Collect`, `CloseResults`
and `RunEvidenceReturns` the collector and closer, `Record` the orchestrator's reading of `budget.Stats()` and of the
context, as `recordBlackbox` does. A select with two ready cases may take either.

### PythonEngine, ScanPipeline

`PythonEngine` is the child (its three checks, what each finds to work on, status lines, the done line, a crash, an
import error, a legacy tree, a kill) and the spawner's folding of the stream. The pipe is lossless and ordered, so
printing and reading a line are one step; the end of the process and the moment the spawner looks at its context are
separate ones.

`ScanPipeline` extends it with `Orchestrator.Run`: an action per stage, in the code's order, each appending to the status
list of its analyzers what the code records there. A command line and the working tree it meets are one record, `cfg`,
chosen from `Scans`. A scanner is the set of results it can return; pip has three ways to its result (`ThroughPipAudit`, and
without it OSV or the snapshot), each with its own. The ghost `missed` collects the analyzers that
had work and did not get it done, from what the environment did to them and not from what was recorded; it is
what the entries are compared with. The ghost `passedOver` are those among them that went on without a part of their input.
`Silent` names the cases in which the code is known not to tell; section 7 lists them. A stage that reads the output of a
tool (`ReadsChild`) may find it `held` by a process the tool left behind, and `Run` waits until it is released.

### ScanHistory

Successive and overlapping scans that share a baseline file. An occurrence is a file, a line and a rule; its identity
(the fingerprint) is the file and the rule; a presentation group is all occurrences of one rule. `Begin` does the collapse, stamps
identities and numbers the groups; `ApplyIgnore`, `ApplyBaseline` and their failures follow; `OpenBaseline` and
`WriteBaseline` are the two halves of `os.WriteFile`, which a kill, an error or another writer can come between; `Report`
regroups what is left under the ids given at the start. A baseline carries as ghosts what its writer detected and
what it did not ignore.

### Probe, PayloadChecks, AccessChecks, PassiveChecks, Probing

A check is five operators: its *plan* (the requests it may send, in the code's order), which of them it still *wants* given
what the earlier ones brought (the early returns and `break`s of the code), the test in front of each (`Gate`: the cap, a
reservation of four, the context, none), the *answers* a target may give, and the *findings* it draws. A target is a set of
traits: flaws (`sqliTime`, `open`, `reflects`) and harmless ones that may mislead a check (`laggy`, `dynamic`, `sameForAll`).
Answers follow from traits, findings only from answers, so that whether a finding is warranted can be read off the target.
The arms of a `CASE` in these modules exclude one another: where two hold at once the value of a `CASE` is any of them, so that TLC,
which takes the first, would check one program and a proof another. The proofs of `ProbingProofs` stopped at arms that
overlapped; those and the like in `SarifImport` and `ManagedEvidence` are written with `IF` now, in the order of the code.

`Probing` runs several checks side by side, as the workers of the pool do: `Start`, `Send`, `PassOver` (a closed gate, or a
context that has ended), `Receive`, `Fail`, `Return`, `Cancel`. A request is two steps, and the audit log is raised in the
second, as in the code; `sweeps` is `markOriginSwept`.

### SpecReading, Crawler

`SpecReading` is what an operation of a specification becomes (security, parameters by name and place, example values for
placeholders). `Crawler` is one action per source in the code's order, a step per fetch, then `Rank`: deduplicate, robots,
sort, cap. A site is a record: its pages, links, maps, scripts, word list and the configuration it is crawled with.

### Evidence, SarifImport, Correlator, Decision, Findings

`Evidence` has the record all engines report in, its ranks and the provenance fold; `SarifImport` what a foreign document
becomes; `Correlator` the pairing of black-box with white-box findings, agreement across tools and collapsing; `Decision` the
policy, the confidence and the gates. They are operators, as the code is functions. `Findings` is the state machine around
them: evidence arrives (`ReportBlackbox` in any order, `ReportCode` in registry order, `LoadImports`), then one action per stage of
`Run` and `finalize`, to `Decide` and `Exit`. The operator `Pipeline` is the same stages as a function, with which a
property can ask what another order of arrival would have given.

### ManagedEvidence, ManagedClient, Publication

`ManagedEvidence` is the document: facts from evidence (`FactsFrom`), consistency rules, the attribution of findings to
analyzers, provenance checks, ceilings, and `Export`, which is the document or nothing.

`ManagedClient` is a CI job: `MakeContext`, `Scan`, `Submit`, `Post`, `Poll`, `Wake`, and what surrounds it: `Edit` (the file is changed
between the steps), `Rerun` (a workflow runs a failed step again), `ReceiveLate` (a post arrives after its sender gave up)
and `Decide` (the backend's decision), which are external. A post is delivered and answered, delivered and not heard of, not
delivered, or late. The backend keeps one record per idempotency key, as the client's comments describe it.

`Publication` adds `fendix jira` and `fendix notify` on the reports of the same jobs: `Validate`, `Search` (one chunk of labels a
step), `Create`, `EndSync`; `Alert` (claim, then post to each webhook), `EndNotify`. Issues are sets of occurrence labels.

## 3. The runs

Each run's exact properties are in PROJECT.json and in its cfg.

| Run | Instance | What it shows |
|---|---|---|
| `scan_pool` | 4 submissions over 2 keys and the empty key, 2 slots, 2 queue entries | `DrainedMeansIdle`, the inductive invariant `IInv` (with it type correctness, no twins, no leaked key, the bound), and refinement of `ScanService` |
| `app_server` | a delivery, its redelivery and a forged request; 1 slot, 1 entry; fairness | `PoolOutlivesRequests`, `GracefulExit`; `ScansConclude`, `SignalEnds` |
| `token_source` | 2 calls for one installation, 1 for another | the inductive invariant `TInv`, `NoFreshTokenReplaced`, `FlightsEnd` |
| `worker_pool` | 2 workers, 4 jobs, 1 buffer entry per worker, cap of 1 request | `CutShortIsRecorded`, `WireWithinCap`, `SweepEnds` |
| `worker_pool_interrupted` | the same, 2 jobs | disagreement: after Ctrl-C the sweep is recorded `ok` |
| `scan_coverage` | 83 command lines in four families, two abnormal outcomes per scan | `GapsAreRecorded` (with `OneEntryEach`), `GatesHold`, `PythonOkIsWhole`, `EndedScanReturns` |
| `scan_history` | 2 processes, 3 scans, 4 trees, 5 ignore files, 3 ways to use the baseline | `NewIsReported`, `SavedStaysKnown`, `NoTornBaseline`, `IdRulesKeepTheirGroup` |
| `checks` | 15 checks on 168 targets, alone or several on one endpoint; one failing request, a cancellation | `OnlyRealFlaws`, `FlawsAreFound`, `CapHolds`, `GravestOriginKept`, `SweptOnce` |
| `crawl` | 44 configurations of a small site with circles; two failing fetches, a cancellation | `DisallowedNotScanned`, `SpecWins`, `PagesWithinDepth`, `CapKeepsTheFirst`, `CrawlEnds` |
| `findings` | up to 4 of 12 pieces of evidence in every order, 3 imported documents, policies and flags | `StatusIgnoresOrder`, `ProofSurvives`, `ImportsNeedAStrongMatch`, `ProductionStaysVisible`, `RelaxedSaysWhatItOverrode`, `OwnFindingsExport` |
| `findings_anchored` | up to 3 pieces of the same evidence | disagreement: on a hybrid scan a credential its provider signed is reported as INFO |
| `publication` | 2 jobs of a run or its rerun, 4 kinds of scan, 4 kinds of report | `PassMeansDecided`, `OnOneIssue`, `SubmitEnds` |

Deadlock is checked in the runs of the pool, the server, the token cache and the history: there a state without a step is
an error, and a `Rest` action stands for the states in which the program may really stop (`Shutdown` has returned, the
process has exited, all calls have returned, the history has reached its bound). It is not checked for the sweep, the
pipeline, the checks, the crawler, the findings and the publication: they end, and after the end nothing happens. That the sweep,
the pipeline, the crawler and a submission do end is a property of its own.

`PythonOkIsWhole` and `GapsAreRecorded` are the properties the coverage contract stands on: an `ok` of the Python
engine means a child that went through all its checks, ended cleanly and had every finding read; and no analyzer that had
work left undone may be without a gap, except where `Silent` says so. The exceptions are part of the result. `OneEntryEach`, a
conjunct of it, has one too: when `git` cannot list the tree and the diff is empty, file scanners are recorded twice.

`ScansConclude`, `SignalEnds` and `EndedScanReturns` are conditional: *if* every held output is released in the end (`PipesClose`,
`OutputsClose`), the scan, the process, `Run` end. The condition is the environment's and nothing in the code provides it. Without it all
three are false: TLC finds the scan whose output stays held (section 7).

`DisallowedNotScanned` is about what is handed to the checks and what the word list asks for. It does not say that no disallowed path
is fetched: with a depth of 2 and more the walk fetches the ones it is led to, with less only the home page can be one.
Sitemaps and scripts have no path in the model; the code fetches those without a look at `robots.txt` too.

`OnlyRealFlaws` and `FlawsAreFound` are the two sides of a check. The exceptions they name are what the code does: a time-based
or boolean signal on a target that is slow or changes is reported with MEDIUM confidence; an endpoint open to all is accused of accepting
any token as well when the probe that would tell was lost; a page that echoes the probe's host beside an error of its own reads
as SSRF error leakage. `CapHolds` allows for what the code's check-then-record allows: one probe of each other check that was
under way, and the probes that do not ask, whether or not they brought an answer. (A proof attempt showed that the unanswered
ones count: `sendBoolProbe` records a reserved probe that fails too, and the bound without them is passed by an injection and an
open-redirect check on one endpoint. That pair is in the run since.)

`StatusIgnoresOrder` leaves out hybrid scans, since there which of several black-box findings is paired does depend on arrival (section 7);
that is part of the result too. The white-box reports of the instance never tie (`Untied`, section 4). `ProductionStaysVisible` and `ProofSurvives` hold for hybrid scans.

`PassMeansDecided` is about the document the job *holds*: two jobs of one run share an idempotency key, and a document may be
edited between two submissions under that key. The backend refuses a second artifact under a key; that the client takes this
refusal for an error and never for a receipt is what the property needs. In the second half of `OnOneIssue`, syncs that
overlap are excepted, and they do create an issue twice.

## 4. The proofs

Eight modules, checked by TLAPS to the last leaf, with no assumption but the named ones on the constants. The specifications
themselves are those the runs check.

**AppServerProofs**, the pool (from `PoolAssumption`: finitely many jobs, at least one slot and one queue entry).
`NoTwins` is not inductive: that two jobs do not own one key follows only if the dedup set is what the owners say it is,
and bounds and idleness follow only if the semaphore, the wait group, the channel and the dispatcher's hand agree with the
jobs they stand for. `IInv` adds exactly these: `QueueMatches` (the channel holds each queued job once), `HandMatches`
(the dispatcher holds a job iff it says so), `CountsMatch` (`slots` and `wg` as cardinalities) and `ShutdownOrder`.
The counting steps rest on lemmas about the cardinality of a set of jobs after one job moves.
`Invariance` is `Spec => []IInv`; `NoTwinsInPool`, `NoLeakedKey`, `ConcurrencyBounded` and `ShutdownDrains` follow from it.
`Refinement` proves `Spec => ImplementsService`: one step per action, almost all of them stutters; `SendQueued`,
`DispatchStart`, `ReleaseKey`, `ShutdownBegin` and the end of `Shutdown` are the abstract `Accept`, `Start`,
`Complete`, `Close` and `Halt`.

**AppServerProofs**, the server (from `AppAssumption` as well). `AppImplementsPool` proves that each server step is a step of
`ScanPool` or leaves it unchanged, so every theorem about the pool holds inside the server. `AppInvariance` proves
`AppInv`: request, scan and main goroutine are where the pool's state says they can be; its core is that a closed pool
has no active request (`MainOrder`). From these, `NoRequestMeetsAClosedPool`: inside the server `submit` neither panics nor
returns `errPoolClosed`, whatever the deliveries and the capacities. `ExitIsGraceful` and `OnlyVerifiedReachThePool`
follow.

**AppServerProofs**, the tokens (from `TokenAssumption`). `TInv` adds to the single flight that the flight map is exactly the flights
in progress, that cached tokens are stored ones of their installation, and that a flight in progress means no fresh
token is cached (`TokenInvariance`). `OneRefreshAtATime`, `NoForeignToken` and the action property `NoRefreshWasted` follow.

**WorkerPoolProofs** (from `PoolAssumption` of `WorkerPool`: natural bounds, at least one buffer entry per worker; the code clamps the number of workers). `SweepInv` relates the jobs taken, run, found, sent
and collected (`NothingLost`), the workers' hands (`Holding`), what ended the context (`BudgetCause`) and the order of the
closes (`SweepOrder`). `CutShortNeverOk` and `CapHoldsOnTheWire` follow, and `StatsFinal`: the counters are read only
when they can no longer change. `CapHoldsOnTheWire` holds for any number of workers at the cap.

**PublicationProofs** (the decision needs no assumption on the constants; the issues need `PublicationAssumption`: a chunk of at least one label, a search that returns at
least a chunk, reports that are lists). `PassMeansDecided` is not inductive: a poll answers with the record that has the
polled submission's id, and that this is the record of the job's own key must be known. `PInv` adds `OneOwner` (the submission id of each record, and of each
post that may still arrive, is that of the job whose document has its key, so two keys never share one), `Owns` (a job holds one
document under its own id from its scan on), `PollsItsOwn` (a polling job's record exists, with its artifact) and `EndedAsDecided`. `Frame`
says that a job survives any step that leaves it alone and keeps records and decisions; `ReceivedShape` what the backend makes of a document,
timely or late. Then a lemma per action. `PassNeedsADecision` is `Spec => []PassMeansDecided`, for any number of jobs, reruns and lost posts,
any documents and budgets. It rests on the external backend only in this: one record per key, a second artifact refused, a decision final.

`OnOneIssue` is about an issue tracker that only grows, and about a sync that looks first and creates afterwards. `SyncInv` says that what a job
has `tracked` carries a label, that each finding behind the one at hand is on an issue unless the sync reported an error (`SyncedJob`) and, as long as no
two syncs overlapped, that every occurrence searched so far that has an issue is among the tracked ones (`Looked`) and that no two issues share an
occurrence (`Disjoint`). The search goes by chunks of labels and its result is cut off; it misses no issue because issues are disjoint, so that a chunk has
no more of them than labels, and a result holds as many as a chunk (`SearchIsWhole`). `SyncsTrackWhatTheySearched` is `Spec => []SyncInv`,
`OneIssuePerOccurrence` is `Spec => []OnOneIssue`.

The invariants `NoTwins`, `KeysMatchOwners`, `RunningBounded`, `AppInv`, `OnlyVerifiedScans`, `SingleFlight`, `OwnTokens`, `SweepInv` and
`StatsAreFinal` are proved and no longer run one by one; the inductive invariants they follow from were checked by TLC on the instances
of section 3 before they were proved.

**ScanHistoryProofs** (from `HistoryAssumption`: natural numbers for rules and ranks, finite trees). None of the four invariants is
inductive: each speaks of a report, and what a report leaves out was decided several steps and perhaps several scans before. `HInv` says what
is `left` of a scan at every step as a function of its tree, its rules and the baseline it has `read` (`Unignored`, `Unknown`), that ids are
`Numbers` of the unsuppressed groups until the report restricts them, and of every baseline file (`BaselineOK`) that it lists only what its writer
detected and, unless its writer compared with a baseline, all it kept. One lemma per action that goes on; every failure and kill is
`FailOK`. `KnownWasDetected` needs that the primary of a legacy group belongs to the group (`PrimaryInGroup`), hence that `findingLess` has
a least element on any set of one rule's occurrences, finite or not, which is proved from the well-foundedness of the naturals.
`TypeCorrect`, `ReportsTrustTheirBaseline`, `NothingNewIsHidden`, `NothingSavedIsForgotten` and `PositionalIdsAgree`
follow for any number of processes and scans, any flags, trees and rules.

**ScanPipelineProofs** (from `FaultsAssumption`: natural bounds, and `ScansAssumption`: well-formed command lines). The coverage contract is
about the end of a scan, and its entries are written stage by stage, so the invariant has to say at every stage what the list owes.
`Rank` numbers the stages; `Counts` gives each base analyzer the entries `Expected` of it: one of the failed `--code` validation, one of the empty
diff, one of its own stage unless that one is already there. `Context` (the allowlist is git's answer; the budget ends the context only in
the sweep) and `Retries` (a second attempt follows one transient failure) are what the reasons depend on. `Shape` describes the stream of the Python
child at any point: under protocol 2 one line for each check passed, in order, no `ok` for a check that could work and did not, and
the done line exactly when the child is past it. `MissedTold` is `GapsAreRecorded` at every stage, with the sharper fact that a check without
a line has a parent that failed. `Frame`, `Counted` and `Records` do the common part of a stage; `Returned` says what `recordPythonEngine`
makes of the stream. `TypeCorrect`, `EachAnalyzerOnce`, `NothingLostSilently`, `GatesAreFirm` and `OkEngineIsWhole` follow, for any
command lines and trees and any number of failures, outside the cases `Silent` names, of which `passedOver` is one: about a manifest, file or request that an
analyzer goes on without they claim nothing. What the tools of a stage do stays the choice of outcomes the module gives them.

**CrawlerProofs** (from `CrawlerAssumption`: bounds, and sites as a server may be: `IsSite`, `IsDocument`). The properties of discovery are about what is handed
over at the end, and are decided by sources that ran long before. `CrawlInv` carries that forward. `RobotsHeld`: a robots.txt that was read
is what the filter uses, and no disallowed word was asked for; with `WalkHeld` (a walk of depth 1 opens the home page alone) this is `DisallowedIsNotScanned`, which leaves the
longer walk out by its statement. `SpecFirst`: the endpoints of the specification stay the first of all that are found,
whatever fails later; with `Deduplicated` taking the first of a method and path, this gives `OperationsScanned`, under which lies a chain of
lemmas about reading a specification (`FromOperation` keeps each declared parameter at its place, each placeholder gets the operation's own example).
`RankDone`: the result is a prefix of the sorted, filtered endpoints; that the sort is one (`FirstKept`) needs `Before` to be a strict total order on paths and methods,
and `InOrder` to exist for every finite set. The walk is the hardest. `WalkHeld`: no page is queued or opened twice, and none is further from the home page than counted.
`WalkOrdered`: the queue holds pages of one depth and then of the next, which is what breadth first means. `WalkComplete`: while
nothing was lost, every link of an opened page is known, and is queued or opened at most one further unless it is at the depth. When the queue is empty, induction on the distance
gives that every page within the depth was seen (`AllNearAreSeen`). `OperationsScanned`, `FirstKept` and `WalkReachesTheDepth` follow, for any sites,
documents, words, caps and depths. `SpecReading` and `Crawler` have no fold and no choice among orders
where the code walks a list: they say with sets and places what the walk leaves (`FirstPlaces`, `Selected`), so that these lemmas need no induction over data.

**ProbingProofs** (from `ProbingAssumption`: scenes with finitely many checks of the known names and a list of parameters; at least one
probe per endpoint). What a finding is worth depends on every answer before it, but a check is at no single state where they are all to be seen; so the
invariant says of a log what its history was. `CheckInv`: what a check has settled is a
beginning of it, without those the answers before did not call for (`Follows`), and each one settled is an answer the target may give to this request after
the ones before it in the plan (`Settled`, with `Upto` for what was known then), or is `Lost`. That no plan has a request twice (`ProperPlan`) is proved of each. `Shape` types the rest and `SweepInv` says that the one
check that swept is in `sweeps`. `NextProbe` is shown to be the least of the plan that is wanted, so that settling it extends what `Follows` says (`PInvHolds`).

From `PInv`: `KnownPathsSweptOnce`, since two checks that have a known path in their logs both had it in their plans. `CorsReportsTheGravest`, which is about
the order of ranks among the candidates. `NobodyIsFramed` is `Spec => []OnlyRealFlaws`, for any scene, any mix of traits, any cap, failures and
cancellation: for each check a lemma reads a finding back to the answers it needs and those to the traits that permit them. The time-based ones need
that a laggy target is late once in a log and never twice (`OneHiccup`), which is what separates HIGH from MEDIUM confidence.
`AnsweredChecksFindFlaws` is the other side, `Spec => []FlawsAreFound`. `DoneThorough`: a check that was answered whenever it asked sent all it wanted,
each answer being one the target may give after the earlier ones (`Thorough`); when it came to a request it knew the answers to those before it in the plan and no
other (`Known`). Then a lemma per check: the request that tells was wanted, unless an earlier answer had told already, and its answer makes the finding. The places of a plan
that repeats its kinds for each parameter (`PlanFor`) are what most of these lemmas count with. `TheCapHolds` needs an invariant of its own, `CapInv`:
what is recorded of a URL, and what is about to be recorded by the checks with an asking probe under way, is at most the cap, one for each other check, and
the unasked ones in the logs.

**FindingsProofs** (from `FindingsAssumption` and `EmittersAssumption`). The second half of a scan is a chain of folds over lists, and its properties compare the two
ends of the chain. `StageInv` says what each stage holds as a function of what was reported and imported (`Gathered`, `Crossed`, `Projected`,
`Grouped`, `Refilled`), so that what remains is about operators. None of them is `RECURSIVE`: a fold is read off its table, a
recursive function of the position (`PairTable`, `GroupTable`, `MergeTable`), and the facts about it are shown by induction on the position.
Each stage has lemmas of the same two kinds, *what went in has someone who stands for it* and *what came out is made of
something that went in*: pairing and what it merges (`Match`, `Kept`), agreement across tools (`Corroborates`), the projection onto the
published fields, collapsing (`StandsFor`), grouping (`GroupOf`: a group's fields as facts about its members; `Chosen`: its primary), the
severity caps (`Capped`) and the restoring of provenance from the index (`Gives`). `Decided` puts them together for a finding at exit.

* `RelaxedIsFrank` and `OwnFindingsAreExported` need only what a finding at exit looks like.
* `ProofIsKept` and `ProductionIsShown` follow one piece of evidence through all stages. The places where it can be replaced by another are named in
  the properties: `Outranked` is evidence of another engine, at least as trusted, for the same category and place; `Contested` adds that, where
  two engines meet, collapsing may keep another report of the same engine.
* `ImportsAreHarmless` runs two scans side by side. The list without the import is, up to what an import may lend, a prefix of the list with it
  (`AddsImports`, `AddsTwins`, `Longer`), at every stage, and what is behind the prefix has a key space of its own.
* `OrderIsIgnored` runs two scans of the same evidence in different order. They never hold the same list, but the same *set* up to chain, route and
  references (`Same`, `Equal`), and each stage preserves that, since what it takes from a group does not depend on the order within: maxima and unions, and
  a primary that is the least of a total order (`Ranked`). Collapsing is the exception: of two white-box
  findings its order calls equal it keeps the first. The theorem therefore has the hypothesis `Untied`: of two white-box findings of one category at one place
  one comes before the other, or they say the same. A scan of black-box findings alone, whose workers are why the code is made to ignore order, satisfies it
  always; white-box reports arrive in the registry's order in the code, so that a tie is broken the same way in every scan. For arbitrary
  orders of tied white-box reports nothing is claimed, and the code promises nothing.

`EmittersAssumption` is the vocabulary of `models`: severities, confidences, contexts, expectations, verdicts and tiers are the declared ones, an emitter sets none of
the fields that later stages set, and a location is known by its text. Evidence of a plugin that breaks these rules is outside the proofs.

**Model-checked only**: liveness (`ScansConclude`, `SignalEnds`, `FlightsEnd`, `SweepEnds`,
`EndedScanReturns`, `CrawlEnds`, `SubmitEnds`), since the prover does not reason about fairness and `ENABLED`;
and the disagreements of section 7, which are counterexamples. Every invariant and every action property the passing runs check is
stated by a theorem, `StatusIgnoresOrder` under the hypothesis explained above.

## 5. Fairness

Weak fairness only, of actions that the code's own scheduling keeps enabled.

* *Server.* `ReadTimeout` ends a body that does not arrive (`ReadFails`); goroutines that can move do; a scan's timer
  fires; once a scan's context is done its next call fails or it returns, since every call takes that context, *unless*
  a process one of its commands left behind holds the output: then nothing makes it return. The waits of main end by their
  deadlines, the second wait of `Shutdown` only when the scans have returned. Nothing is assumed of processes left behind, of clients (a body need not arrive), of GitHub (a call
  need not succeed), of signals or of kills, and nothing makes a scan end before its context is done.
* *Token cache.* Contexts end, as each has a timeout; a fetch whose context has ended fails; goroutines run.
* *Sweep.* Goroutines run; a check that is running returns, since its requests carry a deadline and its payload list is
  finite. Nothing is assumed of `--max-duration` or Ctrl-C.
* *Pipeline.* A stage comes back and `Run` goes on while it can; the Python child is killed when the context has ended. While a tool's output is
  `held`, `Run` cannot go on, and nothing makes the holder exit. Without an ended context a child may hang for ever, and the
  property does not claim otherwise.
* *Crawler and checks.* A fetch or a probe returns, since every client has a timeout, and the goroutine goes on. Nothing is assumed of
  the target or of cancellation.
* *Publication.* Weak fairness of each job's own next step: a request is answered, refused or times out, and a sleeping client
  wakes. Nothing is assumed of the backend's decision, of late posts, of edits or of reruns (a rerun is a new submission, which ends too).

## 6. Bounds

* *Jobs.* Four submissions make every case of the pool: twins, a second key, no key, a full queue of two, both slots taken, a
  job in the dispatcher's hand, and a shutdown among them. The safety results do not depend on the number: they are proved.
* *Server.* With one slot and one entry three deliveries, two of which can reach the pool, make every branch of the handler but the
  full queue, for which a slot, the dispatcher's hand and the entry would have to be taken: that branch is `scan_pool`'s. Liveness needs no more, as
  deliveries only share the pool, for which the proofs hold.
* *Token cache.* Two calls are enough to race in a flight, the third shows that installations do not mix.
* *Sweep.* Four jobs against two workers and buffers of two fill both channels; a cap of one and up to
  three attempts (`MaxSent`) give a refusal by each worker. `MaxSent` also bounds a check's requests.
* *Pipeline.* `MaxFaults` (2) bounds the abnormal outcomes of one scan, so that two failures can coincide; `MaxFindings` (1) the
  findings a child prints, enough to lose one. The command lines are chosen in families that vary the flags that
  interact: targets and budgets; ways to scan dependencies; diffs and changed kinds of file; Python trees, inputs and
  checks. Flags that do not meet in the code do not vary together.
* *History.* Three scans are the shortest history in which a baseline is saved, read and rolled on; two processes let saves
  overlap. The trees hold a move within a file, a new occurrence in a file that sorts before the known one, a
  second kind of finding, and two engines at one spot.
* *Checks.* `MaxProbes` (10) is below what the pairs of checks on one endpoint want and above what one group reserves; `MaxFailures` (1)
  loses any one probe. Each check meets a target without traits, each trait alone, and the combinations its code distinguishes.
* *Crawler.* `MaxSitemaps` (3, 16 in the code) is shorter than the circle of sitemaps; depth 0, 2 and 3 are below and above the short way to the
  last page; caps 0, 1 and 3 cut nothing, almost everything and some.
* *Findings.* `MaxEvidence` is 4 (3 in the disagreement): a pair, a third member that could be paired instead, and a bystander.
* *Publication.* Two jobs are enough to share a key or an issue; the proof is for any number. `MaxTransportAttempts` is 2 (5), the decision budget 2 and the longest
  wait 2 in units of the shortest wait, `MaxReruns` 1; `Chunk` 1 and `MaxResults` 2 (50 and 100), so that a search takes several
  requests and its result can be cut off; ceilings of 2 findings, 4 analyzers and 8 units of size, which the scans reach and pass. A workflow
  has either managed steps or publishing steps: they share no state, and one after the other would only multiply the states. The issue
  tracker's search knows an issue as soon as it is created, which a real one may not.

Symmetry is not used: the runs are small, and the jobs differ in their keys.

## 7. Where code and documentation disagree

Two disagreements are shown by a run, with quotations in PROJECT.json: an interrupted sweep recorded `ok` (`worker_pool_interrupted`), and
the provider's signature that correlation forgets (`findings_anchored`).

Three are the exceptions that properties of passing runs name, because without them the properties are false:

* *Shutdown* (`PipesClose`). After its deadline `Shutdown` cancels the scans "so a stuck scan can't block shutdown indefinitely" (`worker.go:160`) and waits for
  them without bound. A scan whose command left a process behind that holds its output does not return, since the cancelled context kills the
  command alone: there is no `WaitDelay` and no process group (`ghapp/scanner.go:167`, 187, 255). A tool of `fendix scan` that leaves such a
  process keeps `Run` waiting past Ctrl-C and `--max-duration` in the same way (`OutputsClose`); the repository's tests allow for it
  (`semgrep/scanner_test.go:473`, `plugin_test.go:279`).
* *Coverage* (`Silent`). "Every failure is now recorded" (`scannerstatus.go:21`), but an analyzer that goes on without a part of its input is recorded `ok`; the
  cases are listed below.
* *Robots* (`DisallowedNotScanned`). With `--respect-robots` "the scan never even probes a disallowed URL during discovery" (`crawler.go:774`; `crawler.go:90` says so of the
  HTML crawl), but `crawlHTMLLinks` never looks at the rules and fetches the disallowed pages it is led to. The filter at the end keeps them out of the result.

Others were met while modelling. The models have the behaviour, or leave out what it is about; no run is devoted to them:

* *Pool and server.* A submission can be refused as a duplicate of a job that is itself refused for a full queue
  (`worker.go:92`). Two deliveries with different ids about one head are both scanned (`handler.go:242`).
* *Server.* A full queue is answered 200, so GitHub does not redeliver. A comment that cannot be posted does
  not fail the handler. A redelivery after the scan has ended is scanned and commented again. Queued scans are lost when the
  process is killed, and when the HTTP shutdown times out or the listener fails (status 1, no drain). When the leader's context ends, all waiters of its flight fail. Two scans of
  one pull request may post in either order. `kill_timeout` and the documented grace period are shorter than the two
  deadlines together.
* *Coverage* (`Silent` in `ScanPipeline`). Analyzers pass over a part of their input without a word in the status list (`passedOver`): pip a
  requirements file or a directory it cannot read, by OSV and from the snapshot as well as by pip-audit; a file scanner a file or a directory, or a file
  semgrep warned of; a Python check an input; plugins a plugin that is dropped; the sweep requests that got no answer. A `--code` that does not exist leaves
  Python checks `ok` when a `--spec` is given. A legacy Python tree does not report failed checks. A sweep of a spec's own server
  (`--spec` without `--url`) that was cut short stays `configured_complete`. A bare `--diff` compares with the index, so a staged change
  counts as `diff_unchanged`.
* *Pipeline.* The second attempt of `retryTransient` decides alone. A Python child without `--max-duration` can hang for ever.
  A required analyzer that has two entries is judged by the later one. `--diff` never lists untracked files, and deleting a
  manifest counts as `diff_unchanged`. Under `--staged` the working tree's content is scanned.
* *Suppression.* The baseline is saved before the steps that can still fail, so findings that no report showed can be known
  to the next scan. Of several engines' findings at one spot only the winner has an identity, and a rule that hides it hides
  the others. A scan that compares with the file it saves (the rolling baseline) reports again what only the scan before
  last had known, since what is saved is what the diff left over.
* *Checks.* The probe cap is read before and raised after a request, so concurrent checks overshoot it, and baselines and the tails of
  reserved groups do not ask (`models/config.go:28` says it caps them). The passive tier sends the endpoint's own method,
  a write included (`headers.go:464`, `cors.go:84`), where `check.go:19` calls passive checks safe.
* *Crawler.* Sitemaps and scripts are fetched without a look at `robots.txt`, as pages are. `endpoints_truncated` (`reporters/json.go:57`) stays false when the link walk stopped at the cap.
* *Findings.* Which of several black-box findings a white-box one is paired with follows arrival (`correlator.go:262`). `preferChain` compares with
  the group's primary, so that with three members the chain kept depends on their order. On a hybrid scan the correlator drops the identity of imported
  findings. An import that shares category, place and title with a native finding lends it its corroborating tools
  (`provenance.go:130`). The branch of `correlateWithMarks` for one-sided input is not reachable from `Run`.
* *Managed client.* The export refuses imported findings that name no analyzer, and with them the whole document. `managed submit --timeout` is the
  "total budget for obtaining a decision" but covers only the wait, not the retries of the submission, and a request begun before the deadline may
  answer after it. The artifact's hash includes how long the analyzers took, so that a repeated scan of one commit conflicts with the first.
* *Integrations.* `fendix jira --help` names the label `fendix-id:`, the code `fendix-fp:` (`cmd/fendix/jira.go:33`). The notifier's window lasts as
  long as its process, so it never spans two runs of the command; within one a failed post is not tried again, and of findings that
  share an id only the first is sent. Two syncs that overlap create an issue twice.

## 8. What is not modelled

* The texts that analyzers and rules match, parsing and taint analysis. Of a check's answers the models have the traits they show; of scanners and
  analyzers whether there was work and how it ended.
* Rendering: reporters, messages, SARIF output, comments; the reasons and lineage of a decision.
* Wall-clock time, beyond "the deadline passes" and "the token is inside the leeway".
* `Reset` and `SetMaxRequests` of the budget between scans of one process: the command line tool runs one scan.
* In the history: globs of ignore rules. Its severity caps, escalation, folding and the decision are in `Findings`.
* Plugins and the offline snapshot are one stage or one flag with its outcomes.
* Single-shot commands, metrics, benchmark, the catalogue and the network guard: no state, no concurrency.

## 9. Plan

The order follows the importance of the behaviour. Done: 1 the pool with its abstract service and proofs; 2 the server around it
with proofs; 3 the token cache with proofs; 4 the sweep and the budget with proofs; 5 the Python engine and the
pipeline with proofs; 6 the history of suppression with proofs; 7 evidence, correlation and decision with proofs; 8 the black-box checks with proofs; 9 the crawler with proofs; 10 the managed client
with its proof; 11 the integrations with the proof for issues.

Next:

12. `DepScan`: OSV batches under a semaphore, the cache, partial failure, and fallback; the outcomes that `ScanPipeline`
    takes as given, shown to be implemented.
13. The sweep as an implementation of the stage `Sweep` of `ScanPipeline`, and of the job of `WorkerPool` as a check of `Probing`,
    in place of the two assumptions.

