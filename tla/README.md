# Verification of the SDT sitter and of its bench

The repository has one program and a bench around it. The program is the Zotero
plugin `plugins/sdt-sitter`: a scheduler that keeps a census of every attachment
of a library and, one at a time, has Zotero's native worker extract a
structured-text pack from those that lack one. The bench (`bench/`, Python)
drives search targets, a running Zotero and measurement programs, and says what
they did; it is the larger part of the code and, since its verdicts are what is
published, a wrong one is a defect like any other.

File names below are relative to the repository root; `S:` is
`plugins/sdt-sitter/scheduler.js`, `B:` is `plugins/sdt-sitter/bootstrap.js`;
Python files are under `bench/`.

## 1. Inventory

### The plugin

| component | state it keeps | operations | talks to |
|---|---|---|---|
| sitter scheduler (`createSDTSitter`, S:45-523) | `observed`, `counts`, `scanned`, `total`, `censusSnapshot`, `dirty`, `failed`, `reconciliationPending`, `epoch`, `enabled`, `busy`, `phase` | `pump` (census, drain, admission, settlement), `stop`, `start`, `invalidate` | the host object, by awaited calls |
| inspection and parent map (B:3621-3775, 3906-3935) | `parents`, `children`, `seen`, `versions` | `inspect`, `affected`, `parentOf`, `list` | Zotero's items, database, disk; the cache and the hashes |
| notifier callback (B:3981-3991) | none | drop, or enqueue and wake | `invalidate`, `wakeSDTSitter` |
| switch (B:1203-1267) | `pulse`, `timer`, `heartbeat`, `sweepGeneration` | arm, disarm, toggle | `start`, `stop`, the timers |
| sweep loop (B:831-1024) | `timer`, `nextSweepAt`; what each suspended `sweep()` remembers | one sweep and its rescheduling, wake | `pump`, the timers |
| lifecycle (`startup`, `initialize`, `shutdown`, B:3203-4072) | `generation`, `activeToken`, `alive`, `sealed`, `booting`, `sitter` | start, come alive or stand down, shut down | the host's startup promise, the self-check, the switch |
| resource gate (B:3815-3904) | none (reads procfs, disk, the worker) | `blocked`, `beforeSubmit` | the scheduler's admission |
| pack cache and its file (`createSDTCache`, B:3397 `saveCache`) | entries, samples, pending journal lines, `compact` | lookup, observe, prune, append, compact, load | `inspect`, `censusComplete`, `observed` |
| source hashes (`createSDTSourceHashes`, S:592) | memoised hashes with their age | get, prune | `inspect` |
| records without a file (B:3466, 3506) | the view `unattached` | full walk, targeted refresh | census, drain |
| coverage figures (`getSDTCoverage` B:1054, `fillSDTNotIndexed` B:1576) | none | read-only, on every render | the scheduler's state |
| removal watch (B:690-771) | `removalNoticed` | heartbeat, check, notice | the timers, `stop`, the interface |
| announcer, toast, window, tooltips (B:875-947, 2515-2590, ...) | `sweepToastHeld`, the dialog's rows | announce, render | the scheduler's state |
| estimate, event journal (S) | samples; a bounded ring | estimate, emit | the window |

JavaScript runs one stretch at a time, so every hazard sits at an `await`: the
pump is suspended while a notification arrives, the switch is thrown (and thrown
back), the library changes under what was just read, the hour comes round, or
the plugin is shut down and started again. `state` is shared with the window,
which renders between any two stretches. A host call may throw. The native worker
cannot be cancelled, and may persist a pack and still fail. Nothing the scheduler
keeps outlives the session; only the cache file does.

### The bench

| component | state it keeps | operations | talks to |
|---|---|---|---|
| acceptance layer (`acceptance/assertions.py`, `durability.py`, `run.py`) | one arena per assertion, an in-progress marker, the verdicts | the twelve assertions, `record`, `retain`, `assess`, `run_fixtures` | a target through its verbs; a tracer and a sandbox |
| identity boundary (`acceptance/posture.py`, `sandbox.py`) | none | resolve the account, relay the command under sudo, re-invoke under a tracer | the driver, the target's processes |
| adapters (`acceptance/adapters/*.py`, `mcp_drive.py`) | the arena's files, the process group, the pin | `build`, `running`, the verbs, the stop loops | five real targets; the fixtures of `stubs.py`, each with one defect |
| matrix sweep (`sweep.py`) | one result file per cell, vectors files, the claims on bytes | `run_sweep`, `measure_cell` | the drivers of one cell, the model registry |
| debugger client (`zotero_rdp_client.py`) | the socket, kept packets, the console actor | connect, request, wait, evaluate | a running Zotero |
| test rungs (`sitter_smoke_test.py`, `sitter_clone_rung.py`, `sitter_menagerie_test.py`, `sitter_refusal.py`) | evidence, the spawned Zotero | scripts of steps with deadlines and refusals | Zotero, the sitter, the disk |
| store integrity (`sitter_integrity.py`) | baseline, last snapshot, declared edits | settled snapshots, segments | the data directory |
| volume experiment and watcher (`sitter_volume_experiment.py`, `sitter_watch.py`, `host_addon_record.py`) | the last record read, the expected absence | refuse, launch, install, disable, remove; poll and alert from a thread | the add-on manager's record, the debugger client |
| version guard (`check_sitter_version.py`, `forge_open_prs.py`) | one checkout, the findings | compare the release entry, the history, the open requests | git, the forge, the other lanes that push |
| stall probe (`sdt_stall_probe.py`) | the journal read once, the snapshots | read heartbeats, sample `/proc`, judge | the worker's process, two clocks |
| clone and pending-uninstall arm (`sitter_clone_data.py`, `sitter_pending_uninstall_arm.py`) | the copy; what each arm has shown | look, copy, look again; install, queue, install, restart | Zotero and its lock; the add-on manager |
| golden fixture (`fixtures/golden_fixture.py`) | the library, the local cache, the published snapshot directory | inject, retire, export | Zotero's API, the full-text plugin |
| fixture sources (`fixtures/fetch_recipe.py`) | the cache directory | validate, fetch, check pins | archives on the net |
| red states (`redstate.py`, `golden_run.py`) | one checkout, bundles and deltas | run an arm, rescore, read | git, npm, a server |
| golden gate (`golden_gate.py`) | none | locate, judge, aggregate, gate | banks, exports, replies |
| library bench (`generator/scope.py`, `sample.py`, `questions.py`, `run.py`, `score.py`) | kept listings, the draw, the artifact | serve pages, draw, write questions, ask, report | Zotero's API, a target, a writer process |
| repository checks, measurement scripts, recorded results | -- | one pass over files | -- |

Its hazards are processes that die or outlive their launcher, files left by a
run that was killed, reads made request by request of a library people use, a
thread that polls beside the code that acts, a step of a cleanup that fails, and
a verdict taken from something other than what it names.

### What makes each component correct

* scheduler: no notified change is lost; the live counters are those of the
  observed map; a published snapshot is one generation; a document reaches the
  native worker only under the identity and directory its gate was asked about,
  never twice for nothing; a pump rests only when nothing is left to drain; what is
  shown converges to what is; the queue empties.
* sweep loop, switch, lifecycle: one sweep chain while armed, none while paused;
  the activation that lives is the last one started, whole.
* acceptance: a red is earned by the target and a green by a look at it; nobody
  loses an arena to another run; no target runs as the operator; nothing of a
  target outlives its lifecycle; a report says what is so.
* sweep: every cell is settled once, no two of the same bytes are both measured,
  and figures compare the vectors they say.
* client, rungs, watcher: an answer is the answer to its own request; a pass has
  accounted for everything that moved; the instrument does not make what it
  watches for.
* guard, probe, clone, arms: a version that is passed is nobody else's; a cause is
  named only where it is the right one; a copy is of one moment; the host is blamed
  for the fault it has.
* fixture, red states, gate, library bench: what is published is of one moment and
  of the pinned bytes; a shared checkout is put back; what gates reads only what
  it may; an artifact is of the index that was asked.

`PROJECT.json` lists the hazards line by line, with the properties that watch each.

## 2. Modules

| module | what it is |
|---|---|
| `SDTStatuses` | the status vocabulary (S:1-36) and what one inspection can answer |
| `SDTScheduler` | `createSDTSitter`, the host calls it awaits, the switch, the notifier, the library outside |
| `SDTCoverage` | the window's figures as functions of the scheduler's state |
| `SDTSitterStates`, `SDTSitter` | what `stop`, `start`, `invalidate` and `pump` promise their callers, and that promise as a specification |
| `SDTSitterRefinement` | the mapping under which `SDTScheduler` implements `SDTSitter` |
| `SDTPackCache` | what `inspect()` remembers: the pack cache, its file, the source hashes, beside a library that changes and a host that dies |
| `SDTLifecycle` | activations, switch, sweep loop, wake-up and removal watch, over one sitter of `SDTSitterStates` per activation |
| `AcceptanceTarget` | a target with its background worker and its defect (`stubs.py`) |
| `AcceptanceChecks` | the assertions as scripts of calls on that target, run by `record()`, with instrument failures |
| `AcceptanceArena` | concurrent runs of the driver on one base arena |
| `AcceptancePosture` | which identity each process of a run has |
| `AcceptanceHosts` | build, lifecycle, verbs and stop loop of the five real targets |
| `SweepLedger`, `BenchSweep` | what a sweep promises of its results directory, and `sweep.py` with kills and resumes, which implements it |
| `RdpClient` | the debugger client under late, rejected and overtaking packets |
| `SitterIntegrity`, `SitterRungs` | snapshots and segments; the three rungs as scripts beside a host that goes on working |
| `SitterWatch` | the experiment's driver and the watcher's thread over the add-on record |
| `SitterVersion` | the version guard in one lane, while the others push, open and close requests |
| `StallProbe` | the journal's heartbeats, the samples of a process, and the verdict |
| `SitterInstall` | the copy of a data directory beside Zotero; the pending-uninstall arm and its control |
| `GoldenFixture` | inject, retire and export beside the people who use the library |
| `FetchRecipe` | the recipe's rules and the fetching of its sources |
| `RedState` | the red-state harness with every step failing |
| `GoldenScore` | validating a bank and scoring replies |
| `ScopeProxy`, `GeneratorSample`, `GeneratorRun` | the library bench: its proxy, its draws, its runs |
| `MC...` | the instances; `MCSDTSafety`, `MCAcceptance` and `MCBench` each put parts that share no state side by side, of which a behaviour moves one |
| `..._proofs` | section 5 |

### How `SDTScheduler` corresponds to the code

The variable `pc` says where `pump()` stands. Control is split exactly at the
awaits: a stretch between two awaits is one action, or a few whose intermediate
points are in `OnStack`, where no other actor may move. A host call that reads
the world takes two actions: one that reads (`ListRead`, `WalkRead`, `DrainLook`,
`AdmitLook`, `SettleLook`, `FailureLook`, `DrainExpand`) and puts the answer in
`buf` or `todo`, and one that continues after the await with what was read and
its own test of `current()`; the world may change in between.

| code | model |
|---|---|
| census, S:153-205 | `BeginCensus`, `ListRead`, `Listed`, `WalkRead`, `WalkRecord`, `CensusClose` |
| drain, S:206-335 | `DrainBegin`, `DrainTake`, `DrainExpand`, `DrainLook`, `DrainRecord`, `DrainRetire`, `DrainEnd` |
| admission, S:336-413 | `ChooseCandidate`, `NoCandidate`, `GateOpen`, `GateShut`, `AdmitLook`, `AdmitSkip`, `AdmitMoved`, `AdmitWorkerBusy`, `Submit`, `AdmitAbandon` |
| settlement, S:414-508 | `EnsurePersists`, `EnsureReturns`, `SettleLook`, `SettleSuccess`, `FailureLook`, `SettleFailure` |
| catch, finally, S:510-520 | `PumpCatch`, `PumpReturn` (a host call that throws: `HostThrows`) |
| `record`, `publish`, `classify`, `affected` | `Record`, `Publish`, `Classify`, `Affected` |
| `!state.enabled`, `token === epoch` | `Current`; every `if (!current()) return` is `Abandon`, in the drain `Requeue` |
| disarm, arm, notifier | `Stop`, `Start`, `Notify` |
| the library, the disk, the user | `AttachmentChanges` (with or without an event), `AttachmentAdded`, `AttachmentErased`, `RecordGoes` |

Abstractions (each allows more than the code does, or leaves out what no property tells apart):

* The identity of an inspection (key, hash, processor versions) is the version of
  the source file. It is per document in the code too (library and key are part
  of it), so `failed` holds pairs of id and version. Identity 0 is "none".
* A map entry that is absent is `NoInfo`; `attempted` is 0 for an item not tried.
* `find()` takes the first admissible candidate and the drain the first event;
  the model takes any.
* The drain's wall-clock budget may run out after any retired id, and never
  before one is retired, which is what the code's `retired > 0` says.
* `inspect()` is one atomic read. It has awaits of its own, but what it answers
  is what a read at one of them would have answered; a change between them is a
  change before, or after, the read. The time from the read to the use is kept.
* The pack classification inside `inspect()` is the status the library happens
  to have; `SDTPackCache` has the reading of the pack, cut at its awaits.
* An inspection answers or throws. Any one may throw, at any of its call sites (the
  census, the drain, the gate, the two after an extraction) and for that once, with the
  library as it is: a query, the path, the hash or the stat refused it. The scheduler
  catches it (S:101-110) and takes `inspection-error`, without an identity, for the answer
  (`Look` is `LookAnswers` or `LookThrows`, `InspectThrown`); it may have thrown before or
  after the parent map was written. `misread` is the set of items whose last inspection
  threw and that no event has named since.
* `HostThrows` covers `list()` and `affected()`, the two awaited calls outside a guard
  that can meet a database error; `unattached()`, `refreshUnattached()`, the save of the
  cache and the resource gate contain their own errors.
* `unattached()` and `refreshUnattached()` are kept as awaits; their view is not.
* A document does not move from one record to another (`ParentOf` is a constant).
* The sweep timer is "the pump is called again while it is on", which is what
  `SDTLifecycle` shows of it (`KeepsSweeping`); the hour is an event that may come
  at any await.
* Durations, samples, progress, titles and journal records are left out.

### How the two levels fit together

`SDTScheduler` is one activation's sitter and knows nothing of timers or
shutdown. `SDTSitter` is what it promises in the vocabulary of its callers:
`enabled`, `epoch`, `busy`, the token of the pump under way, whether anything is
left to drain or a census is asked for (`backlog`), whether `state.pending` holds
anything (`queue`), the kind of the phase, the reconciliation deadline
(`nextRec`). A pump under way may move what is its own; when it returns, it is at
one of the four places `AtRest` lists, or a stale one. `View` maps the
scheduler's variables to those fields, and `SitterPromise` says that every step of
the scheduler is a step of `SDTSitter` or none. `SDTLifecycle` uses the same
operators (`Stopped`, `Started`, `Notified`, `PumpStarted`, `PumpReturned`) for the
sitter of every activation, so what it shows holds of the real scheduler.

### How `SDTPackCache` corresponds to the code

| code | model |
|---|---|
| `createSDTCache`, S:527-569 | `Drop`, `Remember`, `Checked`, `Hit`, `Prune`, `Changes`, `Saved` |
| `createSDTSourceHashes`, S:592-612 | `Trusted`, `HashKnown`, `HashComputed`; `prune` and `drop` in their callers |
| `inspect` from the stat of the source on, B:3665-3743 | `StatSource`, the hash, `StatPack`, `ReadPack`: one action from each await to the next |
| `list`, `censusComplete`, `observed`, B:3906-3941 | `List`, `CensusComplete`, `Observed`; `CensusCut` for a census the pump abandons |
| `saveCache`, B:3397-3435 | `Save`, then `WriteLands` or `WriteFails` |
| `initialize`, B:3341-3368; `shutdown`, B:4000-4147 | `Load`; `Shutdown`, `Uninstall` |

* A pack is the source, the versions and the text a reader finds in it, with a
  fingerprint that is new at each write. Two awaits lie between the stat that takes
  the fingerprint and the bytes that are read, and the library may change at both.
  The statuses of a pack of another source, processor, version or schema are one,
  `stale`: the cache does the same with all of them.
* A source may be rewritten in place under the same size and mtime, the blind spot
  the comment at S:584 names. `memo` therefore keeps two ages: `age`, from
  `verifiedAt`, which the code tests, and `unread`, the ticks since the bytes were
  really hashed, which it cannot see.
* The file is what reading it gives for rows of each version, whether its last line
  is cut short, whether a line was broken, and which activations have written to it
  since it was last replaced. Compaction goes through a temporary file and is all or
  nothing; an append that fails leaves any of its rows, the last perhaps cut, and a
  row appended to a line cut short is part of that line: it is lost, although
  `saved()` calls it clean.
* `chained` is `Zotero.SDTPackSitterCacheWrite`, which outlives the activation: `Load`
  waits for the write it names. `Uninstall` deletes it and the file, and a write
  under way goes on. `HostDies` stops everything but what the disk was handed,
  which lands or does not before the next start.
* A shut down activation's pump may finish its inspection; what it remembers is in
  a cache nobody reads, and its save returns at once, so neither is kept.
* Sizes, pages and samples of a record, and a stat of the source that fails for
  another reason than absence, change nothing here and are left out.

### How `SDTLifecycle` corresponds to the code

| code | model |
|---|---|
| `startup`, B:3203-3220 | `Startup`, `BootFires` (its `setTimeout(..., 0)`) |
| `initialize`, B:3251-3999, cut at its awaits | `HostUp` (the host is up), `SelfChecked`, `UIReady`, `MetadataRead`, `CacheRead` (the rest, up to arming) |
| `shutdown`, B:4000-4072 | `Shutdown` |
| `armSDTSitter`, `disarmSDTSitter`, B:1203-1250 | `Arm`, `armSDTSitter`, `disarmSDTSitter` |
| `createSDTSweepLoop`, B:997-1024 | `SweepFires`, `PumpReturns`, `SweepEnds` |
| `nextSweepDelayMS`, B:831-838; `announceSDTSweep`, B:875-947 | `nextSweepDelayMS`, `Announce` |
| notifier and `wakeSDTSitter`, B:3981-3991, 840-846 | `Notify` |
| heartbeat, removal check, `noticeSDTRemoval`, B:690-771 | `heartbeatTick`, `CheckEnds`, `CheckFails`, `noticeSDTRemoval` |
| the add-on manager | `HostTurnsOff`, and when `Startup` and `Shutdown` may come |

* An action is one turn of the event loop. The promise of `pump()` settles at the
  end of a turn, and the loop's `finally` runs as a microtask of that same turn;
  the conjunct `Task` says that nothing else does. A notification Zotero delivers
  from a microtask of its own (a transaction's continuation) could still come
  between the two: `MicrotaskCallbacks` allows it. All runs set it to TRUE, and the
  theorems hold for both values. `cleared` marks a timeout whose setting cleared a
  sweep of the current loop (`Scheduled`): the wake-up such a notification had set.
* Every timeout carries what its closure holds (token, sweep generation); `timer`
  is the binding, `orphans` are timeouts still pending that no binding reaches,
  because `timer` was overwritten. A dead timeout fires and finds itself stale.
* Delays are the four classes the code tells apart: now, the sweep interval, the
  idle interval, the hour. Time itself is not kept; a timeout fires when it fires.
* Startups may overlap: the host may start the add-on again while the first
  `initialize()` is suspended. A timeout of no delay fires in order of setting, and
  continuations of one promise run in order of awaiting. An `initialize()` may
  throw, or be refused, in either stretch after the interface is up.
* Each activation has its sitter, never reused; of one torn down only `busy` is
  kept, for the pump that may still be under way. Its observer, should the host
  fail to unregister it, is called like the others.
* Rendering, the dialog's rows and the words of the toast are left out; the sealed
  journal is the flag alone.

### How the bench's modules correspond to the code

Every Python module follows one pattern: a program that runs from top to bottom
is a record with a field for where it stands, and an action takes it from one
point at which something else can happen (a call to another process, a wait, a
write to disk) to the next, with everything the code does in between. What runs
beside it (a worker, a host application, a user, another run) has actions of its
own, enabled at each of those points. `PROJECT.json` "map" names the lines of each
definition.

* `AcceptanceChecks`: an assertion is the list of the calls it makes, in the order
  of its function body (`Script`), and its verdict a function of what they
  returned; the target's worker moves between any two. An instrument failure is a
  value of `fault`: which call raises, lies or is refused. The twelve verdict
  rules are the conditions of the source, in its order.
* `AcceptanceArena`: the actions of one run are `Launch` (the name by the second),
  `PreviousRuns`, `Candidates` and `Prune` (`retain`, one `rmtree` a step), `Mark`,
  `AssessOne`, `Return`; `Kill` at any point.
* `AcceptancePosture`: a process is its identity and what it runs under; `sudo`
  refuses where the machine has no rule and under a tracer.
* `AcceptanceHosts`: a lifecycle is `build()` (against the pin), what `running()`
  writes, the spawn, the wait for readiness, the verbs, the stop loop. Launcher and
  application are two processes of one group that exit when they like.
* `BenchSweep`: a campaign is a plan of cells taken in order; `Resolve`, `Claim`, the
  reps of `MeasureCost` and `MeasureRecall`, the embeddings of `MeasureFidelity` with
  the vectors files they write, and the write of the cell's file are steps, and
  `Crash` comes between any two.
* `RdpClient`: each packet of the protocol, numbered by the model only; the server
  answers its actors independently; a timeout poisons the connection.
* `SitterRungs`: `Scripts` lists the steps of each rung; an action waits for what its
  step waits for, ends as its deadline ends, and declares what it declares; the
  sitter and Zotero act between (`Host`). A command line the rung has no use for
  ends it before its first step (`Misused`).
* `SitterWatch`: two clocks: the manager acts at once, its record is written later. A
  run starts from any of `Setups`, may be refused (`Refuses`), and fails where the
  library cannot be imported or the sitter never answers (`Import`, `Liveness`); a
  call that reports a failure changes nothing (`Attempted`), and a debugger that is
  lost costs the cycle and not the run (`LosesDebugger`).
* `SitterVersion`: commits are numbered in the order of the repository, and a lane's
  past is the set of those it descends from; a manifest's version is its text and the
  number it parses to. Rules 1 and 2 are one stretch (`Local`); rule 3 is one request a
  step, with the other lanes moving in between, and each may fail (`CannotLook`).
* `StallProbe`: time goes by half intervals of the heartbeat; a thread's CPU is counted
  whether it lives or not, and what the probe sees of it is `snapshot`.
* `SitterInstall`: two scripts of steps, each of which may fail or be killed, beside a
  Zotero that starts and quits, and a host with either fault or none.
* `GoldenFixture`: items have versions, bodies the content they were extracted
  from; export reads row by row, then swaps directories by two renames.
* `FetchRecipe`: a file is what it holds; a download writes `.partial`, is checked,
  and is renamed.
* `RedState`: checkout source and build are the sets of patches they carry; each
  call to git, npm or the server may fail.
* `GoldenScore`: texts are sequences of words and page breaks; a reply is a list of
  results; the definitions are the scoring functions, and the four steps of a run
  load, judge one reply, evaluate, exit.
* `ScopeProxy`: a listing is fetched chunk by chunk, each chunk by the pages of
  Zotero's answer, kept, and served by slices, by threads that overlap, while the
  library gains, edits and loses items; a set of keys is read in one fixed order. `GeneratorSample`: a draw takes any pair of the neediest
  cell. `GeneratorRun`: settings, status, stamp and index of a target that outlives
  the run.

Definitions introduced by a comment "Wrong:" or "Mutant:" stand just before the
one they get wrong. They are the plausible bugs each property is tried against:
substituting one makes TLC report that property.

## 3. Runs

Runs are few, and each asks several questions of one instance.

| run | instance | question |
|---|---|---|
| `scheduler_safety` | 2 attachments (one under a record), 1 upset, 1 pause; apart from it, 1 document, 1 change of its files, 2 activations | types, counters, whole generations, paused says so; memory that stands up, a file that follows it |
| `scheduler_views` | 1 attachment under a record, 2 directories, 2 upsets, 1 pause, two gate reasons | no lost change, submissions, verdicts, rest points; known figures add up; the scheduler keeps `SDTSitter`'s promise |
| `scheduler_liveness` | 1 attachment, 2 upsets, or 1 and 1 pause, fair | `Converges`, `QueueEmpties` |
| `lifecycle_activations` | 3 startups and shutdowns, 1 pause, 1 removal check, fair | one chain, a whole activation, one sitter on, no false removal, wake-ups kept, sweeping goes on |
| `acceptance_checks` | below | the acceptance layer, the library bench, the version guard |
| `bench_parts` | below | the other parts of the bench |
| six more | small | statements of comments that the code does not keep (section 6) |

**Bounds of the plugin's runs.** `MaxUpsets` bounds the changes of the library and the
inspections that throw, together, `MaxStops` the pauses; pumps, censuses, notifications, hours and host failures are
unbounded. Two attachments are the least for a census to be half way, for a
document to be extracted while another waits, and for a record's event to touch
one of them. A lost change needs one change racing one read; two changes let one
event be pending while the next is being drained, and `RestsDrained` needs two, so
that a budgeted drain leaves a backlog. A document extracted twice needs a
settlement, a pause or an upset, and a second pump, all inside the bounds: one upset
makes the inspection after its failure throw, or that of a drained event, and a second
lets the document change as well. A document moved between its gate and its submission
needs two directories and one change; the directories differ by name only, so that run
starts in one of them. The fair run bounds upsets and pauses together by
`MaxDisturbances`, none of which `Fairness` promises: a document whose failure was not
examined is extracted again, held at last, and the queue empties.
`MaxGeneration` bounds startups and shutdowns together, because both burn a token;
three is the least for an activation that is shut down and started again while the
first `initialize()` is suspended. One pause is enough for a suspended sweep to
outlive it and meet the next arm's chain. The theorems hold without these bounds.

**Bounds of the cache's part.** `scheduler_safety` starts either as the scheduler or as
the cache (`MCSDTSafety`): the two share no state. One document is enough, because
every operation is of one key but `prune`, which takes a set, and the file, whose
rows are by key. `Writes` bounds the changes of files: one lets the pack be written
between its stat and its reading, or the source in place between two inspections.
`Activations` = 2 lets a write of the first land in the second. `MaxAge` = 2 ticks
makes young, old and too old three ages. Contents and versions differ by name only,
so the initial ones are fixed. Both theorems hold without these bounds.

**Bounds of `acceptance_checks`.** Sixteen fixtures by twelve assertions by
thirteen instrument failures, over a library of two items of two sections; four
runs of the driver on one base arena that keeps one, with two assertions each (a
run is pruned only by a third, and killed runs are a fourth); every command of the driver,
under both postures, with and without account and sudo rule; five targets of every offered file for up
to three lifecycles, because the schema stamp of a foreign index needs two
restarts. Two readers and one change of a library of three records with two children, in chunks of two keys
and answers of three rows (a listing that changes between chunks or within one, fetched again by
the other reader); six
wanted rows from a frame that has fewer; two runs of the library bench over one
target, with two embedders of which the registry knows one. For the version guard two
lanes beside its own, three payloads of which two claim one version, requests
listed one a page (two pages are the least between which one is closed), and a room of one
to three commits, the first and those that race the guard; each form of clone, release entry and manifest
by itself, because each decides an exit of its own. An assertion that stops short of a
verdict would deadlock, so deadlock is checked.

**Bounds of `bench_parts`.** Five campaigns over one model whose q8 and int8 files
are the same bytes, three runs of each (killed, resumed, killed); rungs over two
imported and two restored attachments; six requests, which is three calls of
`eval_js` when the first attaches; two commands and one outside event over the
fixture, of whose two documents the second has a text and only the first may be a failure control (both have each
role in the theorem); two commands of the red-state harness over a build arm, its control, a
reply arm and one not runnable; every list of up to three results of seven against
a bank of three questions; two fetches of each recipe.
For the stall probe two threads
(one may exit in the window and the other be born in it), loads below, between and
above both bands, a wall clock set once by less than an interval, by one, by more, or
forward, four heartbeats, and a window of two half intervals, of whose samples only the ends decide.
For the clone three files, two launches, two writes and two invocations: a torn copy
needs a write between two files, a mixed one a directory an earlier invocation left.
For the arm two looks, the least after which the dwell has ended early or run out.
Deadlock is not checked: each part ends.

**Fairness** (`FairSpec`). Weak fairness of the pump's steps: a JavaScript
continuation runs once its promise settles, and every awaited host call settles.
Weak fairness of `PumpStart`: `createSDTSweepLoop` reschedules itself in its
`finally` for as long as the sitter is armed. Strong fairness of `Notify` and
`HourPasses`: they are enabled at every await but not at the points between, and
the event loop does not starve a callback or a clock. Strong fairness of
`ListRead`, `DrainExpand`, `GateOpen` and `Submit` is an assumption on the
environment: the database does not fail every time it is asked, the disk and the
processor are not for ever short, the worker is not for ever taken. Without it
the code polls and promises nothing. No fairness is put on the library, on the
switch, or on what the native worker answers.

In `SDTLifecycle.FairSpec` timeouts fire, the host's startup promise and every
other await of `initialize()` settle, and a pump returns. The last is what
`SDTScheduler` gives under its own fairness as long as the native worker answers;
nothing is assumed of the host, the user, the hour or a notification.

No fairness is assumed of the bench: its liveness is a deadline on each wait, which
the models take as a step that may come at any time.

`Converges` covers changes nobody notified, through the hourly census: the mutant
that drops the deadline breaks it.

## 4. Properties

Of the plugin:

* `CountsTally` -- outside a census `counts` is the tally of `observed`: `record()`
  decrements what some earlier record or census counted, whatever was erased or
  cut off in between.
* `SnapshotOneGeneration` -- a snapshot with members has the counts and the total
  of those members.
* `NoLostChange` -- at every await, an attachment whose record disagrees with the
  library has its correction on the way: a census asked for, an event, an
  inspection still to be made, or the right answer in the pump's hands; or it is shown as
  `inspection-error`, its last inspection threw, and no event has named it since. (Changes
  that produce no event are the hour's business.)
* `PausedSaysSo` -- no continuation writes its phase over `switched-off`.
* `VerdictRecorded` -- a document settled is not pending under the identity it was
  submitted with, unless the library changed since, or the inspection after its failure threw.
* `RestsDrained` -- a current pump comes to rest on an empty queue or a resource
  wait only with no event undrained and no census asked for.
* `AdmissionSound` -- an action property of every submission: current pump, census
  closed, same identity and directory as the gate saw, not held as failed, not
  submitted before without a change of the library, but for a failure that no inspection
  could examine. `submitted` forgets at a change and at such a failure, at nothing else.
* `Converges`, `QueueEmpties` -- liveness, over inspections that throw as well.
* `WholeCoverageAddsUp` -- known figures add up once a census has finished.
* `SitterPromise` -- refinement: `SDTScheduler` implements `SDTSitter`.
* `MemoryStandsUp` -- a verdict given from memory is the one reading that pack would
  give, and the source hash it goes by is of bytes read inside the trust window.
* `FileFollowsMemory` -- with nothing left to write, a file only this activation wrote,
  without a broken line, reads back as the cache.
* `OneChain` -- at the end of every turn, of the timeouts pending and sweeps suspended
  exactly one will go on while armed, and none while paused.
* `ActivationWhole` -- what lives is the last activation started, unsealed and past
  its boot wait, whatever overlapped it.
* `OneSitterOn` -- the sitters of all activations together: the running one's is on
  exactly while its intervals run, and every other one is off.
* `NoFalseRemoval` -- a removal is noticed only of an add-on the host turned off.
* `WakeKept` -- a sitter at rest that owes a drain or a census has a sweep set, within a
  sweep interval unless setting it cleared the wake-up of a microtask.
* `KeepsSweeping` -- an armed sitter is pumped again and again.

Of the acceptance layer, the library bench and the version guard (`acceptance_checks`):

* `FixtureMatrix` -- with a working instrument each assertion is red on exactly the
  fixtures built for it, whatever the target's worker does between two reads.
* `VerdictsEarned` -- no instrument failure hides the defect an assertion is about
  (`GreenLooked`), and none is a red, outside the windows section 6 names
  (`RedIsEarned`).
* `RunningKeepsArenas` -- a run that is assessing loses no arena to another.
* `NoTargetAsOperator` -- no target process runs as the operator, across relays and
  re-invocations, unless the operator said that the machine is the boundary.
* `StopsWhole` -- where the group is known when the stop begins, nothing of a target
  outlives its lifecycle.
* `ReportsTrue` -- a pin reported as checked is the pin of what runs, and nothing the
  harness wrote is residue.
* `PagesOfOneListing` -- a reader that comes to the end of its pages has each row of
  one listing once, unless another thread replaced it meanwhile, and misses only what
  the library did not have, unless the listing was torn between two pages of one answer.
* `ShortMeansExhausted` -- a draw that ends short has used up its frame.
* `ArtifactOfItsIndex` -- the artifact names the embedder of the index that was asked.
* `OkIsUnclaimed` -- a version the guard passes is carried with another payload by no
  revision its tree descends from, and by no request that stayed as it was while the
  guard looked, if every request was listed and asked; a lane told of a collision is
  offered a number nobody read has taken.

Of the other parts (`bench_parts`):

* `CampaignSound` -- a sweep that returns has settled and counted every cell once
  (`ReturnLeavesNoGap`); a duplicate names a cell of the same bytes that was attempted
  (`OwnerAttempted`), and the figures of a cell compare vectors of its own device and
  corpus (`FiguresHaveMakers`).
* `SettlesOnce` -- refinement: `BenchSweep` implements `SweepLedger`.
* `OwnAnswers` -- no call is handed a packet of another call.
* `RungsSound` -- a rung that passes saw nothing move but what was permitted or
  declared, although each segment was judged on its own (`PassAccountsForStores`); the
  Menagerie passes only with every attachment accounted for and nothing left behind
  (`MenagerieComplete`).
* `SnapshotOfOneMoment` -- the texts of a published snapshot are those Zotero held at
  one moment, and the documents without one are the declared controls.
* `ForkRestored` -- however an arm ended, the checkout carries no patch unless the
  cleanup itself failed.
* `EvidenceGatesNothing` -- blanking all evidence never changes what the gate says.
* `CheckedUnderItsName` -- a file under its cache name passed the checks of its source,
  which a body cut short above the least size passes.
* `ProbeIsRight` -- "wedged" is said of no process that works, by a thread that has
  exited or by reads of either layer; "slow-tail" only of one that does; no interval a
  tick fell in corroborates a plateau, whatever the wall clock was set by; and of the
  intervals counted quiet at most the one it was set back in, by less than its length, is not.
* `ShowsWhatItSays` -- a recorded copy is the library of one moment, unless Zotero came and
  went between the two looks; and the rig's verdict blames the host's fault, but for the
  failed steps section 6 names.

## 5. Proofs

Each theorem is of the specification, for every value of the constants, from the
named assumptions of its module alone: `ConstantsAssumption` (finite sets of ids,
attachments and records distinct, statuses known), `BoundsAssumption`,
`RequestsAssumption`, `LifecyclesAssumption` and their like. They say of the inputs
what the code is handed: lists are lists (`ArmsAssumption`, `CampaignsAssumption`,
`DocsAssumption`, `RecipesAssumption`, `BundlesAssumption`), a census and an import are finite (`SampleAssumption`,
`ImportedAssumption`), the library of the bench is finite and its chunks, answers and
slices are of a row or more (`ListingAssumption`), the other account is not the operator's (`AccountAssumption`),
no embedder is called "none" (`EmbeddersAssumption`), a kind of cell has a rep to do and
a published file a content (`CellsAssumption`), the golden policy is one that
`load_thresholds` accepts (`ThresholdsAssumption`), a version parses to numbers and a page
of requests has one or more (`PayloadsAssumption`, `PagesAssumption`), the guard's lane
is not one of the others (`LanesAssumption`), and a process has finitely many threads
that compute for no negative time (`LoadsAssumption`). The bounds on runs, changes, pauses and
commands are arbitrary in every theorem.

| module | theorem | statement |
|---|---|---|
| `SDTScheduler_proofs` | `TypeCorrect` | `Spec => []TypeOK` |
| | `PausedPhase` | `Spec => []PausedSaysSo` |
| | `RestIsEarned` | `Spec => []RestsDrained` |
| | `SitterKeepsItsPromise` | `Spec => SitterPromise` |
| `SDTNoLostChange_proofs` | `ChangesReachTheCensus` | `Spec => []NoLostChange` |
| `SDTPackCache_proofs` | `MemoryIsTrue` | `CacheSpec => []MemoryStandsUp` |
| | `FileIsMemory` | `CacheSpec => []FileFollowsMemory` |
| `SDTLifecycle_proofs` | `TypeCorrect` | `Spec => []TypeOK` |
| | `AliveIsWhole` | `Spec => []ActivationWhole` |
| | `OneSitter` | `Spec => []OneSitterOn` |
| | `RemovalIsReal` | `Spec => []NoFalseRemoval` |
| | `OneChainAlways` | `Spec => []OneChain` |
| | `OwedWorkIsSwept` | `Spec => []WakeKept` |
| `SDTCensus_proofs` | `CountersAreOfTheMap` | `Spec => []CountsTally` |
| | `SnapshotIsWhole` | `Spec => []SnapshotOneGeneration` |
| | `EveryVerdictRecorded` | `Spec => []VerdictRecorded` |
| | `FiguresAddUp` | `Spec => []WholeCoverageAddsUp` |
| | `SubmissionsSound` | `Spec => AdmissionSound` |
| `AcceptanceChecks_proofs` | `VerdictsAreEarned` | `Spec => []VerdictsEarned` |
| | `FixturesAreTold` | `Spec => []FixtureMatrix` |
| `Acceptance_proofs` | `MarkedRunsKeepTheirs` | `ArenaSpec => []RunningKeepsArenas` |
| | `StopsLeaveNothing` | `HostsSpec => []StopsWhole` |
| | `ReportsAreTrue` | `HostsSpec => []ReportsTrue` |
| | `TargetsCross` | `PostureSpec => []NoTargetAsOperator` |
| | `ShortDrawsExhaust` | `SampleSpec => []ShortMeansExhausted` |
| | `ArtifactsOfTheirIndex` | `BenchSpec => []ArtifactOfItsIndex` |
| | `PagesAreOfOneListing` | `ScopeSpec => []PagesOfOneListing` |
| | `PassedIsUnclaimed` | `VersionSpec => []OkIsUnclaimed` |
| `Bench_proofs` | `AnswersAreOwn` | `RdpSpec => []OwnAnswers` |
| | `ForkAlwaysRestored` | `RedSpec => []ForkRestored` |
| | `CampaignsAreSound` | `Spec => []CampaignSound` |
| | `SweepIsLedger` | `Spec => SettlesOnce` |
| | `SnapshotsAreOfOneMoment` | `FixtureSpec => []SnapshotOfOneMoment` |
| | `RungsAreSound` | `RungsSpec => []RungsSound` |
| | `ExperimentsAreRight` | `InstallSpec => []ShowsWhatItSays` |
| | `ProbesAreRight` | `StallSpec => []ProbeIsRight` |
| | `NamesAreChecked` | `FetchSpec => []CheckedUnderItsName` |
| | `EvidenceIsUngated` | `ScoreSpec => []EvidenceGatesNothing` |

### The scheduler

`TypeOK` is inductive with `InHandOK`, which says that a continuation's locals are
set wherever it stands.

`NoLostChange` is not inductive, for four reasons. An observation may agree with
the library while the pump holds a stale answer about to overwrite it, or while a
census holds a stale one in the generation about to replace the map; so `Held`
asks of an attachment under inspection, or of any one during a census, that what
is in hand be right or corrected, whatever the map says. A pump that survived a
pause may drop what it holds; `StaleAsks` says that a census is then asked for,
because `start()` asked for one and only a current pump clears it. An event that
names a record reaches only the children the parent map or the database lists;
`TrackedSeen` says that an attachment outside the map while it exists was never
seen, or only by an inspection that threw, so that erasing it loses nothing. An event that
names an item ends the excuse of an inspection that threw; `NamedSince` says that of an
attachment outside the map the event is then still to be attended to, or nothing is left
that says it could not be examined. `GenerationOK` ties the generation being
built to the walk. Their conjunction, `ChangeInv`, is inductive under `TypeOK`;
the proof has one case per action, grouped in `Inspections`, `QuietSteps`,
`CensusSteps`, `RecordSteps` and `WorldSteps`.

`PausedSaysSo` and `RestsDrained` are inductive with `EpochOK` (a pump's token is
older than the epoch once the switch was thrown), `StackCurrent` and
`NoCensusAsked` (between choice and submission a current pump has no census due).

The refinement needs one more invariant, `RestInv`: a pump that is current and on
is not in the phase `switched-off`; what a pump found before it asked the gate is
still queued when the gate answers; and a pump stands at its exit only where
`AtRest` says, or stale. Without it a return from an arbitrary typed state would
not be a step of `SDTSitter`. `StepRefined` has one case per group of actions:
those of the callers are the abstract calls, every stretch of the pump between its
start and its return is `Work`, the world's steps are `Work` or a stutter.

### The census and the submissions

`CountsTally` compares functions of cardinalities, so the proof first says what one
`Bump` down and one up do to `Tally` (`TallyOfEntry`) and to what was seen
(`SeenOfEntry`). `RebuildTallies` then carries a census: while it walks, the counters
are those of the generation it builds, and the documents still to read make up the
total. A census that is cut off leaves them half way; `CutInv` says that such a
rebuild is marked by a census asked for, or by the switch being off, so nothing is
recorded before the next one starts from zero. `SnapshotOneGeneration` follows from
both, as `publish()` copies the counters where they are those of the map.

`WholeCoverageAddsUp` is about what the window adds up from those counters. `CoverInv`
says that even where a census was cut off the counters are those of one generation,
and that a census that finished has left a whole snapshot to show during the next one.
`SumIsOfParts` unfolds the community modules' fold over a class of at most four
statuses, the size a class has; `SeenAddsUp` says that what is seen falls into the five
classes, into one of them each.

`VerdictRecorded` speaks of what has been submitted since the last change. `Settled`
says what its settlement left, in the four places where the document could come back
from: the library (a pack, or a held failure), the map, the generation a census is
building, and the answer an inspection has in hand. It holds of every submission but
the one being settled (`AllSettled`); `VerdictInHand` says that one's answer is the
library's, or that the inspection threw, or the library has changed since. `AdmissionSound` follows from it with
`GateInv` (what the gate was asked about is there, and queued): what was submitted and
settled does not pend, so it is not chosen.

### The cache

`MemoryStandsUp` is about the one answer in hand; what makes it true is a property of
every record there is, in memory, in the file and in a write under way. `Good` says of
each that its fingerprint is one the pack had, and that if it is the one the pack has
now, the record's verdict is what reading it would give. It survives every change of
the files because a pack's fingerprint is new at each write, and it holds of what
`ReadPack` remembers because the fingerprint is taken before the reading: a pack
written in between has another one. Rows of other versions, torn appends and late
writes only ever put back records that are good, so nothing is asked of the file.

`FileFollowsMemory` needs `FileInv`. `Written`: an activation that has compacted has
left its mark, so a file without marks was removed. `OwnWrites`: the write waited for
is of the cache as it is, and no other write is this activation's. `FileOwned`: the
file agrees with the cache on every key that is not dirty. The operations of the cache
keep it because what differs is dirty (`Tracked`); that is what deleting a record before
asking whether it was there (the mutant) breaks.

### The lifecycle

`ActivationWhole` is not inductive: nothing in it keeps a suspended `initialize()`
from coming alive over its successor. `BootsInOrder` says that startups keep their
order from timeout to host promise to the awaits after it, and that no token is
there twice; `BootsStandDown` that while an activation lives every startup under
way has an older token, so each will find itself superseded, and that the one that
may still come alive runs with the journal unsealed, the boot wait shown and no
removal noticed. With `PulseAlive` (intervals run only in an activation that
lives) these carry `ActivationWhole`, `OneSitterOn` and `NoFalseRemoval`.

`OneChain` rests on `ChainInv`. `ChainsPast`: no timeout or suspended sweep has a
token or a generation in the future, so burning one kills them all (`AllDie`).
`OrphansDead`: a live timeout is always the one the binding reaches, so a clear
misses none that matters. `PumpsOwned`: a sweep that awaits its pump has one, and
is alone; this is why `wakeSDTSitter()`'s test of `busy` suffices. `OneLink`: the chain
is a timeout or a suspended sweep, and both only where the sweep's pump has returned and
a microtask's notification set a timeout, which is the one the sweep's `finally` clears;
`TaskLink` says that the turn does not end so.

`WakeKept` has to be said of a sitter at work, too. `WakeInv`: while no sweep of the
loop is suspended, a sitter that owes work or is busy (a pump of an earlier switch)
has a timeout that is prompt; a suspended sweep awaits the sitter's own pump, and where
that stops, the delay computed from what it left is prompt if it leaves anything
(`ReturnAnswers`), or a microtask has set a timeout (`Scheduled`) whose clearing the next
one records. That sentence needs the promise of `SDTSitter`: a pump that is
current rests only where nothing is owed, or where the delay is short.

### The verdicts of the assertions

A verdict is read at the end of a script from the few things the assertion has kept, and
what they are worth was decided where the script was half way. So the invariant has one part
for each assertion, which says by the position in its script what has become of the
target and what was seen of it (`EgressGoes`, `UninstallGoes`, `SweepGoes`, `ControlGoes`,
`PauseGoes`, `EditGoes`, `ResyncGoes`, `DuplicateGoes`, `PairGoes`, `StampGoes`). The hard
part is the worker, which does its batches when it likes. `Settling` says that two equal
reads of `settle()` mean it has nothing to do: a counter only grows, and what moved since
the last read shows (`Behind`). `Owed` says of work that must be caught, a background
change after a pause that is not heeded or the first build a second process repeats, that it
is pending and its first batch is counted as done, or that it was seen to be; a drained
queue leaves the second (`OwedWorks`). `UnderWay` says of an edit and of a resync which of
their two batches are done, so the counters read at the end are exact and
`EditArithmetic` needs no more than that a whole library has more sections than one record
(`Amounts`). `Alive` keeps the worker of the positive control out of the target's half.
`Judges` is what each assertion then concludes of what it has seen, and
`CalledOff` that with a working instrument a check is called off for nothing but what
the target does not offer or report. `Askings` reads the calls off the scripts.

### The arenas

A run prunes what it listed, and lists what had no marker; between the two the
other run may have become anything. `DoomedOver` says it has not: a directory is
made by a run that assesses (`MadeByWork`), which has its marker on the disk
(`Marked`), so one listed without a marker is of a run that is over, and a run does
not assess twice. `RecordsOfWork` keeps what a run recorded from before it began.

### The debugger client

A reply names neither its request nor its turn, so `OwnAnswers` cannot be inductive:
what saves it is that at most one reply is outstanding on an open connection.
`OneAsked` and `OneOfEach` say that what the server owes is the request of the call
on the stack, `OneReply` that a reply on the way is that request's and the only
one, `NothingBefore` that a connection that was given up has no call. A timeout
closes the socket; without it (the mutant) the invariant breaks at the next call.

### The lifecycles of the targets

`StopInv`: between lifecycles nothing runs (`ClosedDead`), nobody has waited for the
launcher when the stop begins unless it was found to have exited (`Unreaped`), and
a stop loop that gives up has sent its SIGKILL (`Killed`). `ReportInv`: a host
application is built over the pinned file or over none (`CheckedBuild`), runs what
stands there (`RunsOffered`), every file of the harness is one the adapter accounts
for (`FilesAccounted`), and a target that is not lent has reported nothing
(`SilentUnlent`).

### The postures

`ProcessOK` says of a process that refuses nothing why: the operator said the machine is
the boundary, or it crosses to the account before it spawns, or it inherited the
posture from a process that had crossed, and runs as the account itself. The proof
goes over what `main()` decides (`MainHolds`), the wrapped command (`WrapCrosses`) and
the reinvocation.

### The draws and the runs of the library bench

`DrawInv` accounts for every pair of a frame: it is waiting in its cell, put aside,
taken once, or gone, and the gone have no paragraph and are as many as were counted
(`PartsApart`, `OnceEach`, `GoneCounted`); a quota draw that stops leaves nobody
waiting. `BenchInv` follows an index from its build to the artifact: one that is
stamped is whole and its weights are kept (`StampedWhole`), until the questions are put
the index of a run that builds is of its scope (`BuiltOver`), afterwards the one asked
is still there (`AskedStill`). `StampExpands` says that a stamp, which leaves the
defaults out, gives back what it was made of.

### The red states

`RedInv`: outside the stretch between an arm's first patch and its rebuild the fork is
`Untouched`, unless something was torn; a rebuild is reached only with the source put
back; an arm without patches never leaves that state. Every failure of a patch, a
build, a drive or a gate leads to the revert; without the revert on the way of success
(the mutant) the next arm starts from a patched source.

### The sweep

`SweepInv` ties four things that a kill separates: the plan, the result files, the
index of claims that is rebuilt from them, and the vectors. `HandledSoFar`: what is
left is the end of the plan, what came before is settled and counted. `IndexSound`,
`IndexWhole`: the index names an attempted cell of its bytes, or the one at hand, and
misses no measured cell. `MeasuredAlone`: the cell being measured is the only one of
its bytes. `VectorsMade`, `FiguresMade`: what a fidelity rep compares was there, and,
in a temporary directory, made for this cell. The refinement maps a result file to the
ledger's verdict; every write of a file is its `Settle`, everything else a stutter
(`SettleWrites`, `WriteIsOne`). A plan is a list given by its indices, row by row,
because the prover knows nothing of nested concatenations.

### The fixture

A text is known by the number of its extraction (`TextsNumbered`), so a row that shows
a number the library still shows is the library's text, version 0 or not
(`RowsStand`). The moment is where the first pass ends. From there on what differs from
the moment differs from the library for good, and is still to be read again if its
version tells nothing (`MomentStands`); the second reading refuses it. Bodies with a
version are compared by the listing the export ends with. The statement is of
the texts: a failure control that gains a text and loses it again while the export reads
is not read twice, and does not show in the snapshot either.

### The rungs

`RungsInv` says that while a rung has found nothing it does not permit (`Unspoiled`)
the baseline and the last whole reading differ by what is declared (`Accounted`);
`CleanAddsUp` is the lemma behind it, that two clean segments in a row are a clean
segment of both edits. A rung exits 0 only unspoiled.

`MenagerieComplete` is about the last state of a rung, but the rung looks at what is
pending in the middle, and then counts packs only. `MenagerieInv` says why that is
enough, by the position in the script. `PacksOfDocs`: packs are of attachments that are
there, but for one being erased. `AccountStands`: after the account nothing is pending;
an erasure that is over has left one pack less than before; the attachment put back is
all that is pending, and while it is, that pack is missing, so the count the rung waits
for is reached only with it. `StaysRemoved`: an uninstalled sitter arms no more, and what
the rung saw gone stays gone. `MenagerieSteps` reads the positions off the script.

### The fixture's sources

What a download passed was asked of the source at hand, but a file is found by the
next run under a name made of an id and a format, perhaps for another source. That is
enough, because the checks read nothing else of a source than its format. `FetchInv`
adds that the loops hold only sources of a recipe that validated (`LoopsSound`), and
that a name the cache does not know is never written.

### The kept listings

What a reader returns says nothing of the library that answered it chunks ago, so
`ListingInv` follows the rows from the read to the end: `ReadingSound` of a listing
under way (its keys are distinct and of the sample; a sample key whose chunk is over,
or that stands before `start` in the order of the chunk's answer, is a row or was gone,
unless the listing is torn), `KeptSound` of the cache, `ServingSound` of the listing in
hand, `GotSound` of the pages taken so far, which are a prefix of the listing that is
kept unless the reader was `crossed`. A key that is gone stays gone: only what is not
of the sample is born (`LibraryChanges`). `OrderFacts` says that a set of keys in order
has each of them once, `SliceFacts` what a slice of a sequence holds; neither is an
induction, since a listing is given by its indices.

### The golden gate

`ScoreInv` says that each reply of the run is an entry in its place or left to score
(`ScoredSoFar`), and that the verdict reported is the gate's over those entries. The
stamps its quotes are located by are in the state, so the invariant needs `EntryKept`:
no step of a score writes them. What is left is about two lists of entries. `BlindRow`
follows one row over replies with and without evidence: the results of its own item
and the official pages among them are the same, and a near-win may become a win, never
a miss, which is all a negative control asks. `BlindScored` makes of that two entries
that are `Alike`, `LikeEntries` three equal readings.

### The clone and the arms

`KeptCopyIsWhole` rests on `CopyTracksSource`: as long as Zotero has neither run since
the first look nor been seen to quit, the library is what it was and every file copied
is of it; where it still runs, its lock is live and the last look refuses. The copy is
of files alone because the directory was empty when it began (`CopyShape`), whatever an
earlier invocation failed to remove.

`BlamesTheFault` is about the last lines of two scripts. `HostHolds` says, place by
place, what the host holds by its fault and by the steps that took (`Took`); `Witnessed`
says what a look after the restart tells of that fault, and of which step it says instead
that it failed. A failure once noted stays (`FailureKeeps`), whatever follows. The arm without its control tells
"replacement" and "queue" not apart, which is what the mutant shows.

### The version guard

`OkIsUnclaimed` speaks of the end of a run; `GuardInv` says why it holds there.
`HistoryRead`: once rules 1 and 2 are past, every reuse in the past of this lane is a
finding, so an exit 0 means there is none; a past only grows by what descends from it, and
the guard's own head does not move. `StillToAsk` is about the requests that stood still:
each is still to be listed, ahead in the page at hand, or was asked at its head and, if
it reuses the version, crossed. It holds under the two exceptions of the property (a
request that could not be asked, one closed before the list was complete), because a
request opened meanwhile stands before those listed. `Rooted` keeps heads and pasts within
the commits there are. What the other lane is offered exists and is free
(`NextIsFree`): finitely many numbers are read, and a set of numbers has a least one,
which `LeastNumber` derives from the library's well-foundedness of `Nat`.

### The stall probe

`ProbeInv`: between two beats a heartbeat went by, or that and what the clock was set by
(`BeatsApart`), and the latter between one pair of beats only (`SetOnce`), so at most one
interval shows shorter than it was (`QuietTruly`). A tick's age grows by no more than the
time that went by (`AgesGrow`), so a last tick two intervals old leaves the last two
intervals without one (`PlateauTruly`): that, and not the rule about the wall clock, is
why a corroboration is right. Nothing
is used by a thread before it is born (`BornFromZero`), and the snapshots of a series are
ordered (`SeriesInOrder`): so what a thread of the last snapshot used in the window is
what the probe takes it to have used, seen at the start or not (`Halves`, `WindowTruly`).
That "wedged" is said by the whole process and "slow-tail" by a thread makes the proof compare
both: a sum over the threads grows by no less than any of its terms (`SumGrows`). The
recursion that adds up is a function on finite sets; `SumsExist` and `SumAddsUp` give its
values by a least counterexample (`LeastNumber`).

### Only model-checked

Out of the prover's reach: the liveness properties (`Converges`, `QueueEmpties`,
`KeepsSweeping`).

## 6. Where the code and its comments disagree

Six runs TLC must find violated; `PROJECT.json` quotes the lines.

1. `lifecycle_error_retry` -- `nextSweepDelayMS()` takes the lesser of the retry
   interval and the reconciliation deadline, and a failed census does not move the
   deadline: once it has passed, the retry has no delay at all.
2. `sweep_duplicate` -- `run_sweep()` claims the bytes for a cell before measuring
   it and keeps the claim when the measurement fails: later cells of those bytes are
   duplicates of a cell without figures.
3. `acceptance_beaver` -- `Beaver._stop` looks the group up by its launcher, which
   its own wait has reaped, so a host that outlives the first SIGTERM is taken for
   gone.
4. `watch_manufactured` -- the window of an expected absence closes while the add-on
   is still absent, so each uninstall-then-install cycle raises the alert, and a run in
   which the host lost nothing ends with 3.
5. `fixture_pinned` -- in a group library Zotero extracts the file it stores, which
   a failed or skipped upload leaves other than the pinned one; only the local
   cache is hashed.
6. `redstate_stamp` -- a revert that fails leaves the patch in the checkout, and the
   control arm is then built of it and stamped as the control.

Met while reading, without a run of their own.

Of the plugin:

* A first census cut off by the switch leaves its partial counts as the held
  snapshot (S:159), and the window calls them known against the full total (B:1082);
  it has no members, and makes the "Not indexed" section (B:1586) say there are none.
  Before the first census lists, `known` has a figure of 0 of 0 (B:1098).
* A failed extraction whose second inspection throws is reported and not held (S:492),
  so the same source is extracted again. `VerdictRecorded` and `AdmissionSound` say so:
  the document then shows as `inspection-error`, and the next submission under the same
  identity is the one after its own unexamined failure (`Submit`, `SettleFailure`).
* An event is retired with whatever its inspection answered (S:277-309). Where that
  inspection throws once, the item shows `inspection-error` until an event names it again or
  the hourly census comes, although the library is as it was; `NoLostChange` has this as its
  one exception (`SaysUnexamined`), and `Converges` shows that it ends.
* The pump that finds the worker busy rests with events undrained (S:405); the two
  rests before it go back to the drain first (S:368).
* `noticeSDTRemoval()` disarms "the same way" as `disarmSDTSitter()` but does not burn
  the sweep generation (B:767), so a sweep suspended in its pump goes on.
* A document that settles after the switch went off is counted by a sweep that is no
  longer current, and no toast announces it (B:1005, B:91).
* `initialize()` lifts the seal of the journal before its awaited self-check
  (B:3282), so a pump of the previous activation writes into the next one's journal.
* A notification delivered from a microtask between a pump's return and the `finally` of
  its sweep finds the sitter not busy and sets a timeout of no delay, which the `finally`
  clears (B:1008) and replaces with the ordinary delay (B:1010): what it brought waits as long
  as if nothing were owed. `WakeKept` has this as its one exception (`timer.cleared`); the
  chain itself stays one. Whether the host ever notifies from a microtask is not in this
  repository; all runs and theorems allow it.

* An uninstall deletes the handle of the write under way, because it "has no
  successor to serialize against" (B:4082-4085). An install in the same session, which
  `bench/sitter_volume_experiment.py` does, is one: the write lands after the file was
  removed, or after the successor's. `FileFollowsMemory` leaves out a file that another
  activation wrote to; `MemoryStandsUp` holds all the same.
* A row appended after a line that a failed append cut short is swallowed by it, and
  `saved()` has already called it clean (B:3407-3408): it is written again only by the
  next activation's compaction. The cost is one pack read again.

Of the acceptance layer:

* A driver that dies exits 1, the code of a red, against "An instrument failure is
  never a red" (`run.py`:119-123). `RedIsEarned` leaves that window out.
* `check_uninstall_removes_declared_state` passes when nothing was created. The
  durations of `no-duplicate-work` rest on one unsettled read after the pair.
  `_inventory` has no branch for a root that is a file, unlike `Snapshot`.
  `check_model_cache` calls `configure()` without asking whether it is offered.
* Two drivers started in the same second share their arenas and their marker: the runs
  of `AcceptanceArena` start in different ones.
* `adapters.build` may raise `SystemExit`, which `record()` does not catch.
* `Zoteus.running()` has its handshake outside the `try`, so a process may be left;
  `terminate()` is not waited for. `mcp_drive.Server.timeout` is never read, and
  after a timeout `drive()` goes on with the process its comment calls "about to be
  terminated anyway".
* In the zotseek and core stops the grace waits end with the launcher, so the
  second SIGTERM and the SIGKILL follow at once; a launcher already reaped makes
  `zotseek._stop` raise.
* A launcher that arrives in the arena between the adapter's construction and its
  start runs unpinned; `install()` then reports it as unchecked.

Of the sweep, rungs and watcher:

* The key of a duplicate leaves the device and the corpus out. With a kept vectors
  directory the fp32 reference is found by model alone.
* The Menagerie rung reports a debugger port that never opens as FAIL; the other two
  as NOT-RUN.
* The expected absence is looked up after the record was read, so a window that
  opens in between excuses an earlier loss. A loss made good between two polls is
  not seen. Exit code 0 is decided before the watcher's thread has stopped.

Of the version guard, the stall probe, the clone and the arm:

* A request that is closed between two pages of the list moves the next one to a page
  already read: it is never asked about (`steady.shifted`). The files of a request are
  read by its number, one at a time, so a push between two reads gives a payload that
  never was, and a finding about it (`crossed` may be of no commit).
* A wall clock set back by less than an interval makes the interval it was set in count as
  quiet even where a tick fell in it (`sdt_stall_probe.py`:236-255), so `quietBeats` may be
  one too high (`probe.miscounted`). At the default
  thresholds a corroboration is still never false: a plateau takes a last tick two intervals
  old by the sitter's steady clock, and two quiet beats are all a corroboration asks. With
  a `--quiet-ms` of less than two intervals it can be; that option is not modelled.
* A Zotero that starts after the first look of the clone recipe and quits before the
  last tears the copy unseen (`copy.left`); `rmtree` ignores its errors, so a refused
  copy may leave files behind.
* The pending-uninstall arm never looks at whether its installs and its staging took
  (`ok` of `install1`, `stage`, `install2`), and prints "NOT REPRODUCED: the staged arm
  survived too" also where the presence of the staged arm could not be read. So it prints
  REPRODUCED on a sound host where the arm's install #2 failed, and on a host that loses
  replacements where the control was never replaced; and NOT REPRODUCED on a host with the
  fault where the uninstall was never staged, or no answer came. `BlamesTheFault` names these
  four, and says that no other failed step misleads it.

Of the fixture and its sources:

* Where clearing the old snapshot fails half way (`golden_fixture.py`:1342-1349),
  the new one is deleted and the torn old one put back, against "atomically replaced
  snapshot directory" (1229). A kill between the renames leaves no directory.
* A body of version 0 that a sync replaces between reindex and export is not
  compared. In the user library an inject killed between the write and the reindex
  is never reindexed.
* A truncated download that passes the size and type tests takes its cache name, and
  of an unpinned source the run ends with 0 (`fetch_recipe.py`:23-27, 28-31): the checks
  of `CheckedUnderItsName` accept it (`Accepted`). Two fetches at once share `.partial`. A file
  reported MISMATCH is never fetched again.

Of the red states, the gate and the library bench:

* A revert is `git checkout`, which also undoes uncommitted work under `src`. A kill
  between bundle and delta leaves the older delta.
* The gate passes where its controls are NOT_MEASURED (`golden_gate.py`:1592-1602
  against 1533-1547); unanswered questions are reported and gate nothing.
* `_fetch_all` keeps a refused answer as the listing for good; a listing's version is
  that of its last chunk; two fetches of one query replace each other's listing (the
  pages of a reader are then of two, which is why `PagesOfOneListing` excepts a reader
  that was `crossed`). A chunk is read by offset and until as many rows as announced have
  come: an item that leaves the library between two pages of one answer moves a later one
  to an offset already read, and the kept listing misses an item that is there (`torn`).
* A rebuild that is killed leaves the older build record saying "done"; `--reuse-index`
  with no scope file draws a new scope; the proxy runs on where `build_writer`
  raises.

## 7. What is left

Not modelled yet, in order of what it would show:

1. The records without a file: attachments that move between records, the full walk
   and the targeted refresh, the view published with a snapshot.
2. The kinds of stale pack and the label check of `inspect()`, and the thresholds of
   the resource gate, as pure operators.

Parts of what is modelled that are left out: of the rungs `check_cache_rows`, the
sampler and the pruning of work directories; of the fixture the pages and the
creators of an item; of the red states, kills and the route that rescores replies
nobody stamped; of the watcher, the versions and the flags of the record.

Not planned, and why:

* rendering and wording, in both programs; the duration estimate (floating-point
  quantiles, advisory); the event journal (bounded, write-only);
* the repository checks (`check_*.py`, but the version guard) and the measurement scripts
  (`issue30_*`, `*_census.py`, `*_score.py`, the `.mjs` benchmarks): one pass over
  files with no state, no second actor and nothing to resume, where a unit test
  reaches as far as a model would;
* `upstream_catchup`, `smoke_upstream`, `discovery_latency` and the other probes: sequences of commands whose result is a log read by a person;
* recorded results and data.
