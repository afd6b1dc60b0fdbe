# Verification of wdio-puppeteer-video-service

This directory holds TLA+ models of `wdio-puppeteer-video-service`, a
WebdriverIO service that records videos of tests: the TLC configurations that
check them on small instances, and TLAPS proofs of what matters most for every
value of the constants. Paths such as `recording-slots.ts` are files under
`src/src/service/` unless a directory is given.

## 1. The system

One launcher process starts many worker processes. A worker runs the tests of a
spec file in one browser session; the service lives in the worker as a set of
hooks (`beforeTest`, `afterTest`, `beforeCommand`, `afterCommand`, `onReload`,
`after`, `afterSession`). JavaScript code runs to its next `await`, so inside a worker
everything interleaves at awaits only. Between workers there is nothing but the
file system: lock files, artifact paths, journals.

| Component (files) | State | Operations | Talks to |
|---|---|---|---|
| Recording slots (`recording-slots.ts`) | `activeSlots`, `waiters` per worker; `ownsInProcessSlot`, the global lease per scheduler | `acquire` (blocking or fast-fail), `release`; two schedulers: recordings, post-processing | owned-file leases `slot-N.lock` shared by all workers |
| Owned-file lease (`owned-file-lease.ts`) | one file: token, pid, inode, mtime; an open handle | acquire, stale reclaim, discard a candidate, release | slots, manifest lock, artifact reservations |
| Recording controller (`recording-controller.ts`, `recording-lifecycle.ts`) | the `recordingTask` chain, `captureFailure`, `closingContextId`, `failedStarts`, `unconfirmedGap`, lifecycle state | start, follow, stop for close, recover, resume, stop, finalize, reset | capture engine, slots, media coordinator, manifest |
| Capture session and engine (`capture-session.ts`, `puppeteer-capture-engine.ts`, `capture.ts`) | slug, segment number, tabs by segment, selected window, attached recorder | begin, attach, detach, advance, reset; find the page, start and stop the screencast | browser, recorder |
| Context follower (`context-follower.ts`, `context-signals.ts`) | `currentWindow`, `introduced`, `pendingSwitch`, `topLevelByContext` | before/after each command | controller; asks the browser for handles and the tree |
| Worker coordinator and runtime (`worker-recording-coordinator.ts`, `worker-runtime.ts`) | attempts per test, teardown task, `_followContexts` | hooks, eligibility, retention, teardown | all of the above |
| Screencast recorder (`screencast-recorder.ts`, `screencast-encoder.ts`) | pending blocks, draining flag, last frame | frame, hold, drain, stop, abort, overload | browser CDP, ffmpeg's stdin |
| Media coordinator (`recording-media-coordinator.ts`, `bounded-task-queue.ts`, `post-process.ts`, `media-pipeline.ts`) | queue of deferred tasks | queue, drop, flush with bounded parallelism, transcode, merge, report | ffmpeg runtime, manifest |
| FFmpeg runtime (`ffmpeg-runtime.ts`, `ffmpeg-runner.ts`, `process-supervisor.ts`) | running processes, held slots, accepting flag | run with timeout, `terminateAll`, resume | child processes, post-process slots |
| Artifact publication (`artifact-integrity.ts`) | reservations, temporary files | reserve a path, publish by link, clean up abandoned files | leases, file system |
| Manifest of a run (`manifest-runtime.ts`, `manifest-journal.ts`, `manifest-persistence.ts`, `manifest-aggregation.ts`, `launcher.ts`) | entries, outstanding tasks, append chain; journal files; the run document | begin, complete, completeDeferred, append; merge of the journals under a lock | file system |
| Reporter (`src/src/reporter/`) | fragments | match manifest entries to results, render | manifest |
| Policies (`recording-policy.ts`, `filtering.ts`, `retry-state.ts`, `video-name-utils.ts`, `options.ts`) | none | pure decisions and names | coordinator |

What is hard here, and where tests hardly reach: the order of callbacks around
an `await` (a woken waiter against a new caller; a hook that reads the slug
before its operation waits in the chain), file operations of several processes
on one path without a file lock, processes killed between any two of them, operations
that fail half way (a start after the slot was acquired, a task after it
published its output), and completions that overlap or arrive out of order.
`PROJECT.json` lists these hazards at their lines.

What makes each component correct, in a sentence:

- slots: the limit holds, no wakeup is lost, nothing leaks, a killed worker's
  slot is usable again;
- lease: one live owner, whose file nobody else removes, and none but live owners
  hold the lease for good;
- controller and follower: a video reported complete shows every tab its test
  drove; slots and captures come and go together; every hook returns;
- deferred media and manifest: no recorded content is lost, every entry settles
  with the outcome of its tasks, and the journal says nothing untrue at any crash;
- recorder: every accepted frame is encoded for its span, in order, or the recording is
  reported incomplete; stop returns;
- ffmpeg runtime: a teardown ends, and what it interrupts does not switch recording
  off for the rest of the worker's life;
- publication: no artifact is overwritten, no partial one gets a name, no source goes
  before its replacement is there, whoever is killed;
- manifest and report: entries say what happened, no run and no written entry is
  lost, and nobody's video is shown as somebody else's.

## 2. The modules

    SlotPool <--implements-- RecordingSlots <-- MCRecordingSlots, RecordingSlots_proof
                             OwnedFileLease <-- MCOwnedFileLease, OwnedFileLease_proof
          RecordingControl <-- ContextFollower <-- MCContextFollower, ContextFollower_proof
                           ScreencastRecorder <-- MCScreencastRecorder, ScreencastRecorder_proof
              DeferredMedia <-- SegmentMedia <-- MCSegmentMedia, SegmentMedia_proof
       FfmpegRuntime <-- ArtifactPublication <-- MCArtifactPublication, ArtifactPublication_proof
    RunManifest, RecordingPolicy, ReportMatching <-- WorkerEntities
                <-- RecordedRun <-- MCRecordedRun, RecordedRun_proof <-- RecordedEntries_proof

The modules meet at their edges: what is one step in a module is another module's
subject. A slot is `acquire()` to RecordingControl and a counter to FfmpegRuntime, a
lease is an owner to RecordingSlots, ArtifactPublication and RunManifest, an FFmpeg
call is one step to SegmentMedia, a recording is the execution it was started
for to WorkerEntities.

An action is what the code does between two awaits, or one file operation where
other processes look on. Definitions keep the names of the code.

**RecordingSlots** — `RecordingSlotScheduler`. Schedulers live in workers. An
`acquire()` walks through `pc`: `polling` (the fast-fail loop) or `waiting`
(parked in `waiters`), `admitted` (in-process slot held), `scanning` (the rounds
of `acquireGlobal` over the lease files), `reclaiming` (a dead owner's file has been
judged and looked at again), `held`; `release()` through `releasing` and `unlinking`.
`releaseInProcess` moves the longest waiter to `microtasks`, and
`RunMicrotask` is the retry a `queueMicrotask` callback makes. Time is
abstracted: `Expire` may come at any moment of a pending call. `Crash` kills a
worker; its lease files stay. A lease file is the owner it names. A reclaim and a
release look at it and unlink by path later (`Reclaim`, `LeaseReleased`), so that a live
owner can lose its file to a reclaimer as in LeaseRace, and two schedulers can hold one
global slot; the module claims no exclusion of global slots. Who owns a lease is
OwnedFileLease's matter. With `StorageFaults`, `mkdir`, lease operations and the unlink of a release may fail.

**SlotPool** — the abstract promise: holders never exceed the capacity, and a
free slot is handed to somebody who waits. It says nothing about the order.

**OwnedFileLease** — `tryAcquireOwnedFileLease`,
`cleanupStaleOwnedFileLease`, `discardLeaseCandidate`, `release`. A contender
reads text and stat of the path in either order (`Promise.all`), judges the
snapshot, reads it again, unlinks, creates with `O_EXCL`, identifies, writes,
verifies. Inodes are reused. With `Faults`, file operations may fail
(`failing`) until the storage recovers (`Recover`); `Stalls` lets a live candidate
outlast `invalidStaleMs`, and `WindowRaces = FALSE` keeps others from
running between a re-check and the unlink that relies on it (see LeaseRace). The windows of
`releaseNow` and `discardLeaseCandidate`, between a look at the path and its unlink, are
always open to others. `creator` is history: who created the file at the path, whatever
its inode; so is `misjudged`: a live process's unfilled file has been reclaimed.

**DeferredMedia** — `flush()` of the media coordinator with
`drainBoundedTaskQueue`, the media pipeline's deletion of inputs,
`completeDeferred` and `replaceSegments` of the manifest recorder, and the append
chain of the journal. Files are the segments whose content they hold. Journal appends
may fail and leave a torn line; a line written after a torn one cannot be parsed.

**SegmentMedia** — extends it with everything that happens to the segments before:
`finalizeSegment` when a segment stops (within its test or at its end; the file may be
missing, empty, incomplete or unreadable), `finalizeMedia` with retention, the
capture failure that drops the queued tasks (`DropTasksForPaths`), or does not when
the finalization threw (`FinalizeFailed`), the merge at once
or queued, and the entry the coordinator journals (`Begin`, `Complete`,
`Interrupted`). The worker may be killed at any moment (`Kill`). `setting` chooses the
failure policy, processing at once or deferred, transcoding, merging and deletion.

**RecordingControl** — one worker's `RecordingController` with the state of
`CaptureSession` and `RecordingLifecycle`. Hooks `Enqueue` operations on
the chain (`runSerialized`); `Take` begins one, `steps` is what it has left to do
(`stop`, `acquire`, `attach`, `slot`, `segment`, `reset`, ...), and each step is
an action ending at an await. `Abort` is an exception: only the `finally`
blocks are left. A test's recording is a number, 0 for the empty slug. `missed`, `spoiled`
and `broken` are history: recordings with an unfilmed action, an unclean
segment, a stop that threw. A segment whose stop was unclean (`Stopped`,
`Unclean`), a start that failed (`Acquire`, `NotAttached`) and an exception of
`finalizeSegment` under `failurePolicy: 'error'` are the faults.

**ContextFollower** — extends it with `ContextFollower`, the hooks of
`WorkerRuntime` and `WorkerRecordingCoordinator`, the browser and the test
runner. A test sends one command at a time: a command that names a tab, one on
WDIO's current window, `switchToWindow`, `browsingContext.close`,
`closeWindow`, `getWindowHandles`, `newWindow`. It goes `sent` (beforeCommand), `run` (the
browser, once the hook's operations have settled), `answered` (afterCommand),
`settling`. Pages open and close tabs on their own, the browser may refuse a
close, the session may be reloaded. With `Stray`, the runner ends a test while a
command is under way, as it does when a test times out.

**ScreencastRecorder** — a recorder from the moment `recordScreencast` hands it
over, its encoder process, and the engine that stops or discards it. A frame is its
number, time is counted in ticks, `GridPosition` rounds to the steps of the frame
rate. `Enqueue` is `enqueue()` with the `pump()` it calls synchronously: blocks go
out until the encoder's input reports backpressure. `writer` is where
`drainPending` waits (`blocked`, `yielded` after a batch), `stop` the stage of
`finish()`, `aborting` how far `abort()` is, `engine` the caller with its deadline.
The encoder is `running`, `gone` (it has exited and Node does not know yet), `exited`
(`exitCode` is set) and `closed`. `frames`, `written` and `cutShort` are history. The
high-water marks and the file stream the encoder's output goes to are left out,
and an encoder that exits with zero after the end of its input is taken to have read
everything.

**FfmpegRuntime** — `FfmpegRuntime`, `runFfmpeg` and the teardown of a worker. A job
is one `withPostProcessSlot()` call, chained (of a hook's serialized operation) or
deferred (of the queue the teardown flushes). A run goes `running`, `asked`
(terminated), `grace`, `forced`, and settles `true` or `false` on exit or timeout;
the process may outlive its run. `start` is where a recording start stands in
`ensureReady()`, `teardown` where `_performRecordingTeardown()` does.

**ArtifactPublication** — extends it: what a job does in its slot, and calls of other
processes (`Others`) on the same output directory, each file operation a step.
`at` is the station of a call: look for the name, reserve it, clean up after a dead
owner, look again, produce a temporary file, validate it, check the reservation, link,
unlink, release, delete the source. A reservation may be lost to the race LeaseRace
shows (`LoseLease`). `setting.trouble` chooses what goes wrong: lost reservations,
failing file operations, FFmpeg that is not there or too slow to tell its version.

**RecordingPolicy**, **ReportMatching** — operators, with the names of the code:
entities, filters, attempts, the decision to start and to keep, the status of a
completed entry; capturing outcomes, alias indices, the three passes of `matchAll`
and the report's items. A text is a value or a pair of its normalized form and
its spelling; a wildcard pattern is the set of texts it matches.

**RunManifest** — journal lines and how `parseManifestJournals` reads them back (the
last valid line of an entry counts, an entry still recording is reported as
interrupted, spoiled lines become diagnostics), validation, aggregation, and the publication
of `manifest.json` under its lock by several launchers.

**WorkerEntities** — the worker processes of one run: a test or scenario is begun,
run, retried by its framework, ended or interrupted by a reload; the hooks follow
`WorkerRecordingCoordinator` step by step, one await after the other (`hook` is where
they stand), and `WriteLine` appends what they journal. Workers are killed, pids are reused, and
WebdriverIO starts a failed spec file again.

**RecordedRun** — composes them: workers, journals, the completion of the launcher,
another launcher that completes at the same time, and the report.

## 3. The runs

| Run | Question | Bounds |
|---|---|---|
| SlotsBlocking | Does the wait queue lose a wakeup (`NoLostWakeup`), does a live worker's slot stay with nobody (`NoStrandedSlot`), does every `acquire()` return (`AcquireReturns`), is it a fair pool (`ImplementsPool`)? | 4 schedulers of 2 workers, 1 slot each and 1 global, 2 uses each, killed workers |
| SlotsGlobal | Do failing files, fast-fail deadlines and killed workers leak a slot (`SlotAccounting`, `NothingKept`)? | 2 workers, 3 schedulers, 1 slot each, 2 global slots, 2 uses |
| LeaseExclusive | One live owner at most, whose file stays (`LiveLeaseKept`), with stalls and a kill? | 3 processes, 3 inodes, symmetric |
| LeaseFaults | Do failed candidates and releases remove only their own file, until a live process's unfilled one has been reclaimed (`OnlyOwnFileRemoved`)? Is a killed process's file reclaimed once the storage works (`AbandonedReclaimed`)? | 2 processes, one of them killable, 2 inodes, failing file operations, stalls |
| LeaseRace | `LiveLeaseKept` without the `WindowRaces` assumption: **violated** | 3 processes |
| Deferred | Outcomes exact (`OutcomeExact`), completions true at any crash (`CompletedIsTrue`), content never lost (`NothingLost`), parts in order with their tabs (`ListedInOrder`), failed captures never processed and their entries failed for good (`IncompleteNotProcessed`), entries settled (`EntrySettles`)? | 2 entries of 3 segments and 1, 2 tasks at a time; at once or deferred, transcoding, merging, both, either failure policy, throwing tasks, lost and unreadable files, failing journal, kill |
| FollowTabs | Is a recording that is reported complete complete (`CompletedIsComplete`)? Do slots follow captures (`SlotFollowsCapture`), is every failure a recording's own (`FailureIsOwn`), is no segment number filmed twice (`SegmentFilmedOnce`)? | 2 tabs, 2 tests, 4 commands, 1 reload, starts and stops fail |
| FollowEnds | Do hooks return (`HooksReturn`) and recordings end (`EveryRecordingCloses`) whatever throws? | 2 tabs, 1 test, 2 commands that may outlast it, 1 reload, every fault |
| FollowLate | `FailureIsOwn` when a command outlasts its test: **violated** | 1 tab, 2 tests, 1 command |
| RecorderStops | Is every accepted frame shown for its span, in order (`AcceptedFramesShown`, `BlocksAscend`, `EndsOnAStep`, `PunctualFramesStartOnTime`)? Is the queue bounded in blocks and bytes (`QueueBounded`)? Is an early exit never healthy (`EarlyExitReported`)? Does stop or discard get rid of the recorder (`RecorderReleased`)? | 4 frames of 2 sizes, 4 ticks, 2 ticks a step, 2 pending blocks, 13 byte units, batches of 2 |
| PublishedMedia | Is an artifact never replaced (`NothingReplaced`) and always whole (`OnlyWholeArtifacts`), a source only deleted once replaced (`SourceReplaced`), a temporary file never leaked nor taken from a live process (`TemporaryAccounted`, `LiveTemporaryKept`)? Does a teardown end (`TeardownReturns`) and not write FFmpeg off (`UnavailableForCause`)? | a hook's transcode, a deferred merge, probe or transcode, a publication or reservation of another process; 1 slot, 2 candidate names, 1 teardown; lost reservations, failing files, missing or slow FFmpeg |
| RecordedRun | Do entries tell what happened (`EntryTruthful`), is what was written published (`NothingForgotten`), does the report show everyone's own video (`OwnVideoShown`), do other launchers' runs stay (`OtherRunsKept`), does the run end (`RunReported`)? | 16 scenes: Mocha retries of two tests whose names differ in case, three namesakes two of which are retried, spec file retries (once with 2 retries of one test), Cucumber scenarios of one title, rows of one title one of which is filtered (also in a retried spec file), scenarios of two feature files, filters, overlapping tests in either scope; spec scope with one recording of two tests, with a test retried, with a filtered test and retries of both kinds, with scenarios, and in a browser that cannot be recorded; 1 to 3 tests each, 2 launchers, 2 pids, up to 3 faults |

Why the bounds are enough to meet the cases. A lost or doubled wakeup takes one holder
releasing, one woken waiter and one caller that comes in between: three schedulers of
one worker, and one of another for the global slot. `MaxUses = 2` lets a caller
come back while its earlier wakeup is
in flight. A lease race takes one dead owner, one reclaimer and one new owner: three
processes; three inodes let each hold an open candidate and still reuse numbers. Three
segments of one entry let a middle part finish first or last, or fail after the others
were queued; the other entry shows that entries do not mix. For the follower, the
interesting words are pairs (switch to a tab that then closes; drive it; close the one
filmed), and four commands let a pair be set up by another one and observed by a second
test. For the recorder, a block in flight, two that wait and a held frame reach both
limits; two ticks a step put timestamps on the grid and between its positions; a fourth
frame arrives after an overload could have come. One block beyond the limit at the stop
is met here; the second one that `QueueBounded` allows takes a longer timeline (3 frames
and 8 ticks reach it). In PublishedMedia two candidates and
an artifact of an earlier run meet every collision, with three callers so that a
reclaimer, a dead owner and a third that takes the name meet. In RecordedRun two tests
with a retry give every order of namesakes; a torn line, a kill and a failed start
need a fault each. Three workers under one process id and three faults are there for
`NothingForgotten`: each worker goes on behind the open line of the one before, so that
three entries are lost with one line that says so.

`RecorderStops`, `PublishedMedia` and `RecordedRun` do not check for deadlock: a
recording ends, all calls of a directory end, a run ends and the system stops there.
That nothing stops earlier is what `RecorderReleased`, `TeardownReturns` and
`RunReported` say.

Every property has been seen to fail under a small change of the model
(`mutants` in `PROJECT.json`): the modules contain these changed definitions,
marked "Mutant", which nothing else uses. Type invariants are proved and not checked
again by the runs (section 4); RunManifest and WorkerEntities have none.

Fairness. A started await settles: file operations, timers, microtasks, ffmpeg
and screencast stops all have timeouts or are run by the event loop, hence weak
fairness of those steps. Holders release their slots because a recording ends with
its test. Nobody has to call `acquire()`, send a command, open a page or crash.
In OwnedFileLease contenders poll until they get the lease (as `acquireGlobal` and the
manifest lock do), strong fairness says that a process is not passed over
for ever by the operating system, and the storage recovers. A live process that
failed to remove its own file keeps the lease blocked while it lives (`Stranded`),
which `AbandonedReclaimed` excepts. In SegmentMedia the tests end and the teardown goes
on unless the process is killed. In ContextFollower the browser answers each
command and the runner ends each test. In ScreencastRecorder the timers of the engine
and of `terminateOwnedProcess` fire and a writer that can go on does; Chrome need
not answer, the encoder need neither read nor exit. In FfmpegRuntime timers fire and
the code between awaits runs (`ServiceStep`): no FFmpeg process has to exit by
itself, and no hook has to start a job. In RecordedRun workers and launchers take their steps
without anything going wrong; faults need not happen.

### What the violated runs show

*LeaseRace.* The stale file is re-read and then unlinked by path. Two processes
that reclaim the file of the same dead owner can both pass the re-check; the
first unlinks, creates and verifies its own file, and the second's unlink removes
it. A live lease is gone, although README and TROUBLESHOOTING say it is kept.
ArtifactPublication contains the consequence (`LoseLease`): artifacts do not
depend on it, because the link and the exclusive creation refuse an existing name.
`manifest.json` does, and RunManifest takes the lock to be exclusive.

*FollowLate.* `followContext` looks at the slug before its task is queued. When
a test has timed out and its `afterTest` is finalizing the recording, a command of the
test still queues a follow. It runs after `reset()`: no slug, so the start is refused
and counted as a gap, and `captureFailure` is set while nothing is recorded.
`startForMetadata` clears the other three fields but not this one, and the next
recording is reported `capture-incomplete`.

### Observed while modelling, without a run

Leases:

- `discardLeaseCandidate` stats the path and unlinks it later
  (`owned-file-lease.ts:505-510`). If a peer reclaims the path in between, because the
  writer stalls longer than `invalidStaleMs`, the unlink removes the lease the peer has
  taken. LeaseFaults contains this; `OnlyOwnFileRemoved` says that it takes such a
  reclaim of a live process's unfilled file (`misjudged`), and that nothing else gets
  somebody else's file removed. The stall is not needed where the new file has the inode
  number of an empty one judged before.
- A global slot can therefore have two live owners, and by LeaseRace also without
  failing files: `maxGlobalRecordings` can be exceeded after a worker was killed.
- When the unlink of a release is refused, the slot's file names a live process and the
  slot is lost until that ends (`owned-file-lease.ts:152-156`). `NoStrandedSlot` is stated
  without storage faults: nothing else strands a slot.

Recording:

- `MAX_TAB_START_ATTEMPTS` bounds the starts of `followContext` only.
  `recoverFailedClose` and `resumeAfterClose` start a tab whatever its count:
  drive a tab whose start fails, drive it again, let the browser refuse to close
  it, and a third consecutive attempt is made. `README.md:457` says "at most
  two". The model contains this behaviour (`RecoverClose`, `Successor`); no property
  counts attempts.
- When `browsingContextGetTree` fails, `resolveTopLevel` returns `undefined`
  and a command on a held tab is neither followed nor reported; the previous tab
  is filmed in its place, which `README.md:459` rules out. `FollowTabs`
  therefore has `TreeFaults = FALSE`; `FollowEnds` has it `TRUE`.
- `CompletedIsComplete` also needs `Stray = FALSE`: a command that outlasts its
  test is not the test's to show.
- `screencast-recorder.ts:199-200` says that an encoder which exits before the
  recording is stopped leaves it incomplete. If Node learns of an exit with code zero only
  after `finish()` has ended the input, the recording is healthy (`cutShort` is `unseen`;
  `EarlyExitReported` speaks of `seen`).
- When `drainPending` finds the input gone while capturing, `releasePending()` clears
  the held frame. A frame that arrives before the close event is then a first frame
  again, and `startHolding()` overwrites `holdTimer`; the first interval is never
  cleared. It does nothing once the recorder has stopped, and is `unref`'d.

Media:

- `finalizeMedia` (`recording-controller.ts:364`) counts only the tasks queued while
  it runs. An entry whose earlier segments queued tasks but whose last one queued none is
  recorded `completed`, `after-test`, with raw files, until the flush corrects it, and for
  good if the worker dies before. `CompletedIsTrue` therefore speaks of entries whose
  processing is `after-worker`.
- In immediate mode a processing failure under `failurePolicy: 'warn'` leaves a
  `completed` entry. An error thrown after publication leaves a transcoded or merged file
  that no entry lists, and for merges a failed entry that lists deleted parts; the deferred
  path keeps account of this (`publishedPaths`). Errors thrown within a test are only
  logged, and their segment is not listed. `NothingLost` asks for the content in some file,
  and for a listed file in deferred processing only.
- When a capture has failed and `finalizeSegment` throws as well (failure policy `error`),
  `dropTasksForPaths` (`recording-controller.ts:381`) is skipped: the entry is failed with
  that error as its reason instead of `capture-incomplete`, and the tasks its healthy
  segments have queued are processed. The repository's `README.md:447-451` says of an
  incomplete capture that it has the reason `capture-incomplete` and that what is retained
  is not processed. `IncompleteNotProcessed` holds what is left of that: the failed
  segment itself is never processed, the entry stays failed, and where the capture
  is its reason no task is left.
- A part that `artifact-integrity.ts:353-369` renamed on a collision is found again by its
  prefix (`paths.ts:20-22`); the models know parts by their segments.
- A capture that cannot be inspected is kept raw, never gets a task, and can be listed
  by a `completed` entry.
- The temporary file and the reservation of a process that is killed stay until
  another call wants the same candidate (`artifact-integrity.ts:314`). After a death between
  the link and the unlink the name is taken, so that later calls skip it and both stay for
  good. `TemporaryAccounted` excepts the dead, `LiveTemporaryKept` speaks of the living.
- An FFmpeg that takes more than 5 s to tell its version counts as missing for the rest of
  the worker's life (`ffmpeg.ts:79-82`); `UnavailableForCause` names the case.
- With `processing.ffmpeg.timeoutMs` zero an FFmpeg that hangs in the flush blocks the
  teardown; `RunTimeouts = TRUE` in the run.
- The second `terminateAll()` and `releaseHeldPostProcessSlots()` of a teardown find
  nothing to do in any behaviour: a safety net. A process that was killed by force may
  outlive its run.

Manifest and report:

- `reporter.ts:146-151` adds the runner's retry to the test's, the manifest takes the
  maximum of its three sources: a Mocha test retried inside a retried spec file is not
  joined to its entry, and the entries of its second try in the first run and of its first
  try in the second have the same attempt. In Cucumber both tries of a retried spec file
  share attempt 2. `OwnVideoShown` asks for the join of other executions (`plain`).
- A test that is filtered out, or any test in a browser that is not Chromium, has the
  attempt inferred from how often its title came up (`manifest-runtime.ts:219`). Of rows
  of one title one of which is filtered, a row can be shown with the entry or the video of
  another one, without any fault; in a retried spec file the retry of a row can be
  shown as filtered; and without Chromium the entries of a retried spec file keep attempt
  1, while the reporter says 2. `TROUBLESHOOTING.md` only says to give distinct titles.
  `OwnVideoShown` names these cases (`GuessedAlike`).
- A reload within a test leaves its entry interrupted with an unknown result, and
  `resetWorkerState` clears `entityAttemptCount`: a Cucumber retry after a reload
  starts at attempt 1 again and its video is shown under the first try. The entry a failing
  hook leaves behind has a guessed attempt as well.
- In a group of feature files a scenario's entry names the first file (`specPaths[0]`,
  `manifest-runtime.ts:634-637`), the reporter's outcome the current one
  (`reporter.ts:170`): no match.
- When the line of an entry was lost, its execution can be shown with a namesake's
  video: the matcher cannot know that the entry ever existed. Of three namesakes with one
  lost line, each outcome after it is shown with the next one's entry.
- When the clean-up of journals fails after the rename, the run is published, but its
  task has failed and no report is made.

## 4. The proofs

Eight modules hold proofs, for every value of the constants that satisfies the named
assumptions of the module proved about. Their hierarchy follows `Next`: one lemma or
step per action.

**RecordingSlots_proof** — `TypeCorrect`, `QueuedOnceHolds`, `NothingKeptHolds`,
`SlotAccountingHolds`, `NoLostWakeupHolds`, `NoStrandedSlotHolds` and `ImplementsSlotPool` (each worker's in-process half implements the safety part of
`SlotPool!Spec`). Assumed: `WorkerOf` is a function into the workers, the schedulers are
finite, the limits natural numbers, `NoOwner` is no scheduler.

The argument is in layers, each inductive relative to the ones before. `TypeOK`
comes first. `QueuedOnce` is inductive by itself but awkward as it stands, since it
speaks of all workers at once; `Holds(q, m, W)` says it of one worker's two
queues, with `W` the callers that wait there, and four lemmas say what parking,
waking, admitting and re-parking do to it. `NothingKept` is not inductive: that
`release()` returns empty-handed depends on where the owner stood, so `KeptInv`
adds that an owner of an in-process slot is in one of the busy locations, and
that a global slot is held only while `held` and released only while
`releasing` or `unlinking`. Neither says that the slot's file is still one's own. `SlotAccounting` needs both: the cardinality of the holders moves by one
exactly when a flag changes, and a caller that takes a slot did not own one
(`QueuedOnce` for a woken caller, `KeptInv` for the others).
`NoLostWakeup` then follows from the counter: a release that makes room queues a wakeup
unless nobody waits, and a microtask that finds room consumes one of each.
`NoStrandedSlot` adds where the owner of a lease file stands: relative to `KeptInv`, a file that names a live worker's scheduler is the one it
holds or is about to release. That assumes working storage (`~StorageFaults`, as the run
does): an unlink that fails does strand a slot. The refinement maps each step to `Join`, `Enter`,
`Grant`, `Withdraw`, `Leave`, `Shutdown` or a stutter; its liveness half is checked
by TLC only (`ImplementsPool`).

**OwnedFileLease_proof** — `TypeCorrect`; under `WindowRaces = FALSE` (the theorems
assume it: without it LeaseRace is the counterexample) `LiveLeaseKeptHolds` without
faults, and with them `OneOwner`, as long as nobody was `misjudged`, and
`OnlyOwnFileRemovedHolds`. The properties say nothing of the contenders that
have not verified yet, so they are not inductive. `CreatorInv` says what the file at the
path tells of its creator: a candidate that is being filled is open and so keeps its inode
from being reused. `ReclaimInv` says what a snapshot is still good for: a judged file names
a dead owner or nobody, and from the re-check to the unlink the file is still the judged
one. `CandidateInv`: until a live contender has been robbed, each candidate and each lease
is at the path and its contender's own, the ones about to be discarded included.
`FaultlessInv`: without faults nothing is discarded, and contents that are a contender's
stay. `WindowInv` has one contender at a time in the window of a reclaim.

**ArtifactPublication_proof** — `PublicationInvHolds` and from it `TypeCorrect`,
`OwnPathHolds`, `OnlyWholeArtifactsHolds`, `SourceReplacedHolds`,
`TemporaryAccountedHolds`, `NothingReplacedHolds`, `LiveTemporaryKeptHolds` and
`UnavailableForCauseHolds`, with lost reservations, failing file operations, teardowns
and killed callers. A call passes its stations once. The invariant says what it has
produced by each of them (`Produces`: whole from validation on, which rests on a run
being `true` only when its process has closed), that a named output is its publisher's,
whole, and reported by a call that is through (`Named`), that sources are deleted only by
calls that report a path (`Deletes`), and that only the dead are judged dead
(`Judges`). Reservations do not occur in it: they save work, the link alone
protects a name.

**RecordedRun_proof** — `ManifestLockExclusive` and `OtherRunsKeptHolds`, for any number
of launchers, tests and scenes. `OtherRunsKept` is about a file that is replaced
whole, so it needs that what a launcher read under the lock is still there
(`SnapshotCurrent`), which needs the exclusion (`LockExclusive`), which needs that only
a dead launcher's lock is taken over; `RunsNamed` adds that a published run is of a
launcher that has published, so a launcher's own filter never takes another's run.
The exclusion is of launchers that take over the lock in one step; LeaseRace is
about that step.

`NothingForgottenHolds`, in the same module, is for any tests, spec retries, process ids,
torn lines, kills and failing launchers. The property is about the published run, the
invariant (`RecordedInv`) about journals that are still written. `JournalsInv` counts:
entries whose last version cannot be read, plus files that end in an open line, are at most
the unusable lines plus the faults; without an unusable line nothing is lost. A line that
is appended to an open one costs two entries at most, of which one is paid by the spoiled
line and the other by the fault that left it open. That a spoiled line costs only entries of
its own worker needs that no entry has lines in two journals: `WorkerInv` follows the
numbers a worker holds (`Holds`: its draft, its completed entries, the line it writes, its
deferred tasks) through every hook, and a number is new (`NextOwn`) or only in the journal
of that process id (`OwnIds`). `ToldInv` carries the count to the run the launcher makes of the
journals: one diagnostic for each unusable line (`AllDiagnosed`), and every entry listed
(`AllInOrder`: ordering a finite set by rank leaves nobody out).

A part of it is about the matcher alone, for any entries with distinct numbers and any list
of outcomes. `Fits(e, o)` is what every way of `matchOutcome` comes to: same run, session,
spec file and attempt (an entry of spec scope: no attempt), and a name that is one of the
outcome's. `MatchAllJoins`: after the three passes an outcome is joined only to an entry that
fits it, and an entry of a test to two outcomes only if they are of one scenario
(`Joined`). `JoinKeeps` proves this of one outcome. A pass is a fold over the outcomes and
the report a concatenation of fragments; both are written out as functions of how far they
have come, and what holds of every step holds at the end, because there would be a first
place where it does not (`PassKeeps`, `FlattenFacts`, `ReverseFacts`). `MatchAllFinds` is the
other direction: an outcome is joined if an entry has its very names (`TellsOf`) and fits no
other outcome but those of the same scenario (`OnlyOne`). The exact pass has it at its
turn, since whoever has taken the entry before is of the same scenario and is
remembered (`Awaits`, `Remembered`), and what is joined stays so (`PassStays`).

The last part has one lemma for each step of a worker (`Settle`, the step and the line it
writes in one) and says that results it holds stay those of executions, which the
next module builds on.

**RecordedEntries_proof** — `ResultsInvariant`, `TruthInvariant`, `EntryTruthfulHolds`,
`NamesInvariant`, `ReportFitsHolds` and `OwnVideoShownHolds`, for every scene, any tests,
retries of tests and of spec files, and any number of workers. Assumed are the settings and tests a scene
can have (`SceneAssumption`: what the option types, the framework adapters and the stable
ids of Cucumber's scenarios give), that `Us` is a launcher, and that `None` is none of
the values it stands beside. `EntryTruthful` compares what is published at the end with what
the reporter heard in the meantime, so that two invariants are needed. Both
speak of `Now`, the worker as it will be once the line it is writing is written
(`Settle`): the await of the journal falls away, and each hook becomes one step.

- `SoundInv`, whatever goes wrong: each entry the worker has at hand or in its journal has
  the result of an execution it covers, or none, and covers no execution that has not been
  begun (`Elapsed`). Outcomes are of executions that are over, in order, and what is torn,
  interrupted or overlapped only leaves results out. This gives the first half of the
  property.
- `TruthInv`, without faults and overlapping tests: the worker is `Whole`. Its counters are
  what the reporter was told, since the retry of the framework, counted by the worker from
  titles (`entityAttemptCount`), and that of the launcher come to the larger of the two
  retries of the execution (`Counted`, `Level`); each completed entry is what the outcomes come
  to (`Completing`); in spec scope the draft is what those heard so far come to
  (`SpecFilm`). `RecordedTold` says that every entry ever recorded is either `Settled`,
  in which case no later step changes what it should tell (`SettledStays`, from `Advances`:
  the executions it covers are past), or still with its worker. Since no line is lost, the
  journals, the launcher's run and the manifest hold nothing else.

The reporter takes an outcome of one test, attempt and status down once, so that in a
spec file that is retried a second try may leave no outcome of its own: `HeardTest` says that
one which tells the same was heard. That the worker's attempt is the reporter's is `RetryIsLevel`.

`ReportInvariant` is about what the report is made of: all the outcomes of the reporters that
could write theirs (`Reported`), and a run that is published. With `MatchAllJoins` it gives
`ReportFitsHolds`, again whatever the tests are called and whatever goes wrong: the report
leaves no outcome and no entry out, invents none, shows an outcome only with an entry that
fits it, and the video of one test under one test.

`OwnVideoShownHolds` goes on from there, for runs whose tests are told apart by their names
(`NamesTell`: each test has a full name and a spec file of the worker, and no two of a spec
file are called alike, in whatever case). Three more invariants are needed.
`NamesInv`: wherever an entry is, at work, in a journal, with a launcher or published, the
executions it covers are in the plan and it bears their test's name and spec file
(`Ours`); and each outcome bears those of its own and the attempt the reporter counts
(`SaidOf`). It rests on the reporter being told of a test only while that runs
(`OnlyTestsSay`). `OnceInv`: a launcher publishes one run of ours, all of its
entries were read from whole lines, and of a Mocha run no execution is reported twice.
`ReportInv` as above. Then an entry that fits an outcome is of its test (`Recognized`, by
the names) and, unless its attempt was guessed, of its execution (`SameAttempt`):
`OwnOrGuessed` is the first claim of the property. For the second one, the execution's own
entry has the very names of the outcome (`OwnTells`), what else it fits is of the same
execution (`OneExecution`), so it is found by `MatchAllFinds`. Neither needs that
namesakes are excepted, as they are where names are alike. The scenes `SpecRetries`,
`Filtered` and `SpecRetried` of the run are of this kind.

**ScreencastRecorder_proof** — `TypeCorrect`, `BlocksAscendHolds`,
`AcceptedFramesShownHolds`, `EndsOnAStepHolds`, `EarlyExitReportedHolds`,
`PunctualFramesStartOnTimeHolds` and `BlocksBoundedHolds`, for any number of frames and ticks, any sizes, any
limits and any grid. The properties are about what has been written when the
recorder stops; the invariant is about `Sent`, the blocks written and pending in their
order, so that the writer leaves it alone. `LineInv`: they ascend and stay behind the
end of the timeline. `ShownInv`: as long as nothing was thrown away, every position of
the timeline shows the last frame that starts there or before. `EndInv`: from the
flush on, the last two blocks are one step apart. `PunctualInv`: the
timeline has not been held past what a punctual frame may still claim.
`ProcessInv` relates the stages of stop and abort to the encoder's, and gives
`EarlyExitReported`. `RoomInv` is the half of `QueueBounded` that counts blocks: until the
flush there is room for one of the held frame unless the last one pending is its own. The
bytes are a sum over a set, for which the provers have no induction.

**ContextFollower_proof** — `FollowerInvariant`, `TypeCorrect`, `SlotFollowsCaptureHolds`
and `SegmentFilmedOnceHolds` for every test, every tab and every fault; `FailureIsOwnHolds` when no command outlasts its test
(`~Stray`); `CompletedIsCompleteHolds` when the browser's tree can be read as well
(`~TreeFaults`). The two hypotheses are the divergences of section 3: without `~Stray`
FollowLate is the counterexample to `FailureIsOwn`, without `~TreeFaults` an unresolved
tab is filmed by nobody. Assumed besides: `None` is no tab, number, operation, command
or switch.

None of the properties is inductive, because the controller works through `steps`, and a
step is right only for what the steps before have done. The first layer, `ControlInv`,
says what each word in `steps` may be followed by (`Planned`: an operation has only the
rest of its own plan left), who waits on the chain (`ChainOK`: one operation per caller)
and what slot, capture and lifecycle are when a word comes next (`Phase`). It is proved
for any callers; `FollowerInv` adds that a hook waits for its own operation.
`SlotFollowsCapture` is what is left of it between operations, and `SegmentFilmedOnce`
follows since a start comes only in a phase where the segment number has moved. The second layer,
`SerialInv`, has at most one operation on the chain, of a command within its test, so a
gap charged to `failure` has the slug of the recording under way. The third,
`CompleteInv`, follows a command through its hook: what it asked for (`HookFits`),
what the follower knows of the tab (`Introduced`, `SwitchPending`, `CurrentKnown`),
which tab it may leave unfilmed (`ClosingSettled`, `WindowCovered`, `GapOfSwitch`), until
every gap is `Known` before the recording completes (`DrivenCovered`, `GapsKnown`),
and a verdict stands (`Verdicts`).

**SegmentMedia_proof** — `BaseHolds` (types and session), `IncompleteNotProcessedHolds`,
`OutcomeExactHolds`, `ListedInOrderHolds`, `CompletedIsTrueHolds` and `NothingLostHolds`,
for any segments and entries, any set of configurations, any number of tasks at a
time, lost and unreadable files, failing journals and a kill at any step. Assumed:
segments are finitely many natural numbers, `EntryOf` is a function, `MaxProcesses` is
positive, `None` is nothing else.

The properties speak of an entry whose tasks are over, the invariant of every point
before. `Awaited(e)` are the tasks of an entry that have been queued and not dropped; a task
is in `Open(e)` until `completeDeferred` has taken its report in, in `Reports(e)` from then
on. Six layers are each inductive relative to ones before. `BaseInv` has the types, what a
phase of the worker rules out, which files the recording under way has
gathered, and that entries with content have been completed (`Begun`). `OutcomeInv`: an
entry waits for as many tasks as are open (`Counted`), and its outcome is what the reports so
far say (`Outcomes`). `ListInv`: lists stay ordered by content and labelled with
their own tabs, and the raw files of an open task are still listed (`Lists`), so that
replacing them by an output finds them as one block. `TrueInv`: a completed
entry, the one in memory, in the journal or waiting to be written, lists only outputs
that exist and raw files nobody awaits (`Proper`). `HeldInv`: at each station of a task one
of its files holds each of its segments, and when it has reported, one that its entry
lists (`Held`); a segment no task awaits is a raw file on the list. `PartialInv`, on `BaseInv`: a segment whose capture failed is a raw file or gone, is in no
task, and its recording is broken until its entry is failed, which it stays. That
two tasks never touch one another's files rests on tasks of an entry being disjoint.
The provers do not see through the library's folds and sorts (`SelectSeq`,
`SetToSortSeq`): `Keeping`, which filters a list, is a recursive function whose lemmas are
proved by a least counterexample, and `Ascending` chooses the segment of each rank, with
lemmas about ranks from cardinalities.

Checked by TLC only: all liveness (`AcquireReturns`, `AbandonedReclaimed`,
`EntrySettles`, `EveryRecordingCloses`, `HooksReturn`, `RecorderReleased`,
`TeardownReturns`, `RunReported`, the fairness of SlotPool), which
is out of the prover's reach; the bytes of `QueueBounded`; and `OwnVideoShown` where tests are called alike. Of those
reports is proved that what they put together fits together (`ReportFits`); that the entry
that fits is the outcome's own depends on which namesakes' entries are left and in
which order they come, which `OwnVideoShown` says case by case and the scenes
`MochaTests`, `Scenarios`, `Namesakes`, `Rows` and `RowsAgain` go through. What is stated of an entry of
spec scope is what the code means by it: its attempt is that of the execution whose start
came last (`setCurrentAttempt` runs for each), and `retain: on-failure` looks at every test
of the worker (`specHadFailure`), recorded or not.

## 5. What is left out, and the plan

### Not modelled

Because there is little to check: option validation, ffmpeg
discovery, HTML rendering, the byte layout of Matroska files, page lookup
heuristics, the construction of video names, Allure attachment, logging, wiring, the
benchmark scripts. `PROJECT.json` gives the reason for each.

Abstractions of what is modelled: clock values (deadlines and ages are events, except in
ScreencastRecorder); the classic window path (`beforeWindowCommand`,
`afterWindowCommand`) is not in RecordingControl; frames
stand for their top-level tab; a recorder that stalls is a stop that is unclean;
`acquire()` in RecordingControl is a call that yields a slot or fails, its
inside being RecordingSlots. One worker of a run is followed in WorkerEntities: the others
write journals of their own. That the flag of `runInternal()` reaches the hooks of the
service's own commands is AsyncLocalStorage's promise. Immediate processing is one step
in SegmentMedia.

### Next

1. The start-up of the recorder (`recordScreencast`: each await that may fail must leave
   no process and no session behind), ahead of ScreencastRecorder's `Init`.
2. The classic window path in RecordingControl, and the two observations about
   `README.md:457` and `README.md:459` as runs.
3. ContextFollower with WorkerEntities, so that a reload meets both attempts and tabs.
