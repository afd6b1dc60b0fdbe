--------------------------- MODULE WorkerEntities ---------------------------
(***************************************************************************)
(* One run of the service: the worker processes the launcher starts for a  *)
(* set of spec files (src/launcher.ts), the hooks of each worker           *)
(* (worker-runtime.ts), the decisions of its coordinator                   *)
(* (worker-recording-coordinator.ts), and the entries its manifest         *)
(* recorder (manifest-runtime.ts) journals: a checkpoint when an entity    *)
(* begins, and every change of it after that.                              *)
(*                                                                         *)
(* The recording itself is abstracted to the execution it was started for: *)
(* RecordingControl, DeferredMedia and ArtifactPublication model it.  One  *)
(* worker of the run is followed, which WebdriverIO starts again when its  *)
(* spec files fail; the others share nothing with it before onComplete.    *)
(***************************************************************************)
EXTENDS RunManifest

INSTANCE RecordingPolicy
INSTANCE ReportMatching

CONSTANTS
    Us,             \* the launcher of this run
    Pids,           \* process ids the operating system hands out
    Scenes          \* settings and tests of a run, and its MaxFaults: the
                    \* bound on what goes wrong in one behaviour

ASSUME UsAssumption == Us \in Launchers

Parallel == "parallel-mode-unsupported"

\* The settings a run can have.  A framework says skipped only of a Mocha test
\* and, as for the pending ones, only once it was begun; a name is given, and
\* Cucumber tells its scenarios apart.
ASSUME SceneAssumption ==
    \A s \in Scenes :
        /\ s.framework \in {"mocha", "cucumber"}
        /\ s.scope \in {"test", "spec"}
        /\ s.attempts \in {"all", "retries"}
        /\ s.retain \in {"all", "on-failure", "retries"}
        /\ s.chromium \in BOOLEAN /\ s.deferred \in BOOLEAN
        /\ s.reason \in {None, Parallel}
        /\ s.results \subseteq {"passed", "failed", "skipped"}
        /\ s.framework = "cucumber" => "skipped" \notin s.results
        /\ s.specs # <<>> /\ s.specs \in Seq(Range(s.specs) \ {None})
        /\ s.plan # <<>> /\ s.plan \in Seq(Range(s.plan))
        /\ \A i \in DOMAIN s.plan :
              /\ s.plan[i].retries \in Nat
              /\ DOMAIN s.plan[i].test =
                    {"kind", "id", "name", "fullName", "retryCounters",
                     "specCandidates", "file", "tagSources", "pending"}
              /\ s.plan[i].test.name # None
              /\ s.plan[i].test.kind =
                    IF s.framework = "mocha" THEN "test" ELSE "scenario"
              /\ s.plan[i].test.pending = FALSE
        /\ s.framework = "cucumber" =>
              \A i, j \in DOMAIN s.plan :
                  RetryTrackingKey(Entity(s.plan[i].test)) =
                     RetryTrackingKey(Entity(s.plan[j].test)) => i = j

\* What is absent is neither a number, nor an execution, nor a text given here,
\* nor the identity of a test.
ASSUME NoneAssumption ==
    /\ None \notin Nat
    /\ None \notin Nat \X Nat \X Nat
    /\ None \notin {"0-0", "filtered", "recording-hooks-unavailable"}
    /\ \A s \in Scenes : \A i \in DOMAIN s.plan :
          None # [name |-> s.plan[i].test.name,
                  fullName |-> s.plan[i].test.fullName]

VARIABLES
    scene,          \* the settings and tests of this run
    process,        \* the worker process, NoWorker when there is none
    starts,         \* the spec retry keys of the workers started so far
    due,            \* whether WebdriverIO has a worker to start
    nextId,         \* numbers the entries
    recorded,       \* every entry as its last wholly written line has it
    fragments,      \* the outcomes of the reporters of workers that ended
    faults          \* how much has gone wrong

workerVars ==
    <<scene, process, starts, due, nextId, recorded, fragments, faults>>

Cid == "0-0"

\* No worker is running, and it has no current entity.
NoWorker == [hook |-> "none"]
NoDraft == [id |-> 0]

Interrupted == "worker-interrupted-before-finalization"

Occurrences(x, seq) == Cardinality({i \in DOMAIN seq : seq[i] = x})

\* Nothing that costs a fault happens once they are used up.
Fault == faults < scene.maxFaults /\ faults' = faults + 1

----------------------------------------------------------------------------
(* The launcher starts a worker.                                           *)

NewProcess(pid, retry) ==
    [pid |-> pid, retry |-> retry,
     chromium |-> scene.chromium, reason |-> scene.reason,
     hook |-> "begin", at |-> 1, try |-> 0, resume |-> "exit",
     draft |-> NoDraft, already |-> FALSE, last |-> None, completed |-> {},
     begun |-> <<>>, seen |-> <<>>, overlapRecorded |-> FALSE,
     recording |-> None, active |-> 0, failed |-> FALSE,
     tasks |-> <<>>, write |-> NoEntry, then |-> None,
     result |-> None, outcomes |-> <<>>, bad |-> FALSE, reloaded |-> FALSE]

InitWorkers ==
    /\ scene \in Scenes
    /\ process = NoWorker
    /\ starts = <<>>
    /\ due = TRUE
    /\ nextId = 1
    /\ recorded = {}
    /\ fragments = <<>>
    /\ faults = 0

\* Other capabilities than the static ones may differ between the starts.
Capabilities == [browserName |-> "chrome", debuggerPort |-> Len(starts)]

\* onWorkerStart: the attempt of the spec files is the number of workers that
\* were started under the same key.
StartWorker(pid) ==
    LET key == SpecRetryKey(Cid, scene.specs, <<Capabilities>>) IN
    /\ At(Us, "running")
    /\ process = NoWorker /\ due
    /\ starts = <<>> => pid = CHOOSE p \in Pids : TRUE
    /\ process' = NewProcess(pid, Occurrences(key, starts))
    /\ starts' = Append(starts, key)
    /\ due' = FALSE
    /\ UNCHANGED <<scene, nextId, recorded, fragments, faults>>

\* WebdriverIO starts a worker that failed again while retries are left.
WorkerEnds(failed) ==
    /\ process' = NoWorker
    /\ due' = (failed /\ Len(starts) <= scene.specRetries)

----------------------------------------------------------------------------
(* The entity a hook is about.                                             *)

Planned == scene.plan[process.at]
Execution == <<process.retry, process.at, process.try>>

\* Mocha says which retry it is in, Cucumber does not.
Test ==
    [Planned.test EXCEPT !.retryCounters =
        IF scene.framework = "mocha" THEN <<process.try>> ELSE <<None>>]

Current == Entity(Test)

Overlapping == process.reason = Parallel

Available == process.chromium /\ process.reason = None

\* The spec file the entry names.  A scenario comes without a file of its own.
ManifestSpec(file) ==
    IF Len(scene.specs) = 1 THEN scene.specs[1]
    ELSE FirstGiven(<<file>> \o scene.specs)

IdentityKey(entity) ==
    <<scene.scope, ManifestSpec(Test.file),
      FirstGiven(<<entity.fullName, entity.name>>)>>

\* Attempts are inferred from how often the worker has begun the identity.
CreateDraft(p, entity) ==
    [id |-> nextId,
     attempt |-> Occurrences(IdentityKey(entity), p.begun) + 1,
     scope |-> scene.scope,
     spec |-> ManifestSpec(Test.file),
     test |-> IF scene.scope = "test"
              THEN [name |-> FirstGiven(<<entity.name, entity.fullName>>),
                    fullName |-> entity.fullName]
              ELSE None,
     result |-> "unknown",
     covers |-> {Execution}]

----------------------------------------------------------------------------
(* The manifest recorder.                                                  *)

CombineResults(results) ==
    CASE "failed" \in results -> "failed"
      [] "failed" \notin results /\ "passed" \in results -> "passed"
      [] {"failed", "passed"} \cap results = {} /\ "skipped" \in results ->
             "skipped"
      [] OTHER -> "unknown"

BuildEntry(draft, options, result) ==
    [id |-> draft.id, run |-> Us, cid |-> Cid,
     spec |-> draft.spec, test |-> draft.test, scope |-> draft.scope,
     attempt |-> draft.attempt,
     result |-> result,
     decision |-> options.decision,
     segments |-> options.paths,
     reason |-> options.reason,
     outcome |-> options.outcome,
     operation |-> options.operation,
     timing |-> IF options.outcome = "pending" THEN "after-worker"
                ELSE "after-test",
     covers |-> draft.covers]

Kept(entries, entry) == {e \in entries : e.id # entry.id} \cup {entry}

\* The recorder keeps the entry and waits for its line to be written.
Journaled(p, entry, then) ==
    [p EXCEPT !.completed = Kept(@, entry),
              !.write = entry, !.then = then, !.hook = "write"]

Checkpoint ==
    [decision |-> "failed", paths |-> <<>>, reason |-> Interrupted,
     outcome |-> "failed", operation |-> "capture"]

Failure(reason, paths, operation) ==
    [decision |-> "failed", paths |-> paths, reason |-> reason,
     outcome |-> "failed", operation |-> operation]

Decline(reason) ==
    [decision |-> "skipped", paths |-> <<>>, reason |-> reason,
     outcome |-> "skipped", operation |-> None]

\* The next test, or the next try of this one, or the end of the worker.
Advance(p) ==
    LET retried == p.result = "failed" /\ p.try < scene.plan[p.at].retries
        q == [p EXCEPT !.bad = @ \/ (p.result = "failed" /\ ~retried),
                       !.result = None]
    IN CASE retried -> [q EXCEPT !.try = @ + 1, !.hook = "begin"]
         [] ~retried /\ p.at < Len(scene.plan) ->
                [q EXCEPT !.at = @ + 1, !.try = 0, !.hook = "begin"]
         [] OTHER -> [q EXCEPT !.hook = "teardown"]

\* resetWorkerState, at the end of every teardown.
ResetWorkerState(p) ==
    [p EXCEPT !.seen = <<>>, !.failed = FALSE, !.active = 0,
              !.overlapRecorded = FALSE,
              !.hook = p.resume, !.resume = "exit"]

Continue(p, then) ==
    CASE then = "next" -> Advance(p)
      [] then = "reset" -> ResetWorkerState(p)
      [] OTHER -> [p EXCEPT !.hook = then]

\* completeCurrent: without a current entity there is nothing to complete.
CompleteCurrent(p, options, result, then) ==
    IF p.draft = NoDraft THEN Continue(p, then)
    ELSE Journaled(
             [p EXCEPT !.draft = NoDraft, !.last = p.draft.id],
             BuildEntry(p.draft, options,
                        CombineResults({p.draft.result, result})),
             then)

----------------------------------------------------------------------------
(* beforeTest and beforeScenario.                                          *)

\* A whole entry in one step, apart from the current entity.
RecordSkippedEntity(p, reason, result, then) ==
    Journaled([p EXCEPT !.begun = Append(@, IdentityKey(Current))],
              BuildEntry(CreateDraft(p, Current), Decline(reason), result),
              then)

\* Tests that run at the same time each write an entry; of a spec only the
\* first does.
RecordParallelEntity ==
    /\ process.hook = "begin"
    /\ Overlapping
    /\ IF scene.scope = "spec" /\ process.overlapRecorded
       THEN /\ process' = [process EXCEPT !.hook = "test"]
            /\ UNCHANGED nextId
       ELSE /\ process' = RecordSkippedEntity(
                   [process EXCEPT !.overlapRecorded = TRUE],
                   Parallel, Current.skippedResult, "test")
            /\ nextId' = nextId + 1
    /\ UNCHANGED <<scene, starts, due, recorded, fragments, faults>>

\* The entry of a spec is begun once, the other tests join it.
JoinSpecEntry ==
    /\ process.hook = "begin"
    /\ ~Overlapping
    /\ scene.scope = "spec" /\ process.draft # NoDraft
    /\ process' = [process EXCEPT !.already = TRUE,
                                  !.draft.covers = @ \cup {Execution},
                                  !.hook = "eligible"]
    /\ UNCHANGED <<scene, starts, due, nextId, recorded, fragments, faults>>

\* The checkpoint says that the recording was interrupted, for the case that
\* nothing more is ever written.
BeginEntity ==
    /\ process.hook = "begin"
    /\ ~Overlapping
    /\ scene.scope = "test" \/ process.draft = NoDraft
    /\ LET draft == CreateDraft(process, Current) IN
       process' = Journaled(
           [process EXCEPT !.already = FALSE, !.draft = draft,
                           !.begun = Append(@, IdentityKey(Current))],
           BuildEntry(draft, Checkpoint, "unknown"),
           "eligible")
    /\ nextId' = nextId + 1
    /\ UNCHANGED <<scene, starts, due, recorded, fragments, faults>>

\* completeSkippedEntity leaves an entry alone that other tests are part of.
Skipped(p, reason) ==
    IF p.already THEN Continue(p, "test")
    ELSE CompleteCurrent(p, Decline(reason), Current.skippedResult, "test")

SkipIneligible ==
    LET reason == IneligibleReason(Current, Available, process.reason,
                                   scene.filters)
    IN
    /\ process.hook = "eligible"
    /\ reason # None
    /\ process' = Skipped(process, reason)
    /\ UNCHANGED <<scene, starts, due, nextId, recorded, fragments, faults>>

Eligible ==
    /\ process.hook = "eligible"
    /\ IneligibleReason(Current, Available, process.reason,
                        scene.filters) = None

\* Mutant: executions are not counted when the framework does not count them.
InferredRetryNever(p) == None

\* The executions of the entity so far, unless the framework counts them.
InferredRetry(p) ==
    IF Current.explicitRetry # None THEN None
    ELSE Occurrences(RetryTrackingKey(Current), p.seen)

Retry == EffectiveRetry(Current, process.retry, InferredRetry(process))

\* The attempt is settled: consumeInferredRetry and setCurrentAttempt.
Attempted ==
    [process EXCEPT
        !.seen = Append(@, RetryTrackingKey(Current)),
        !.draft = IF @ = NoDraft THEN NoDraft ELSE [@ EXCEPT !.attempt = Retry + 1]]

Decision == StartDecision(scene, Retry, process.recording # None)

SkipFirstAttempt ==
    /\ Eligible
    /\ Decision = "skip"
    /\ process' = Skipped(Attempted, "first-attempt")
    /\ UNCHANGED <<scene, starts, due, nextId, recorded, fragments, faults>>

ContinueSpec ==
    /\ Eligible
    /\ Decision = "continue-spec"
    /\ process' = [Attempted EXCEPT !.active = Max({@, Retry}), !.hook = "test"]
    /\ UNCHANGED <<scene, starts, due, nextId, recorded, fragments, faults>>

StartRecording ==
    /\ Eligible
    /\ Decision = "start"
    /\ process' = [Attempted EXCEPT !.recording = Execution, !.active = Retry,
                                    !.hook = "test"]
    /\ UNCHANGED <<scene, starts, due, nextId, recorded, fragments, faults>>

\* No recording could be started, and perhaps none will be any more.
StartFails(disables) ==
    /\ Eligible
    /\ Decision = "start"
    /\ Fault
    /\ process' = CompleteCurrent(
           [Attempted EXCEPT !.recording = None, !.active = 0,
                             !.reason = IF disables THEN "no-connection" ELSE @],
           Failure("recording-start-failed", <<>>, "capture"), "unknown", "test")
    /\ UNCHANGED <<scene, starts, due, nextId, recorded, fragments>>

----------------------------------------------------------------------------
(* The test runs; the reporter hears of it.                                *)

\* A test event as the reporter takes it down, with what really happened.
Said(uid, test, retries, scenarioRetries, status, result) ==
    [uid |-> uid, run |-> Us, cid |-> Cid, spec |-> Planned.spec,
     test |-> test,
     attempt |-> ReporterAttempt(process.retry, retries, scenarioRetries),
     status |-> status,
     execution |-> Execution, result |-> result,
     retry |-> Max({process.retry, process.try}),
     reloaded |-> process.reloaded]

TestSaid(result) ==
    Said(<<process.at>>,
         [name |-> Test.name, fullName |-> Test.fullName,
          parent |-> None, container |-> None],
         process.try, 0, result, result)

StepSaid(step, status, result) ==
    Said(<<process.at, step>>,
         [name |-> <<"step", step>>, fullName |-> None,
          parent |-> Test.id, container |-> Test.name],
         0, process.try, status, result)

\* A scenario has two steps, of which the last one gives its result.
Captured(outcomes, result) ==
    IF scene.framework = "mocha"
    THEN CaptureOutcome(outcomes, TestSaid(result))
    ELSE CaptureOutcome(
             CaptureOutcome(outcomes, StepSaid(1, "passed", result)),
             StepSaid(2, result, result))

RunTest(result) ==
    /\ process.hook = "test"
    /\ result \in scene.results
    /\ process' = [process EXCEPT !.result = result,
                                  !.outcomes = Captured(@, result),
                                  !.hook = "result"]
    /\ UNCHANGED <<scene, starts, due, nextId, recorded, fragments, faults>>

\* The test reloads its session: onReload tears the recording down, and the
\* new session need not be one of a Chromium browser.
ReloadSession(chromium) ==
    /\ process.hook = "test"
    /\ Fault
    /\ process' = [process EXCEPT !.resume = "test", !.chromium = chromium,
                                  !.hook = "teardown", !.reloaded = TRUE]
    /\ UNCHANGED <<scene, starts, due, nextId, recorded, fragments>>

----------------------------------------------------------------------------
(* afterTest and afterScenario.                                            *)

TestOutcome == Outcome(Test, process.result)

\* The result belongs to the current entity, or else to the one completed last.
RecordResult(p, result, then) ==
    LET last == {e \in p.completed : e.id = p.last} IN
    CASE p.draft # NoDraft ->
           Continue([p EXCEPT !.draft.result = CombineResults({@, result})],
                    then)
      [] p.draft = NoDraft /\ last # {} ->
           LET entry == CHOOSE e \in last : TRUE IN
           Journaled(p,
               [entry EXCEPT !.result = CombineResults({@, result}),
                             !.covers = @ \cup {Execution}],
               then)
      [] OTHER -> Continue(p, then)

EndEntity ==
    /\ process.hook = "result"
    /\ process' =
          IF Overlapping THEN Advance(process)
          ELSE RecordResult(
                  [process EXCEPT !.failed =
                     @ \/ (scene.scope = "spec" /\ ~NonFailing(TestOutcome))],
                  TestOutcome.manifestResult, "finalize")
    /\ UNCHANGED <<scene, starts, due, nextId, recorded, fragments, faults>>

\* finalizeCurrentRecording, and how finalizing the media can end.
Finalized(p, passed, result, media, then) ==
    LET keep == ShouldRetain(scene.retain, passed, p.active)
        options ==
            CASE media = "done" ->
                   CompletedOptions(
                       [captureFailed |-> FALSE,
                        deferred |-> keep /\ scene.deferred,
                        paths |-> IF keep THEN <<p.recording>> ELSE <<>>],
                       keep, result, scene.processing)
              [] media = "capture-failed" ->
                   CompletedOptions(
                       [captureFailed |-> TRUE, deferred |-> FALSE,
                        paths |-> <<p.recording>>],
                       keep, result, scene.processing)
              [] media = "error" -> Failure("media", <<p.recording>>, None)
        deferred == options.outcome = "pending" /\ p.draft # NoDraft
    IN CompleteCurrent(
           [p EXCEPT !.recording = None, !.active = 0,
                     !.tasks = IF deferred THEN Append(@, p.draft.id) ELSE @],
           options, result, then)

FinalizeTest(media) ==
    /\ process.hook = "finalize"
    /\ IF scene.scope = "test" /\ process.recording # None
       THEN process' = Finalized(process, NonFailing(TestOutcome),
                                 TestOutcome.manifestResult, media, "next")
       ELSE media = "done" /\ process' = Advance(process)
    /\ IF media = "done" THEN UNCHANGED faults ELSE Fault
    /\ UNCHANGED <<scene, starts, due, nextId, recorded, fragments>>

----------------------------------------------------------------------------
(* after, afterSession and onReload.                                       *)

\* The recording of a spec is finalized; one of a test that is still running
\* is given up, and its entry stays what it is.
Teardown(media) ==
    /\ process.hook = "teardown"
    /\ IF process.recording # None /\ scene.scope = "spec"
       THEN process' = Finalized(process, ~process.failed, "unknown", media,
                                 "flush")
       ELSE /\ media = "done"
            /\ process' = [process EXCEPT !.recording = None, !.active = 0,
                                          !.hook = "flush"]
    /\ IF media = "done" THEN UNCHANGED faults ELSE Fault
    /\ UNCHANGED <<scene, starts, due, nextId, recorded, fragments>>

\* A deferred task ends: completeDeferred rewrites its entry.
CompleteDeferred(whole) ==
    /\ process.hook = "flush"
    /\ process.tasks # <<>>
    /\ LET entry == CHOOSE e \in process.completed : e.id = Head(process.tasks)
       IN process' = Journaled(
              [process EXCEPT !.tasks = Tail(@)],
              [entry EXCEPT !.timing = "after-worker",
                            !.outcome = IF whole THEN "completed" ELSE "failed",
                            !.decision = IF whole THEN "recorded" ELSE "failed",
                            !.operation = Operation(scene.processing),
                            !.reason = IF whole THEN None ELSE "ffmpeg"],
              "flush")
    /\ IF whole THEN UNCHANGED faults ELSE Fault
    /\ UNCHANGED <<scene, starts, due, nextId, recorded, fragments>>

EndTeardown ==
    /\ process.hook = "flush"
    /\ process.tasks = <<>>
    /\ process' = ResetWorkerState(process)
    /\ UNCHANGED <<scene, starts, due, nextId, recorded, fragments, faults>>

\* onRunnerEnd writes the outcomes of the worker, or fails to; then it exits.
ExitWorker(reported) ==
    /\ process.hook = "exit"
    /\ fragments' = IF reported THEN Append(fragments, process.outcomes)
                    ELSE fragments
    /\ IF reported THEN UNCHANGED faults ELSE Fault
    /\ WorkerEnds(process.bad)
    /\ UNCHANGED <<scene, starts, nextId, recorded>>

----------------------------------------------------------------------------
(* The journal of the worker.                                              *)

JournalFile == <<Cid, process.pid>>

Append1(line) ==
    LET files == journals[Us]
        lines == IF JournalFile \in DOMAIN files THEN files[JournalFile]
                 ELSE <<>>
    IN journals' = [journals EXCEPT ![Us] =
           [f \in DOMAIN files \cup {JournalFile} |->
               IF f = JournalFile THEN AppendLine(lines, line) ELSE files[f]]]

WriteLine ==
    /\ process.hook = "write"
    /\ Append1(Line(process.write))
    /\ recorded' = Kept(recorded, process.write)
    /\ process' = Continue([process EXCEPT !.write = NoEntry], process.then)
    /\ UNCHANGED <<scene, starts, due, nextId, fragments, faults>>

\* The append fails, with nothing or part of the line on disk.  Under failure
\* policy "error" the hook ends there: an entity that could not be announced
\* is not started, deferred tasks behind a spec that could not be written wait.
WriteFails(torn) ==
    LET p == [process EXCEPT !.write = NoEntry] IN
    /\ process.hook = "write"
    /\ Fault
    /\ IF torn THEN Append1([entry |-> NoEntry, ended |-> FALSE])
       ELSE UNCHANGED journals
    /\ process' =
          IF scene.failurePolicy = "error" /\ p.then = "eligible"
          THEN Continue(p, "test")
          ELSE IF scene.failurePolicy = "error" /\ p.then = "flush"
          THEN Continue(p, "reset")
          ELSE Continue(p, p.then)
    /\ UNCHANGED <<scene, starts, due, nextId, recorded, fragments>>

\* The worker is killed while it writes a line, which ends up in the journal
\* not at all, in part, or whole without its newline.  Killed elsewhere it
\* leaves what it leaves when it is killed before its next line, or at its end.
KillWorker(left) ==
    /\ process.hook \in {"write", "exit"}
    /\ process.hook = "exit" => left = "nothing"
    /\ Fault
    /\ CASE left = "nothing" -> UNCHANGED <<journals, recorded>>
         [] left = "part" ->
              /\ Append1([entry |-> NoEntry, ended |-> FALSE])
              /\ UNCHANGED recorded
         [] left = "whole" ->
              /\ Append1([entry |-> process.write, ended |-> FALSE])
              /\ recorded' = Kept(recorded, process.write)
    /\ WorkerEnds(TRUE)
    /\ UNCHANGED <<scene, starts, nextId, fragments>>

\* Everything the worker does without touching a file of the run.
WorkerStep ==
    \/ \E pid \in Pids : StartWorker(pid)
    \/ RecordParallelEntity
    \/ JoinSpecEntry
    \/ BeginEntity
    \/ SkipIneligible
    \/ SkipFirstAttempt
    \/ ContinueSpec
    \/ StartRecording
    \/ \E disables \in BOOLEAN : StartFails(disables)
    \/ \E result \in {"passed", "failed", "skipped"} : RunTest(result)
    \/ \E chromium \in BOOLEAN : ReloadSession(chromium)
    \/ EndEntity
    \/ \E media \in {"done", "capture-failed", "error"} : FinalizeTest(media)
    \/ \E media \in {"done", "capture-failed", "error"} : Teardown(media)
    \/ \E whole \in BOOLEAN : CompleteDeferred(whole)
    \/ EndTeardown
    \/ \E reported \in BOOLEAN : ExitWorker(reported)

JournalStep ==
    \/ WriteLine
    \/ \E torn \in BOOLEAN : WriteFails(torn)
    \/ \E left \in {"nothing", "part", "whole"} : KillWorker(left)
=============================================================================
