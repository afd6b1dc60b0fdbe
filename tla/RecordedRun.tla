---------------------------- MODULE RecordedRun ----------------------------
(***************************************************************************)
(* A whole run: its workers journal their entries, its launcher publishes  *)
(* them in the manifest of an output directory that other launchers use as *)
(* well, and makes the report of it.                                       *)
(***************************************************************************)
EXTENDS WorkerEntities

VARIABLE report     \* the outcomes in the report, None until it is written

vars == <<manifestVars, workerVars, report>>

Others == Launchers \ {Us}

Init == InitManifest /\ InitWorkers /\ report = None

WorkerActs ==
    /\ WorkerStep
    /\ UNCHANGED <<manifestVars, report>>

WorkerWrites ==
    /\ JournalStep
    /\ UNCHANGED <<manifest, lock, launcher, report>>

----------------------------------------------------------------------------
(* onComplete of the launcher, once no worker is left to start.            *)

CompleteRun ==
    /\ process = NoWorker /\ ~due
    /\ Aggregate(Us, IF faults = 0 THEN 0 ELSE 1)
    /\ UNCHANGED <<workerVars, report>>

PersistRun ==
    /\ Persist(Us)
    /\ UNCHANGED <<workerVars, report>>

PersistRunFails ==
    /\ process = NoWorker /\ ~due
    /\ PersistFails(Us)
    /\ Fault
    /\ UNCHANGED <<scene, process, starts, due, nextId, recorded, fragments,
                   report>>

\* generateVideoReportForRun takes the manifest that was just published.  The
\* fragments are read in the order of their file names, which is not the one
\* they were written in.  Without a fragment there is no report.
GenerateReport ==
    /\ At(Us, "reporting")
    /\ \E read \in {fragments, Reverse(fragments)} :
          report' = IF fragments = <<>> THEN None ELSE FlattenSeq(read)
    /\ Moves(Us, "done")
    /\ UNCHANGED <<journals, manifest, lock, workerVars>>

\* writeFileAtomically fails: the report stays what it was.
ReportFails ==
    /\ At(Us, "reporting")
    /\ Fault
    /\ Moves(Us, "done")
    /\ UNCHANGED <<journals, manifest, lock, scene, process, starts, due,
                   nextId, recorded, fragments, report>>

\* What the report shows.
Shown == ReportItems(launcher[Us].run.entries, report)

----------------------------------------------------------------------------
(* Other launchers complete their runs at the same time.  What they did    *)
(* before is in the manifest this run begins with.                         *)

OtherCompletes(l) ==
    /\ scene.contended
    /\ launcher[Us].stage \notin {"running", "done"}
    /\ Aggregate(l, 0) \/ Persist(l) \/ (At(l, "reporting") /\ Moves(l, "done")
                                         /\ UNCHANGED <<journals, manifest, lock>>)
    /\ UNCHANGED <<workerVars, report>>

OtherFails(l) ==
    /\ scene.contended
    /\ launcher[l].stage # "running"
    /\ PersistFails(l)
    /\ Fault
    /\ UNCHANGED <<scene, process, starts, due, nextId, recorded, fragments,
                   report>>

Next ==
    \/ WorkerActs
    \/ WorkerWrites
    \/ CompleteRun
    \/ PersistRun
    \/ PersistRunFails
    \/ GenerateReport
    \/ ReportFails
    \/ \E l \in Others : OtherCompletes(l)
    \/ \E l \in Others : OtherFails(l)

Spec == Init /\ [][Next]_vars

\* The event loops of the processes run on, tests end, and a launcher goes on
\* with its completion; nothing needs to go wrong.
Fairness ==
    /\ WF_vars(WorkerActs /\ faults' = faults)
    /\ WF_vars(WorkerWrites /\ faults' = faults)
    /\ WF_vars(CompleteRun)
    /\ WF_vars(PersistRun)
    /\ WF_vars(GenerateReport)
    /\ \A l \in Others : WF_vars(OtherCompletes(l))

FairSpec == Spec /\ Fairness

----------------------------------------------------------------------------
(* What a run has published.                                               *)

OurRuns == {run \in Published : run.id = Us}
PublishedEntries == UNION {Range(run.entries) : run \in OurRuns}
Reported == UNION {Range(fragments[i]) : i \in DOMAIN fragments}

OutcomesOf(entry) == {o \in Reported : o.execution \in entry.covers}

\* The outcomes that decide whether its video is kept: for the recording of a
\* spec file those of every test of that worker, filmed or not.
Judged(entry) ==
    IF entry.scope = "test" THEN OutcomesOf(entry)
    ELSE {o \in Reported : \E p \in OutcomesOf(entry) :
             o.execution[1] = p.execution[1]}

\* The filters let the test be recorded.
Recordable(outcome) ==
    ShouldRecord(scene.filters, Entity(scene.plan[outcome.execution[2]].test))

----------------------------------------------------------------------------
(* Properties.                                                             *)

\* A published entry tells of the executions it stands for.  Its result is one
\* of theirs, and unless something went wrong it is what they come to; and the
\* entry has the attempt of one of them (that of a spec file stands for
\* several), and a video exactly when the retention setting asks for one: for
\* a retry of a test that is not filtered out, for a failure of any test.  An
\* entry the service had no part in keeps the attempt the manifest counted.
\* Results and attempts are put together from hooks, retry counters of three
\* sources and the state of the worker at the time.
EntryTruthful ==
    \A entry \in {e \in PublishedEntries : OutcomesOf(e) # {}} :
        LET outcomes == OutcomesOf(entry)
            results == {o.result : o \in outcomes}
            retries == {o.retry : o \in outcomes}
            retried == \E o \in outcomes : o.retry > 0
            failed == \E o \in Judged(entry) : o.result = "failed"
        IN
        /\ entry.covers \subseteq {o.execution : o \in outcomes} =>
              entry.result \in results \cup {"unknown"}
        /\ faults = 0 /\ scene.reason # Parallel =>
              /\ entry.result = CombineResults(results)
              /\ entry.decision # "skipped" \/ entry.reason = "first-attempt" =>
                    entry.attempt - 1 \in retries
              /\ entry.decision = "recorded" =>
                    /\ scene.retain = "on-failure" => failed
                    /\ scene.retain = "retries" => retried
                    /\ scene.attempts = "retries" => retried
              /\ entry.decision = "discarded" =>
                    /\ scene.retain # "all"
                    /\ scene.retain = "on-failure" => ~failed
                    /\ scene.retain = "retries" =>
                          \A o \in outcomes : Recordable(o) => o.retry = 0
              /\ entry.decision = "skipped" =>
                    \/ entry.reason = "filtered"
                    \/ ~scene.chromium
                    \/ scene.attempts = "retries" /\ ~retried
              /\ entry.decision # "failed"

\* Whatever was wholly written to a journal is in the published run as it was
\* written last, whether or not its worker lived on, unless the run says that
\* lines were spoiled.  A spoiled line costs the entry written there, and one
\* more for each write before it that was cut short: workers that are started
\* again under one process id go on behind the line of the one before.
NothingForgotten ==
    \A run \in OurRuns :
        LET lost == {e \in recorded : e \notin Range(run.entries)} IN
        /\ run.diagnostics = {} => lost = {}
        /\ Cardinality({e.id : e \in lost}) <=
              Cardinality(run.diagnostics) + faults

\* A run that is in the manifest stays there, unchanged, whatever launchers
\* complete at the same time, fail or are killed.
OtherRunsKept == [][Published \subseteq Published']_vars

\* What an execution is called in the report: two of one name, in one spec file,
\* are told apart by the order they ran in.
ShownName(outcome) ==
    IF outcome.test.container # None THEN outcome.test.container
    ELSE outcome.test.fullName

\* The executions of a spec file that are called as this one is.
CalledAlike(outcome) ==
    {o \in Range(report) :
        o.spec = outcome.spec /\ ShownName(o) = ShownName(outcome)}

Own(outcome) == {e \in PublishedEntries : outcome.execution \in e.covers}

\* The attempt of an entry that never started is how often its name came up.
Guessed(entry) == \E x \in entry.covers : entry.attempt # x[1] + x[3] + 1

GuessedAlike(outcome) ==
    \E e \in PublishedEntries :
        /\ e.spec = outcome.spec /\ e.test.fullName = ShownName(outcome)
        /\ Guessed(e)

\* The report never shows the video of an execution as that of another one,
\* except that of a namesake, when an entry of theirs is lost or has a guessed
\* attempt; and when nothing goes wrong, it shows every outcome with its entry,
\* unless the attempt of a namesake had to be guessed and was not the one.
\* The attempts the service and the reporter count on their own agree as long
\* as tests are not retried inside a spec file that is retried itself and do
\* not reload their session, which starts the count of the service anew; and
\* they name the same spec file as long as a worker runs the scenarios of one
\* feature file only.
OwnVideoShown ==
    report # None /\ scene.scope = "test" =>
        \A item \in {i \in Shown : i.outcome # None} :
            LET outcome == item.outcome
                namesakes == CalledAlike(outcome)
                plain ==
                    /\ \/ scene.specRetries = 0
                       \/ \A i \in DOMAIN scene.plan : scene.plan[i].retries = 0
                    /\ ~outcome.reloaded
                    /\ scene.framework = "mocha" \/ Len(scene.specs) = 1
            IN
            /\ item.entry # None /\ item.entry.segments # <<>> /\ plain =>
                  \/ item.entry \in Own(outcome)
                  \/ /\ item.entry.test.fullName = ShownName(outcome)
                     /\ \/ \E o \in namesakes :
                              /\ Own(o) = {}
                              /\ o.execution[2] <= outcome.execution[2]
                        \/ GuessedAlike(outcome)
            /\ faults = 0 /\ plain /\ scene.reason # Parallel
               /\ (\A o \in namesakes : Own(o) # {})
               /\ ~GuessedAlike(outcome) =>
                  item.entry \in Own(outcome)

\* The run comes to its end: its workers exit, the lock of the manifest is had
\* and the report is written, unless something went wrong on the way or the
\* manifest of the directory is none.
RunReported ==
    <>(\/ report # None
       \/ faults > 0 /\ launcher[Us].stage \in {"done", "dead"}
       \/ manifest = InvalidManifest /\ At(Us, "done"))
=============================================================================
