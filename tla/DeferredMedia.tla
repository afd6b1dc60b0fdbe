---------------------------- MODULE DeferredMedia ----------------------------
(***************************************************************************)
(* Deferred post-processing of a worker (processing.timing 'after-worker'):*)
(* src/service/recording-media-coordinator.ts drains its queue of tasks    *)
(* with several at a time, media-pipeline.ts transcodes or merges files,   *)
(* and every task reports to its manifest entry in manifest-runtime.ts,    *)
(* which appends the updated entry to the worker's journal.                *)
(*                                                                         *)
(* A segment is the number of its part file.  A task is the set of the     *)
(* segments it processes: one each when they are only transcoded, the      *)
(* retained ones of an entry when they are merged.  SegmentMedia records   *)
(* the segments, queues the tasks and completes the entries.               *)
(***************************************************************************)
EXTENDS Integers, FiniteSets, SequencesExt

CONSTANTS
    Segments,       \* recorded part files, in part order
    Entries,        \* manifest entries with deferred tasks
    EntryOf,        \* the entry of each segment
    Settings,       \* the configurations and kinds of failure to look at
    MaxProcesses,   \* concurrency.maxPostProcessesPerProcess
    None            \* undefined

ASSUME SegmentAssumption == Segments \subseteq Nat /\ IsFiniteSet(Segments)
ASSUME EntryAssumption == EntryOf \in [Segments -> Entries]
ASSUME WorkerAssumption == MaxProcesses \in Nat \ {0}

ASSUME SettingAssumption ==
    Settings \subseteq [deferred : BOOLEAN, merge : BOOLEAN,
                        transcode : BOOLEAN, throws : BOOLEAN,
                        strict : BOOLEAN, journalFaults : BOOLEAN,
                        doubtful : SUBSET Segments, losable : SUBSET Segments]

\* A manifest entry that lists such files with the tabs they show, the outcome
\* and timing of its processing, and the decision about its capture.  The tab of
\* a segment goes by the number of the segment; incomplete: the reason given is
\* "capture-incomplete".
EntriesListing(some) ==
    [listed : Seq([file : some, tabs : Seq(Segments)]),
     outcome : {"pending", "completed", "failed", "skipped"},
     timing : {"after-test", "after-worker"},
     decision : {"recorded", "failed", "discarded"},
     incomplete : BOOLEAN]

\* undefined is no flag, entry name, file or manifest entry.
ASSUME NoneAssumption ==
    LET held == [kind : {"raw", "merged", "final"}, of : SUBSET Segments] IN
    None \notin BOOLEAN \union Entries \union held \union EntriesListing(held)

SegmentsOf(e) == {s \in Segments : EntryOf[s] = e}

\* The elements of a finite set of numbers, smallest first.
Ascending(of) ==
    [n \in 1 .. Cardinality(of) |->
        CHOOSE r \in of : Cardinality({s \in of : s < r}) = n - 1]

\* The elements of a list that are among some, in the order of the list.
Keeping(list, some) ==
    LET kept[n \in 0 .. Len(list)] ==
            IF n = 0 THEN <<>>
            ELSE IF list[n] \in some THEN Append(kept[n - 1], list[n])
            ELSE kept[n - 1]
    IN kept[Len(list)]

\* Segments in part order.
InOrder == [of \in SUBSET Segments |-> Ascending(of)]

VARIABLES
    setting,        \* the configuration of this run
    up,             \* is the worker process running?
    files,          \* files that exist
    lost,           \* segments whose raw file somebody else removed
    queue,          \* the coordinator's tasks, in order
    expected,       \* has flush() registered the tasks with their entries?
    pc,             \* where each task stands
    step,           \* its current media operation, "merge" or "transcode"
    published,      \* publishedPaths, per task
    completion,     \* what a settled task reports to its entry, None before
    entries,        \* completedEntries
    outstanding,    \* outstandingTasks, 0 = no key
    writes,         \* journal appends that are chained
    journal,        \* the last valid line of each entry in the journal file
    torn            \* does the journal end in an incomplete line?

media == <<files, lost, queue, expected, step, published>>
manifest == <<entries, outstanding>>
journaling == <<writes, journal, torn>>
vars == <<setting, up, media, pc, completion, manifest, journaling>>

\* Is processing.timing 'after-worker'; processing.merge.enabled; is the output
\* transcoded to MP4; may processing throw and a best-effort unlink fail; is
\* failurePolicy 'error'; may appending to the journal fail, whole or in part?
\* Whose capture may go wrong, and whose raw file may others remove?
\* Inputs are deleted, as deleteOriginal and deleteSegments are by default.
Deferred == setting.deferred
Merge == setting.merge
Transcode == setting.transcode
Throws == setting.throws
Strict == setting.strict
JournalFaults == setting.journalFaults
Doubtful == setting.doubtful
Losable == setting.losable

\* The tasks there can be, when segments are merged and when they are not.
TaskSets ==
    [merge \in BOOLEAN |->
        IF merge THEN (UNION {SUBSET SegmentsOf(e) : e \in Entries}) \ {{}}
                 ELSE {{s} : s \in Segments}]
Tasks == TaskSets[Merge]
EntryOfTask(t) == EntryOf[CHOOSE s \in t : TRUE]
TasksOf(e) == {t \in Tasks : EntryOfTask(t) = e}

\* Files and the segments whose content they hold.
Raw(s) == [kind |-> "raw", of |-> {s}]
Merged(t) == [kind |-> "merged", of |-> t]
Final(t) == [kind |-> "final", of |-> t]
RawsOf(t) == [i \in DOMAIN InOrder[t] |-> Raw(InOrder[t][i])]
Files == {Raw(s) : s \in Segments} \union
         {Merged(t) : t \in Tasks} \union {Final(t) : t \in Tasks}

EntryValues == EntriesListing(Files)

Locations == {"queued", "check", "process", "published", "cleaned",
              "completing", "journaling", "done"}

TypeOK ==
    /\ setting \in Settings
    /\ up \in BOOLEAN /\ torn \in BOOLEAN /\ expected \in BOOLEAN
    /\ files \subseteq Files
    /\ lost \subseteq Losable
    /\ Range(queue) \subseteq Tasks
    /\ pc \in [Tasks -> Locations]
    /\ step \in [Tasks -> {"merge", "transcode"}]
    /\ \A t \in Tasks : published[t] \in {None, Merged(t), Final(t)}
    /\ \A t \in Tasks : completion[t] # None => completion[t].outcome # "pending"
    /\ entries \in [Entries -> EntryValues \union {None}]
    /\ journal \in [Entries -> EntryValues \union {None}]
    /\ outstanding \in [Entries -> 0 .. Cardinality(Segments)]
    /\ \A i \in DOMAIN writes : writes[i].task \in Tasks

ForEach(tasks, value) == [t \in tasks |-> value]
FirstSteps == ForEach(Tasks, IF Merge THEN "merge" ELSE "transcode")
NoEntries == [e \in Entries |-> None]

\* The state of a worker that has recorded nothing.
Init ==
    /\ setting \in Settings
    /\ up = TRUE
    /\ files = {} /\ lost = {}
    /\ queue = <<>> /\ expected = FALSE
    /\ pc = ForEach(Tasks, "queued") /\ step = FirstSteps
    /\ published = ForEach(Tasks, None) /\ completion = ForEach(Tasks, None)
    /\ entries = NoEntries /\ outstanding = [e \in Entries |-> 0]
    /\ writes = <<>> /\ journal = NoEntries /\ torn = FALSE

----------------------------------------------------------------------------
(* One task of the queue: flush, executeTranscode, executeMerge.           *)

Inputs(t) ==
    IF Merge /\ step[t] = "transcode" THEN <<Merged(t)>> ELSE RawsOf(t)
Output(t) == IF step[t] = "merge" THEN Merged(t) ELSE Final(t)

Goto(t, location) == pc' = [pc EXCEPT ![t] = location]

\* The task is settled: completeDeferred is called for its entry.
Settle(t, outcome, decision, paths) ==
    /\ completion' = [completion EXCEPT ![t] =
          [outcome |-> outcome, decision |-> decision, paths |-> paths]]
    /\ Goto(t, "completing")

\* Mutant: an entry waits for one task only.
FlushOnePerEntry ==
    /\ up /\ ~expected /\ queue # <<>>
    /\ expected' = TRUE
    /\ outstanding' = [e \in Entries |-> 1]
    /\ UNCHANGED <<setting, up, files, lost, queue, step, published, pc,
                   completion, entries, journaling>>

\* flush: expectEntryTasks counts the tasks of every entry.
Flush ==
    /\ up /\ ~expected /\ queue # <<>>
    /\ expected' = TRUE
    /\ outstanding' = [e \in Entries |->
          outstanding[e] + Cardinality({t \in TasksOf(e) : t \in Range(queue)})]
    /\ UNCHANGED <<setting, up, files, lost, queue, step, published, pc,
                   completion, entries, journaling>>

Running == {t \in Tasks : pc[t] \notin {"queued", "done"}}

\* A worker of drainBoundedTaskQueue shifts the next task.
Take ==
    /\ up /\ expected /\ queue # <<>>
    /\ Cardinality(Running) < MaxProcesses
    /\ queue' = Tail(queue)
    /\ Goto(Head(queue),
            IF step[Head(queue)] = "merge" THEN "process" ELSE "check")
    /\ UNCHANGED <<setting, up, files, lost, expected, step, published,
                   completion, manifest, journaling>>

\* transcodeDeferred: is the input still there?
CheckInput(t) ==
    /\ pc[t] = "check"
    /\ \/ /\ Range(Inputs(t)) \subseteq files
          /\ Goto(t, "process")
          /\ UNCHANGED completion
       \/ /\ ~(Range(Inputs(t)) \subseteq files)
          /\ Settle(t, "failed", "failed", Inputs(t))
    /\ UNCHANGED <<setting, up, media, manifest, journaling>>

\* FFmpeg runs and the output is validated and published, or the operation
\* fails (no capacity, a timeout, a bad output) and the inputs are kept.
Process(t) ==
    /\ pc[t] = "process"
    /\ \/ /\ Range(Inputs(t)) \subseteq files
          /\ files' = files \union {Output(t)}
          /\ published' = [published EXCEPT ![t] = Output(t)]
          /\ Goto(t, "published")
          /\ UNCHANGED completion
       \/ /\ Settle(t, "failed", "recorded", Inputs(t))
          /\ UNCHANGED <<files, published>>
    /\ UNCHANGED <<setting, up, lost, queue, expected, step, manifest,
                   journaling>>

\* The inputs are unlinked, each as a best effort.
RemoveInputs(t) ==
    /\ pc[t] = "published"
    /\ \E gone \in SUBSET Range(Inputs(t)) :
          /\ ~Throws => gone = Range(Inputs(t))
          /\ files' = files \ gone
    /\ Goto(t, "cleaned")
    /\ UNCHANGED <<setting, up, lost, queue, expected, step, published,
                   completion, manifest, journaling>>

\* The operation is over.  A merged file goes on to its follow-up transcode,
\* which is a task with a publication of its own.
Finish(t) ==
    /\ pc[t] = "cleaned"
    /\ \/ /\ step[t] = "merge" /\ Transcode
          /\ step' = [step EXCEPT ![t] = "transcode"]
          /\ published' = [published EXCEPT ![t] = None]
          /\ Goto(t, "check")
          /\ UNCHANGED completion
       \/ /\ ~(step[t] = "merge" /\ Transcode)
          /\ Settle(t, "completed", "recorded", <<Output(t)>>)
          /\ UNCHANGED <<step, published>>
    /\ UNCHANGED <<setting, up, files, lost, queue, expected, manifest,
                   journaling>>

\* Mutant: the entry is not told.
ThrowUnreported(t) ==
    /\ Throws
    /\ pc[t] \in {"process", "published"}
    /\ Goto(t, "done")
    /\ UNCHANGED <<setting, up, media, completion, manifest, journaling>>

\* Mutant: what was published before the error is not looked for.
ThrowReportingInputs(t) ==
    LET left == Keeping(Inputs(t), files) IN
    /\ Throws
    /\ pc[t] \in {"process", "published"} \/ (pc[t] = "cleaned" /\ step[t] = "merge")
    /\ Settle(t, "failed", IF left = <<>> THEN "failed" ELSE "recorded", left)
    /\ UNCHANGED <<setting, up, media, manifest, journaling>>

\* Something throws on the way, for a merge also when the inputs are gone:
\* completeAbandonedTask reports the published output, or else those inputs
\* that are still there.
Throw(t) ==
    LET left == IF published[t] # None /\ published[t] \in files
                THEN <<published[t]>>
                ELSE Keeping(Inputs(t), files)
    IN
    /\ Throws
    /\ pc[t] \in {"process", "published"} \/ (pc[t] = "cleaned" /\ step[t] = "merge")
    /\ Settle(t, "failed", IF left = <<>> THEN "failed" ELSE "recorded", left)
    /\ UNCHANGED <<setting, up, media, manifest, journaling>>

----------------------------------------------------------------------------
(* The manifest entry: completeDeferred.                                   *)

FilesOf(listed) == [i \in DOMAIN listed |-> listed[i].file]

\* Merged files carry no part number in their name.
IsMergedFile(f) == f.kind = "merged" \/ (f.kind = "final" /\ Merge /\ Deferred)

\* The tabs of the parts, and those of a merged file in part order.
TabHistory(parts, merged) ==
    [parts |-> parts,
     merged |-> IF parts = {} THEN merged ELSE InOrder[parts]]

\* What an entry knows of its tabs.
ReadTabHistory(listed) ==
    LET whole == Keeping(listed, {item \in Range(listed) :
                     IsMergedFile(item.file) /\ item.tabs # <<>>})
        parts == {i \in DOMAIN listed : ~IsMergedFile(listed[i].file)}
    IN TabHistory(UNION {Range(listed[i].tabs) : i \in parts},
                  IF whole = <<>> THEN <<>> ELSE whole[1].tabs)

\* Mutant: a file shows what the files of the entry show.
AttachAllTabs(paths, history) ==
    [i \in DOMAIN paths |-> [file |-> paths[i], tabs |-> history.merged]]

\* Files as an entry lists them.
AttachTabs(paths, history) ==
    [i \in DOMAIN paths |->
        [file |-> paths[i],
         tabs |-> IF IsMergedFile(paths[i]) THEN history.merged
                  ELSE InOrder[paths[i].of \intersect history.parts]]]

\* The entry's paths a result stands in for; a merge replaces all of them.
Replaced(e, t) ==
    IF Merge THEN Range(FilesOf(entries[e].listed)) ELSE Range(RawsOf(t))

\* Mutant: the produced files are appended.
ReplaceAtEnd(listed, replaced, produced) ==
    Keeping(listed, {item \in Range(listed) : item.file \notin replaced})
        \o produced

\* The produced files take the place of the first replaced one.
ReplaceSegments(listed, replaced, produced) ==
    LET gone == replaced \union Range(FilesOf(produced))
        stay == {item \in Range(listed) : item.file \notin gone}
        hits == {i \in DOMAIN listed : listed[i].file \in replaced}
        at == IF hits = {} THEN Len(listed) ELSE Min(hits)
    IN Keeping(SubSeq(listed, 1, at), stay) \o produced
           \o Keeping(SubSeq(listed, at + 1, Len(listed)), stay)

\* The entry's list once task t is settled.
Relisted(e, existing, t) ==
    ReplaceSegments(existing.listed, Replaced(e, t),
        AttachTabs(completion[t].paths, ReadTabHistory(existing.listed)))

\* Mutant: a later success hides a failure.
SettledForgetting(e, existing, t, left) ==
    [existing EXCEPT !.listed = Relisted(e, existing, t),
     !.timing = "after-worker", !.incomplete = FALSE,
     !.outcome =
        IF left > 0 /\ completion[t].outcome = "completed" THEN "pending"
        ELSE completion[t].outcome,
     !.decision = completion[t].decision]

\* What an entry becomes when task t is settled and left others are awaited: a
\* failure of an earlier segment stays, a success leaves the entry pending.
Settled(e, existing, t, left) ==
    LET sticky == ~Merge /\ existing.outcome = "failed" IN
    [existing EXCEPT !.listed = Relisted(e, existing, t),
     !.timing = "after-worker",
     !.incomplete = sticky /\ existing.incomplete,
     !.outcome =
        IF sticky THEN "failed"
        ELSE IF left > 0 /\ completion[t].outcome = "completed" THEN "pending"
        ELSE completion[t].outcome,
     !.decision = IF sticky THEN existing.decision ELSE completion[t].decision]

\* The artifacts have been measured; the entry is updated as it is by now, and
\* the new version appended to the journal.
CompleteDeferred(t) ==
    LET e == EntryOfTask(t)
        left == IF outstanding[e] > 0 THEN outstanding[e] - 1 ELSE 0
    IN
    /\ pc[t] = "completing"
    /\ outstanding' = [outstanding EXCEPT ![e] = left]
    /\ \E updated \in {Settled(e, entries[e], t, left)} :
          /\ entries' = [entries EXCEPT ![e] = updated]
          /\ writes' = Append(writes, [task |-> t, entry |-> updated])
    /\ Goto(t, "journaling")
    /\ UNCHANGED <<setting, up, media, completion, journal, torn>>

----------------------------------------------------------------------------
(* The journal: ManifestJournalWriter.append.                              *)

\* A version of an entry is appended.  A line written after an incomplete one
\* continues that line, and no reader can parse it.
AppendLine(e, entry) ==
    \/ /\ journal' = IF torn THEN journal ELSE [journal EXCEPT ![e] = entry]
       /\ torn' = FALSE
    \/ /\ JournalFaults
       /\ torn' \in {torn, TRUE}
       /\ UNCHANGED journal

\* The oldest chained append settles, and with it the task that waits for it.
Write ==
    /\ up /\ writes # <<>>
    /\ writes' = Tail(writes)
    /\ LET line == Head(writes) IN
       /\ Goto(line.task, "done")
       /\ AppendLine(EntryOfTask(line.task), line.entry)
    /\ UNCHANGED <<setting, up, media, completion, manifest>>

----------------------------------------------------------------------------
\* Somebody else removes the raw capture of a task that was not started.
LoseInput(s) ==
    /\ up /\ Deferred
    /\ s \in Losable \ lost /\ Raw(s) \in files
    /\ \A t \in Tasks : s \in t => pc[t] = "queued"
    /\ files' = files \ {Raw(s)}
    /\ lost' = lost \union {s}
    /\ UNCHANGED <<setting, up, queue, expected, step, published, pc,
                   completion, manifest, journaling>>

\* The worker is killed: only its files and its journal
\* remain.
Crash ==
    /\ up
    /\ up' = FALSE
    /\ queue' = <<>> /\ expected' = FALSE
    /\ pc' = ForEach(Tasks, "queued") /\ step' = FirstSteps
    /\ published' = ForEach(Tasks, None) /\ completion' = ForEach(Tasks, None)
    /\ entries' = NoEntries /\ outstanding' = [e \in Entries |-> 0]
    /\ writes' = <<>>
    /\ UNCHANGED <<setting, files, lost, journal, torn>>

TaskStep(t) ==
    /\ up
    /\ \/ CheckInput(t)
       \/ Process(t)
       \/ RemoveInputs(t)
       \/ Finish(t)
       \/ Throw(t)
       \/ CompleteDeferred(t)

----------------------------------------------------------------------------
(* Properties.                                                             *)

Reported(t) == pc[t] \in {"journaling", "done"}

\* The tasks that were queued for an entry and have not been dropped.
Awaited(e) == {t \in TasksOf(e) : t \in Range(queue) \/ pc[t] # "queued"}

\* When the last task of an entry has reported, the entry waits for none, and
\* is "failed" exactly when one of its tasks or its finalization failed,
\* whatever the order the overlapping completions came in.
OutcomeExact ==
    \A e \in Entries :
        Awaited(e) # {} /\ (\A t \in Awaited(e) : Reported(t)) =>
            /\ outstanding[e] = 0
            /\ entries[e].outcome =
                  IF \/ entries[e].decision = "failed"
                     \/ \E t \in Awaited(e) : completion[t].outcome = "failed"
                  THEN "failed" ELSE "completed"

\* An entry, in memory or as a reader of the journal finds it after a crash,
\* whose deferred processing is "completed" lists files that exist and are
\* processed, and captures that never had a task.
CompletedIsTrue ==
    \A e \in Entries : \A v \in {entries[e], journal[e]} \ {None} :
        v.outcome = "completed" /\ v.timing = "after-worker" =>
            \A f \in Range(FilesOf(v.listed)) :
                IF f.kind = "raw" THEN f.of \notin Awaited(e) ELSE f \in files

\* An entry lists its segments in part order and none of them twice, though
\* results arrive in any order and several can replace the same list.  A file
\* shows the tabs of exactly the segments it holds, unless finalization threw
\* and no tabs are known.
ListedInOrder ==
    \A e \in Entries : entries[e] # None =>
        LET listed == entries[e].listed IN
        /\ \A i, j \in DOMAIN listed : i < j =>
              \A r \in listed[i].file.of : \A s \in listed[j].file.of : r < s
        /\ \A i \in DOMAIN listed :
              \/ listed[i].tabs = InOrder[listed[i].file.of]
              \/ listed[i].tabs = <<>> /\ entries[e].outcome = "failed"

\* No entry stays pending unless the worker is killed.
EntrySettles ==
    LET pending ==
            \E e \in Entries : entries[e] # None /\ entries[e].outcome = "pending"
    IN pending ~> ~pending
=============================================================================
