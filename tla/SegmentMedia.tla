---------------------------- MODULE SegmentMedia ----------------------------
(***************************************************************************)
(* What becomes of the captured segments of a worker's tests: finalizeSegment*)
(* of src/service/recording-media-coordinator.ts when a segment stops, the *)
(* end of a recording in recording-controller.ts and the manifest entry of *)
(* worker-recording-coordinator.ts, then the deferred tasks of             *)
(* DeferredMedia.                                                          *)
(*                                                                         *)
(* Segments stop while the test runs (it left their tab) or when it ends.  *)
(* Immediate processing is one step here: ArtifactPublication looks into   *)
(* it, and the entry lists nothing until it is over.                       *)
(***************************************************************************)
EXTENDS DeferredMedia

VARIABLES
    at,             \* the next segment to stop
    current,        \* the entry being recorded
    recorded,       \* captureSession.recordedPaths
    broken,         \* has captureFailure been set?
    retain,         \* keepArtifacts once the test has ended, None before
    before,         \* pendingTaskCount when finalization began
    threw,          \* did the last stop throw out of finalization?
    captured,       \* segments whose content was written and not discarded
    partial         \* segments whose capture failed, kept or not

session == <<at, current, recorded, broken, retain, before, threw>>
recording == <<session, captured, partial>>
flushing == <<expected, step, published, pc, completion, outstanding, writes>>
mediaVars == <<vars, recording>>

SegmentsToCome == {s \in SegmentsOf(current) : s >= at}

\* keepArtifacts, with keepArtifacts ?? true for a segment its test left.
Keep == retain # FALSE

----------------------------------------------------------------------------
(* A segment stops: stopRecording, finalizeSegment.                        *)

\* The segment leaves these files in recordedPaths and on disk.
Leave(paths, existing) ==
    /\ recorded' = recorded \o paths
    /\ files' = files \union existing

\* reportFailure and other errors reach the finalization that stopped the
\* segment; those of a stop within a test are only logged.
Thrown(throws) == threw' = (throws /\ retain # None)

\* A missing file is reported, one that cannot be inspected is kept as well.
NoFile == Leave(<<>>, {}) /\ Thrown(Strict) /\ UNCHANGED <<queue, captured>>
Uninspectable(s) ==
    /\ Leave(<<Raw(s)>>, {Raw(s)}) /\ Thrown(Strict)
    /\ captured' = captured \union {s}
    /\ UNCHANGED queue
Empty == Leave(<<>>, {}) /\ Thrown(FALSE) /\ UNCHANGED <<queue, captured>>

\* transcodeSegment: the output takes the place of the recording, a failure
\* keeps it, and an error leaves what there is unlisted.
TranscodeNow(s) ==
    \/ /\ \E rest \in SUBSET {Raw(s)} :
             /\ ~Throws => rest = {}
             /\ Leave(<<Final({s})>>, {Final({s})} \union rest)
       /\ Thrown(FALSE)
    \/ Leave(<<Raw(s)>>, {Raw(s)}) /\ Thrown(Strict)
    \/ /\ Throws
       /\ \E made \in SUBSET {Final({s})} : Leave(<<>>, {Raw(s)} \union made)
       /\ Thrown(TRUE)

\* The retained recording is processed now, later, or not at all.
Healthy(s, clean) ==
    /\ captured' = captured \union {s}
    /\ IF Transcode /\ clean /\ ~Deferred
       THEN TranscodeNow(s) /\ UNCHANGED queue
       ELSE /\ Leave(<<Raw(s)>>, {Raw(s)}) /\ Thrown(FALSE)
            /\ queue' = IF Transcode /\ clean /\ ~Merge THEN Append(queue, {s})
                                                         ELSE queue

\* A discarded capture is deleted by the engine.  The failure of a capture is
\* noted for the whole recording, also when nothing of it is kept.
Stop(s) ==
    /\ up /\ current # None /\ s \in SegmentsToCome /\ s = at
    /\ retain # None => SegmentsToCome = {s}
    /\ at' = at + 1
    /\ \E clean \in IF s \in Doubtful THEN BOOLEAN ELSE {TRUE} :
          /\ broken' = (broken \/ ~clean)
          /\ partial' = IF clean THEN partial ELSE partial \union {s}
          /\ \/ /\ ~Keep
                /\ Leave(<<>>, {}) /\ Thrown(FALSE)
                /\ UNCHANGED <<queue, captured>>
             \/ Keep /\ Healthy(s, clean)
             \/ Keep /\ s \in Doubtful /\ NoFile
             \/ Keep /\ s \in Doubtful /\ Uninspectable(s)
             \/ Keep /\ s \in Doubtful /\ Empty
    /\ UNCHANGED <<setting, up, lost, flushing, entries, journal, torn,
                   current, retain, before>>

----------------------------------------------------------------------------
(* A test begins and ends: beginEntity, finalizeMedia, completeCurrent.    *)

Interrupted ==
    [listed |-> <<>>, outcome |-> "failed", timing |-> "after-test",
     decision |-> "failed", incomplete |-> FALSE]

Begin ==
    /\ up /\ current = None /\ at \in Segments
    /\ current' = EntryOf[at]
    /\ entries' = [entries EXCEPT ![EntryOf[at]] = Interrupted]
    /\ AppendLine(EntryOf[at], Interrupted)
    /\ UNCHANGED <<setting, up, files, lost, queue, flushing, at, recorded,
                   broken, retain, before, threw, captured, partial>>

\* The test ended; its last segment may be recording still.
StartFinalize ==
    /\ up /\ current # None /\ retain = None
    /\ Cardinality(SegmentsToCome) <= 1
    /\ retain' \in BOOLEAN
    /\ before' = Len(queue)
    /\ UNCHANGED <<vars, at, current, recorded, broken, threw, captured, partial>>

\* taskTouchesPaths
Touches(t, paths) ==
    (Range(RawsOf(t)) \union {Merged(t), Final(t)}) \intersect paths # {}

\* Mutant: the tasks of segments that stopped earlier stay.
KeepTasks(tasks, paths) == tasks

DropTasksForPaths(tasks, paths) ==
    Keeping(tasks, {t \in Range(tasks) : ~Touches(t, paths)})

\* The manifest entry of a recording (createCompletedManifestOptions).
CompletedEntry(paths, parts, deferred) ==
    [listed |-> AttachTabs(paths, TabHistory(parts, <<>>)),
     outcome |-> IF broken THEN "failed"
                 ELSE IF deferred THEN "pending"
                 ELSE IF retain THEN "completed" ELSE "skipped",
     timing |-> IF deferred /\ ~broken THEN "after-worker" ELSE "after-test",
     decision |-> IF broken THEN "failed"
                  ELSE IF ~retain THEN "discarded"
                  ELSE IF paths = <<>> THEN "failed" ELSE "recorded",
     incomplete |-> broken]

\* completeCurrent, then resetRecording.
Complete(entry) ==
    /\ entries' = [entries EXCEPT ![current] = entry]
    /\ AppendLine(current, entry)
    /\ current' = None /\ recorded' = <<>> /\ broken' = FALSE
    /\ retain' = None /\ before' = 0 /\ threw' = FALSE
    /\ UNCHANGED <<setting, up, lost, flushing, at, partial>>

Ended == up /\ current # None /\ retain # None /\ SegmentsToCome = {}

\* Finalization threw: whatever was recorded is listed, without tabs, and the
\* tasks that are queued already stay.
FinalizeFailed ==
    /\ Ended /\ threw
    /\ Complete([Interrupted EXCEPT !.listed =
                    AttachTabs(recorded, TabHistory({}, <<>>))])
    /\ UNCHANGED <<files, queue, captured>>

Parts == UNION {f.of : f \in Range(recorded)}

\* deleteRecordedSegments, then the tasks of a failed capture are dropped.
Discard ==
    /\ Ended /\ ~threw /\ ~retain
    /\ \E gone \in SUBSET Range(recorded) :
          /\ ~Throws => gone = Range(recorded)
          /\ files' = files \ gone
    /\ captured' = captured \ SegmentsOf(current)
    /\ queue' = DropTasksForPaths(queue, Range(recorded))
    /\ Complete(CompletedEntry(<<>>, Parts, Len(queue') > before))

\* A failed capture is kept and not processed.
KeepIncomplete ==
    /\ Ended /\ ~threw /\ retain /\ broken
    /\ queue' = DropTasksForPaths(queue, Range(recorded))
    /\ Complete(CompletedEntry(recorded, Parts, Len(queue') > before))
    /\ UNCHANGED <<files, captured>>

Kept == Ended /\ ~threw /\ retain /\ ~broken

\* Only files of one format can be merged (resolveMergeFormat).
Mergeable ==
    /\ Merge /\ recorded # <<>>
    /\ Cardinality({f.kind : f \in Range(recorded)}) = 1

\* Nothing is merged, or the segments are merged later.  Tasks that an earlier
\* segment queued before the test ended do not make the entry "pending".
KeepSegments ==
    /\ Kept
    /\ ~Mergeable \/ Deferred
    /\ queue' = IF Mergeable
                THEN Append(DropTasksForPaths(queue, Range(recorded)), Parts)
                ELSE queue
    /\ Complete(CompletedEntry(recorded, Parts, Len(queue') > before))
    /\ UNCHANGED <<files, captured>>

\* mergeCurrentSegments: the merged file takes the place of its parts, or they
\* are kept.  An error leaves the parts listed, deleted ones among them.
MergeNow ==
    LET merged == Merged(Parts)
        failed == [Interrupted EXCEPT !.listed =
                      AttachTabs(recorded, TabHistory({}, <<>>))]
    IN
    /\ Kept /\ Mergeable /\ ~Deferred
    /\ \/ /\ \E gone \in SUBSET Range(recorded) :
                /\ ~Throws => gone = Range(recorded)
                /\ files' = (files \union {merged}) \ gone
          /\ Complete(CompletedEntry(<<merged>>, Parts, FALSE))
       \/ /\ Complete(IF Strict THEN failed
                                ELSE CompletedEntry(recorded, Parts, FALSE))
          /\ UNCHANGED files
       \/ /\ Throws
          /\ \/ UNCHANGED files
             \/ \E gone \in SUBSET Range(recorded) :
                   files' = (files \union {merged}) \ gone
          /\ Complete(failed)
    /\ UNCHANGED <<queue, captured>>

----------------------------------------------------------------------------
\* The worker is killed while it records or processes.
Kill ==
    /\ Crash
    /\ at' = 1 /\ current' = None /\ recorded' = <<>> /\ broken' = FALSE
    /\ retain' = None /\ before' = 0 /\ threw' = FALSE
    /\ UNCHANGED <<captured, partial>>

Record ==
    \/ Begin
    \/ \E s \in Segments : Stop(s)
    \/ StartFinalize
    \/ FinalizeFailed \/ Discard \/ KeepIncomplete \/ KeepSegments \/ MergeNow

TestsOver == current = None /\ at \notin Segments

\* The worker's teardown, once its tests are over.
Teardown ==
    /\ TestsOver
    /\ Flush \/ Take \/ Write \/ \E t \in Tasks : TaskStep(t)
    /\ UNCHANGED recording

Done ==
    /\ ~up \/ (TestsOver /\ queue = <<>>
                         /\ \A t \in Tasks : pc[t] \in {"queued", "done"})
    /\ UNCHANGED mediaVars

Next ==
    \/ Record \/ Teardown \/ Done
    \/ Kill
    \/ \E s \in Losable : LoseInput(s) /\ UNCHANGED recording

SegmentInit ==
    /\ Init
    /\ at = 1 /\ current = None /\ recorded = <<>> /\ broken = FALSE
    /\ retain = None /\ before = 0 /\ threw = FALSE /\ captured = {}
    /\ partial = {}

Spec == SegmentInit /\ [][Next]_mediaVars

\* The tests end, teardown calls flush(), every FFmpeg run ends or is timed
\* out, and the file operations settle.  The process may be killed.
FairSpec == Spec /\ WF_mediaVars(Record \/ Teardown)

----------------------------------------------------------------------------
(* Properties.                                                             *)

\* No content is lost: a retained segment that nobody else removed is held by
\* some file all the time, and in deferred processing in the end by a file that
\* its entry lists.
NothingLost ==
    \A s \in captured \ lost :
        LET e == EntryOf[s] IN
        \E f \in files :
            /\ s \in f.of
            /\ Deferred /\ up /\ e # current /\ (\A t \in Awaited(e) : Reported(t))
                  => f \in Range(FilesOf(entries[e].listed))

\* No segment whose capture failed is processed: it exists as the recording or
\* not at all, however its finalization ends and whatever is done to the other
\* segments.  Its entry shows a failure for good, and when the reason of that is
\* the capture, no task of the entry is left, not even of its healthy segments.
\* (An entry whose finalization threw has that error as its reason, and the
\* tasks its healthy segments queued are still processed.)
IncompleteNotProcessed ==
    /\ \A s \in partial :
          /\ \A f \in files : s \in f.of => f = Raw(s)
          /\ up /\ EntryOf[s] # current => entries[EntryOf[s]].outcome = "failed"
    /\ \A e \in Entries :
          entries[e] # None /\ entries[e].incomplete => Awaited(e) = {}
=============================================================================
