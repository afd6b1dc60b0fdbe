-------------------------- MODULE RecordingControl --------------------------
(***************************************************************************)
(* The recording controller of one worker in a WebDriver BiDi session:     *)
(* src/service/recording-controller.ts with the CaptureSession it writes,  *)
(* the RecordingLifecycle it drives, and what it needs of the capture      *)
(* engine and the slot scheduler.  Hooks put operations on the chain of    *)
(* runSerialized(); the chain runs one at a time, and an action here is    *)
(* what an operation does between two awaits.                              *)
(*                                                                         *)
(* Who puts the operations there is ContextFollower.  A test's recording   *)
(* is named by a number, 0 for the empty slug; a tab stands for its        *)
(* top-level browsing context.  recording.scope is 'test'.                 *)
(***************************************************************************)
EXTENDS Naturals, Sequences, FiniteSets

CONSTANTS
    Tabs,           \* browsing contexts the browser may ever open
    MaxTests,       \* bound: recordings begun
    StartFaults,    \* may the start on an open tab fail?
    StopFaults,     \* may a stop leave the file unclean, or fail?
    None

ASSUME NoneAssumption == None \notin Tabs /\ None \notin Nat
ASSUME FaultAssumption ==
    MaxTests \in Nat /\ StartFaults \in BOOLEAN /\ StopFaults \in BOOLEAN

VARIABLES
    slug,           \* CaptureSession.recordingSlug
    segments,       \* tabsBySegment; its length is segmentNumber
    window,         \* CaptureSession.activeWindowHandle, the selected tab
    capture,        \* the tab an attached capture films
    slot,           \* does the scheduler own a recording slot?
    life,           \* RecordingLifecycle.currentState
    failure,        \* captureFailure, as the recording it was reported in
    closing,        \* closingContextId
    failedStarts,   \* consecutive failed starts per tab
    unconfirmed,    \* unconfirmedGap
    queue,          \* operations waiting on the recordingTask chain
    op,             \* the operation that runs
    steps,          \* what it has left to do
    begun,          \* recordings begun
    results,        \* what the manifest entry of each recording says
    spoiled,        \* recordings with a segment that did not stop cleanly
    broken,         \* recordings in which stopping a segment threw
    open,           \* the browser's open tabs
    wdioWindow      \* WDIO's current window, None once it is closed

session == <<slug, segments, window, capture>>
gaps == <<failure, closing, failedStarts, unconfirmed>>
chain == <<queue, op, steps>>
reports == <<begun, results, spoiled, broken>>
browser == <<open, wdioWindow>>
controlVars == <<session, slot, life, gaps, chain, reports, browser>>

Recordings == 1 .. MaxTests
MAX_TAB_START_ATTEMPTS == 2
Reasons == {"start", "command", "switch-to-window", "tab-closed",
            "close-failed", "switch-failed"}
Kinds == {"begin", "end", "follow", "stop-closing", "recover-close",
          "resume", "teardown"}
LifecycleStates == {"idle", "preparing", "recording", "stopping",
                    "processing", "completed", "failed"}
Operations(callers) ==
    [kind : Kinds, tab : Tabs \union {None}, reason : Reasons, by : callers]

ASSUME OperationAssumption == None \notin Operations({"command", "runner"})

SegmentStarted == segments # <<>> /\ segments[Len(segments)] # None

ControlTypeOK(callers) ==
    /\ slug \in 0 .. MaxTests
    /\ segments \in Seq(Tabs \union {None})
    /\ slug = 0 <=> segments = <<>>
    /\ {window, capture, closing, unconfirmed} \subseteq Tabs \union {None}
    /\ closing \in {None, window}
    /\ slot \in BOOLEAN /\ life \in LifecycleStates
    /\ failure \in 0 .. MaxTests \union {None}
    /\ failedStarts \in [Tabs -> Nat]
    /\ queue \in Seq(Operations(callers))
    /\ op \in Operations(callers) \union {None}
    /\ results \in
          [Recordings -> {"none", "completed", "failed"}]
    /\ begun \in 0 .. MaxTests
    /\ spoiled \subseteq Recordings /\ broken \subseteq Recordings

ControlInit ==
    /\ slug = 0 /\ segments = <<>> /\ window = None /\ capture = None
    /\ slot = FALSE /\ life = "idle"
    /\ failure = None /\ closing = None /\ unconfirmed = None
    /\ failedStarts = [t \in Tabs |-> 0]
    /\ queue = <<>> /\ op = None /\ steps = <<>>
    /\ begun = 0 /\ results = [r \in Recordings |-> "none"]
    /\ spoiled = {} /\ broken = {}

----------------------------------------------------------------------------
(* The chain.                                                              *)

\* runSerialized: an operation joins the chain whatever became of the others.
Enqueue(kind, tab, reason, by) ==
    queue' = Append(queue,
        [kind |-> kind, tab |-> tab, reason |-> reason, by |-> by])

\* The promise runSerialized gave this caller has settled.
Settled(by) ==
    /\ op # None => op.by # by
    /\ \A i \in DOMAIN queue : queue[i].by # by

\* Mutant: an operation that threw takes the rest of the chain with it.
TakeUnlessBroken(kind) ==
    /\ op = None /\ queue # <<>> /\ broken = {}
    /\ Head(queue).kind = kind
    /\ op' = Head(queue)
    /\ queue' = Tail(queue)

\* The next operation starts: its first awaits are still to come.
Take(kind) ==
    /\ op = None /\ queue # <<>>
    /\ Head(queue).kind = kind
    /\ op' = Head(queue)
    /\ queue' = Tail(queue)

At(step) == op # None /\ steps # <<>> /\ Head(steps) = step
Continue == steps' = Tail(steps) /\ UNCHANGED <<queue, op>>
GoOn(more) == steps' = more \o Tail(steps) /\ UNCHANGED <<queue, op>>

\* Mutant: finalization without its finally block.
AbortAtOnce == steps' = <<>> /\ UNCHANGED <<queue, op>>

\* An operation that threw runs its finally blocks only.
Abort ==
    /\ steps' = CASE op.kind = "end" -> <<"reset">>
                  [] op.kind = "teardown" -> <<"release">>
                  [] OTHER -> <<>>
    /\ UNCHANGED <<queue, op>>

Finish ==
    /\ op # None /\ steps = <<>>
    /\ op' = None
    /\ UNCHANGED <<session, slot, life, gaps, queue, steps, reports, browser>>

----------------------------------------------------------------------------
(* Gaps: driven tabs that are not filmed.                                  *)

\* reportCaptureFailure keeps the first report.
Report(f) == IF f = None THEN slug ELSE f

\* confirmGap, with the pending gap given.
Confirmed(gap) == IF gap = None THEN failure ELSE Report(failure)

\* Mutant: the next operation drops the gap.
ForgottenGap(reason) == None

\* The gap a follow finds, unless the browser rejected the switch behind it.
PendingGap(reason) ==
    IF reason = "switch-failed" /\ unconfirmed = window
    THEN None ELSE unconfirmed

\* noteTabGap for the operation's tab: a switch may still be rejected.
NoteGap ==
    IF op.reason = "switch-to-window"
    THEN unconfirmed' = op.tab /\ UNCHANGED failure
    ELSE failure' = Report(failure) /\ UNCHANGED unconfirmed

----------------------------------------------------------------------------
(* Starting a segment.                                                     *)

Busy == {"recording", "stopping", "processing"}

\* startRecording up to its first await: refused, or preparing.
StartRefused == slug = 0 \/ capture # None \/ life \in Busy

\* What follows a start that failed: countTabStart for a tab that was to be
\* followed, and the end of the recording that never began.
StartFailed ==
    IF op.kind = "begin"
    THEN /\ results' = [results EXCEPT ![slug] = "failed"]
         /\ GoOn(<<"reset">>)
         /\ UNCHANGED <<failedStarts, failure, unconfirmed>>
    ELSE /\ failedStarts' = [failedStarts EXCEPT ![op.tab] = @ + 1]
         /\ NoteGap
         /\ Continue
         /\ UNCHANGED results

\* startForMetadata: a new recording, filmed from WDIO's current window.
Begin ==
    /\ Take("begin")
    /\ \/ /\ slug # 0
          /\ steps' = <<>>
          /\ UNCHANGED <<slug, segments, window, closing, failedStarts,
                         unconfirmed, begun, life>>
       \/ /\ slug = 0 /\ capture = None
          /\ begun' = begun + 1
          /\ slug' = begun + 1
          /\ segments' = <<None>>
          /\ window' = None /\ closing' = None /\ unconfirmed' = None
          /\ failedStarts' = [t \in Tabs |-> 0]
          /\ life' = "preparing"
          /\ steps' = <<"acquire">>
    /\ UNCHANGED <<capture, slot, failure, results, spoiled, broken, browser>>

\* Mutant: the new tab is filmed as the segment of the last one.
SameSegment == segments

\* advanceSegment, once the current segment was filmed.
NextSegment == IF SegmentStarted THEN Append(segments, None) ELSE segments

\* recordTab up to its first await.  Every path here has cleared
\* closingContextId, or found it undefined.
Record ==
    /\ At("record")
    /\ segments' = NextSegment
    /\ window' = op.tab
    /\ closing' = None
    /\ IF StartRefused
       THEN StartFailed /\ UNCHANGED life
       ELSE /\ life' = "preparing"
            /\ GoOn(<<"acquire">>)
            /\ UNCHANGED <<failedStarts, failure, unconfirmed, results>>
    /\ UNCHANGED <<slug, capture, slot, begun, spoiled, broken, browser>>

\* selectUnrecordedTab: the test drives a tab whose starts are exhausted.
Select ==
    /\ At("select")
    /\ segments' = NextSegment
    /\ window' = op.tab
    /\ closing' = None
    /\ NoteGap
    /\ Continue
    /\ UNCHANGED <<slug, capture, slot, life, failedStarts, reports, browser>>

\* ensureReady and the scheduler's acquire(), which may refuse.
Acquire ==
    /\ At("acquire")
    /\ \/ /\ slot' = TRUE
          /\ GoOn(<<"attach">>)
          /\ UNCHANGED <<life, failedStarts, failure, unconfirmed, results>>
       \/ /\ StartFaults
          /\ life' = "failed"
          /\ StartFailed
          /\ UNCHANGED slot
    /\ UNCHANGED <<session, closing, begun, spoiled, broken, browser>>

\* The tab to film: the one asked for, or WDIO's current window.
Target == IF op.kind = "begin" THEN wdioWindow ELSE op.tab

Attached ==
    /\ Target \in open
    /\ capture' = Target
    /\ window' = Target
    /\ segments' = [segments EXCEPT ![Len(segments)] = Target]
    /\ life' = "recording"
    /\ failedStarts' = IF op.kind = "begin" THEN failedStarts
                       ELSE [failedStarts EXCEPT ![op.tab] = 0]
    /\ Continue
    /\ UNCHANGED <<slot, failure, unconfirmed, results>>

\* Mutant: a failed start keeps its slot.
NotAttachedKeepingSlot ==
    /\ Target \notin open \/ StartFaults
    /\ life' = "failed"
    /\ StartFailed
    /\ UNCHANGED <<slot, capture, window, segments>>

\* The page was not found or its screencast failed: the slot is given back.
NotAttached ==
    /\ Target \notin open \/ StartFaults
    /\ slot' = FALSE
    /\ life' = "failed"
    /\ StartFailed
    /\ UNCHANGED <<capture, window, segments>>

\* startCapture.
Attach ==
    /\ At("attach")
    /\ Attached \/ NotAttached
    /\ UNCHANGED <<slug, closing, begun, spoiled, broken, browser>>

----------------------------------------------------------------------------
(* Stopping a segment: stopRecording.                                      *)

\* No capture: only a slot left over is released.
StopNothing ==
    /\ At("stop") /\ capture = None
    /\ slot' = FALSE
    /\ Continue
    /\ UNCHANGED <<session, life, gaps, reports, browser>>

\* stopCapture detaches before it waits for the recorder.
Detach ==
    /\ At("stop") /\ capture # None
    /\ life' = "stopping"
    /\ capture' = None
    /\ GoOn(<<"stopped">>)
    /\ UNCHANGED <<slug, segments, window, slot, gaps, reports, browser>>

Unclean == spoiled' = spoiled \union {slug} /\ failure' = Report(failure)

\* The recorder and its file are finished, cleanly or not.
Stopped ==
    /\ At("stopped")
    /\ life' = "processing"
    /\ \/ UNCHANGED <<failure, spoiled>>
       \/ StopFaults /\ Unclean
    /\ GoOn(<<"slot">>)
    /\ UNCHANGED <<session, slot, closing, failedStarts, unconfirmed, begun,
                   results, broken, browser>>

\* The slot goes back before the segment is processed.
ReleaseSlot ==
    /\ At("slot")
    /\ slot' = FALSE
    /\ GoOn(<<"segment">>)
    /\ UNCHANGED <<session, life, gaps, reports, browser>>

\* finalizeSegment, which throws under failurePolicy 'error'.
FinalizeSegment ==
    /\ At("segment")
    /\ \/ /\ life' = "completed"
          /\ Continue
          /\ UNCHANGED <<broken, results>>
       \/ /\ StopFaults
          /\ life' = "failed"
          /\ broken' = broken \union {slug}
          /\ results' = IF op.kind = "end"
                        THEN [results EXCEPT ![slug] = "failed"] ELSE results
          /\ Abort
    /\ UNCHANGED <<session, slot, gaps, begun, spoiled, browser>>

----------------------------------------------------------------------------
(* The operations.                                                         *)

\* followContext.
Follow ==
    /\ Take("follow")
    /\ LET o == Head(queue)
           exhausted == failedStarts[o.tab] >= MAX_TAB_START_ATTEMPTS
           settled == capture # None \/ closing = o.tab \/ exhausted
       IN  /\ failure' = Confirmed(PendingGap(o.reason))
           /\ steps' = IF window = o.tab
                       THEN IF settled THEN <<>> ELSE <<"record">>
                       ELSE <<"stop", IF exhausted THEN "select" ELSE "record">>
    /\ unconfirmed' = None
    /\ UNCHANGED <<session, slot, life, closing, failedStarts, reports,
                   browser>>

\* stopClosingContext.
StopClosing ==
    /\ Take("stop-closing")
    /\ failure' = Confirmed(unconfirmed)
    /\ unconfirmed' = None
    /\ steps' = IF window = Head(queue).tab THEN <<"stop", "closing">> ELSE <<>>
    /\ UNCHANGED <<session, slot, life, closing, failedStarts, reports,
                   browser>>

MarkClosing ==
    /\ At("closing")
    /\ closing' = op.tab
    /\ Continue
    /\ UNCHANGED <<session, slot, life, failure, failedStarts, unconfirmed,
                   reports, browser>>

\* recoverFailedClose.
RecoverClose ==
    /\ Take("recover-close")
    /\ IF closing = Head(queue).tab /\ window = Head(queue).tab
       THEN closing' = None /\ steps' = <<"record">>
       ELSE UNCHANGED closing /\ steps' = <<>>
    /\ UNCHANGED <<session, slot, life, failure, failedStarts, unconfirmed,
                   reports, browser>>

\* resumeAfterClose: has the recorded tab closed, asked for or by itself?
Resume ==
    /\ Take("resume")
    /\ failure' = Confirmed(unconfirmed)
    /\ unconfirmed' = None
    /\ LET asked == window # None /\ closing = window
           gone == capture # None /\ capture \notin open
       IN  steps' = IF ~asked /\ ~gone THEN <<>>
                    ELSE IF capture = None THEN <<"next">>
                    ELSE <<"stop", "next">>
    /\ UNCHANGED <<session, slot, life, closing, failedStarts, reports,
                   browser>>

\* Its successor is WDIO's current window, if there is another one.
Successor ==
    /\ At("next")
    /\ closing' = None
    /\ IF wdioWindow \in {None, window}
       THEN UNCHANGED op /\ steps' = Tail(steps)
       ELSE op' = [op EXCEPT !.tab = wdioWindow] /\ steps' = <<"record">>
    /\ UNCHANGED <<session, slot, life, failure, failedStarts, unconfirmed,
                   queue, reports, browser>>

\* finalizeCurrentRecording and finalizeMedia.  A capture is attached only
\* while there is a slug, so isRecordingActive is slug # 0.
End ==
    /\ Take("end")
    /\ IF slug = 0
       THEN steps' = <<>> /\ UNCHANGED <<failure, unconfirmed, life>>
       ELSE /\ failure' = Confirmed(unconfirmed)
            /\ unconfirmed' = None
            /\ life' = "stopping"
            /\ steps' = <<"stop", "complete", "reset">>
    /\ UNCHANGED <<session, slot, closing, failedStarts, reports, browser>>

\* processArtifacts and completeCurrent; the merge of a sound recording may
\* throw.
Complete ==
    /\ At("complete")
    /\ \/ /\ life' = "completed"
          /\ results' = [results EXCEPT ![slug] =
                IF failure = None THEN "completed" ELSE "failed"]
       \/ /\ StopFaults
          /\ life' = "failed"
          /\ results' = [results EXCEPT ![slug] = "failed"]
    /\ Continue
    /\ UNCHANGED <<session, slot, gaps, begun, spoiled, broken, browser>>

\* The serialized part of _performRecordingTeardown.
Teardown ==
    /\ Take("teardown")
    /\ steps' = IF slug = 0 THEN <<"release">> ELSE <<"stop", "reset", "release">>
    /\ UNCHANGED <<session, slot, life, gaps, reports, browser>>

ReleaseResources ==
    /\ At("release")
    /\ IF slug # 0 \/ slot THEN GoOn(<<"reset">>) ELSE Continue
    /\ UNCHANGED <<session, slot, life, gaps, reports, browser>>

\* Mutant: the next recording inherits the failure.
ClearGapsOnly ==
    /\ closing' = None /\ unconfirmed' = None /\ UNCHANGED failure
    /\ failedStarts' = [t \in Tabs |-> 0]

ClearGaps ==
    /\ failure' = None /\ closing' = None /\ unconfirmed' = None
    /\ failedStarts' = [t \in Tabs |-> 0]

\* reset: what it clears at once, and what it clears once the recorder is gone.
Reset ==
    /\ At("reset")
    /\ ClearGaps
    /\ capture' = None
    /\ GoOn(<<"forget">>)
    /\ UNCHANGED <<slug, segments, window, slot, life, reports, browser>>

\* CaptureSession.resetRecording.
ForgetRecording == slug' = 0 /\ segments' = <<>> /\ window' = None

Forget ==
    /\ At("forget")
    /\ ForgetRecording
    /\ slot' = FALSE
    /\ life' = "idle"
    /\ Continue
    /\ UNCHANGED <<capture, gaps, reports, browser>>

\* What the chain does next.
Step ==
    \/ Begin \/ End \/ Follow \/ StopClosing \/ RecoverClose \/ Resume
    \/ Teardown
    \/ Record \/ Select \/ Acquire \/ Attach
    \/ StopNothing \/ Detach \/ Stopped \/ ReleaseSlot \/ FinalizeSegment
    \/ MarkClosing \/ Successor \/ Complete \/ ReleaseResources
    \/ Reset \/ Forget \/ Finish

----------------------------------------------------------------------------
(* Properties of the controller, whoever calls it.                         *)

\* Between two operations a recording slot is owned exactly while a capture is
\* attached, the lifecycle says so, and the attached capture films the selected
\* tab: no operation, however it ended, leaves a slot behind or another tab
\* filmed in its place.
SlotFollowsCapture ==
    op = None =>
        /\ slot <=> capture # None
        /\ life = "recording" <=> capture # None
        /\ capture # None => capture = window

\* A recording is only reported incomplete for what happened while it was made.
FailureIsOwn == slug # 0 /\ failure # None => failure = slug

\* Every capture films a segment of its own.
SegmentFilmedOnce ==
    [][capture = None /\ capture' # None => ~SegmentStarted]_controlVars

\* A recording that began is finalized, discarded or torn down in the end.
EveryRecordingCloses == \A r \in Recordings : slug = r ~> slug # r
=============================================================================
