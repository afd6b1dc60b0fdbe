------------------------- MODULE ScreencastRecorder -------------------------
(***************************************************************************)
(* src/service/screencast-recorder.ts: the frames of a page's screencast   *)
(* are placed on a grid of 1/fps, queued as blocks and written to the      *)
(* encoder, one writer at a time.  With it the encoder process             *)
(* (screencast-encoder.ts) and the engine that stops, times out or         *)
(* discards the recorder (puppeteer-capture-engine.ts).  The model starts  *)
(* when recordScreencast has handed over a recorder.                       *)
(*                                                                         *)
(* A frame is its number.  Time is counted in ticks, from the arrival of   *)
(* the first frame.  A block shows its frame from its position on, until   *)
(* the next block.  lastBlockPosition and previousBlockPosition are those  *)
(* of the last two blocks queued: once blocks have been thrown away, none  *)
(* is queued any more.  The high-water marks are left out.                 *)
(***************************************************************************)
EXTENDS Integers, SequencesExt

CONSTANTS
    MaxFrames,          \* bound: frames Chrome delivers
    MaxTime,            \* bound: ticks
    TicksPerStep,       \* ticks in a step of the grid
    Slack,              \* TIMESTAMP_ARRIVAL_SLACK_SECONDS, in ticks
    HoldLag,            \* HOLD_LAG_SECONDS, in ticks
    Sizes,              \* sizes of images, in units of three bytes
    MaxPendingBytes,
    MaxPendingBlocks,
    WriteBatch,         \* WRITE_BATCH
    NoFrame             \* undefined

ASSUME TimeAssumption ==
    /\ {TicksPerStep, WriteBatch - 1} \subseteq Nat \ {0}
    /\ {MaxTime, Slack} \subseteq Nat /\ HoldLag \in Nat /\ Slack <= HoldLag
ASSUME LimitAssumption ==
    {MaxFrames, MaxPendingBytes, MaxPendingBlocks} \subseteq Nat
ASSUME SizeAssumption == Sizes \subseteq Nat \ {0}

\* What latestFrame holds: a frame, the times it is placed by, and whether it
\* has been given a span and a block yet.
HeldFrames == [id : Nat, elapsed : Nat, receivedAt : Nat, shown : BOOLEAN,
               decoded : BOOLEAN]
ASSUME NoFrameAssumption == NoFrame \notin HeldFrames

VARIABLES
    now,            \* the monotonic clock
    anchor,         \* firstReceivedAt
    received,       \* frames delivered while capturing
    frames,         \* history: size and start position of accepted frames
    latest,         \* the held frame, or NoFrame
    emitted,        \* end of the timeline
    pending,        \* blocks waiting for the writer
    writer,         \* drainPending: idle, blocked by backpressure, yielded
    written,        \* history: blocks handed to the encoder's input
    stopped,        \* frames and holds are no longer taken
    incomplete,     \* incompleteReason: no, overload, exited
    input,          \* is the encoder's stdin open or destroyed?
    inputEnded,     \* has stop ended it?
    encoder,        \* running, gone, exited (exitCode is set), closed
    exit,           \* how it exits: none, zero, failed
    cutShort,       \* history: did it leave before its input ended, and Node
                    \* learn of that in time: no, unseen, seen
    stop,           \* where finish() waits
    aborting,       \* abort: no, terminating, done
    engine,         \* capturing, stopping, expired, discarding, done
    verdict         \* what the engine makes of the recording

clock == <<now, anchor>>
timeline == <<received, frames, latest, emitted>>
queue == <<pending, writer, written>>
process == <<input, encoder, exit, cutShort>>
control == <<stop, inputEnded, aborting, engine, verdict>>
vars == <<clock, timeline, queue, stopped, incomplete, process, control>>

Blocks == [frame : 1..MaxFrames, position : Nat]

TypeOK ==
    /\ now \in 0..MaxTime /\ anchor \in 0..MaxTime
    /\ received \in 0..MaxFrames
    /\ frames \in Seq([size : Sizes, start : Nat])
    /\ latest = NoFrame \/
       /\ latest.id \in DOMAIN frames
       /\ latest.elapsed \in 0..(MaxTime + Slack)
       /\ latest.receivedAt \in 0..MaxTime
       /\ {latest.shown, latest.decoded} \subseteq BOOLEAN
    /\ emitted \in Nat
    /\ pending \in Seq(Blocks) /\ written \in Seq(Blocks)
    /\ writer \in {"idle", "blocked", "yielded"}
    /\ {stopped, inputEnded} \subseteq BOOLEAN
    /\ cutShort \in {"no", "unseen", "seen"}
    /\ incomplete \in {"no", "overload", "exited"}
    /\ input \in {"open", "destroyed"}
    /\ encoder \in {"running", "gone", "exited", "closed"}
    /\ exit \in {"none", "zero", "failed"}
    /\ stop \in {"none", "flushing", "draining", "ending", "detaching",
                 "returned"}
    /\ aborting \in {"no", "terminating", "done"}
    /\ engine \in {"capturing", "stopping", "expired", "discarding", "done"}
    /\ verdict \in {"none", "healthy", "unclean", "discarded"}

Init ==
    /\ now = 0 /\ anchor = 0 /\ received = 0 /\ frames = <<>>
    /\ latest = NoFrame /\ emitted = 0
    /\ pending = <<>> /\ writer = "idle" /\ written = <<>>
    /\ stopped = FALSE /\ incomplete = "no"
    /\ input = "open" /\ inputEnded = FALSE /\ cutShort = "no"
    /\ encoder = "running" /\ exit = "none"
    /\ stop = "none" /\ aborting = "no"
    /\ engine = "capturing" /\ verdict = "none"

----------------------------------------------------------------------------
(* The grid and the queue.                                                 *)

Larger(a, b) == IF a > b THEN a ELSE b

\* gridPosition rounds to the nearest step, halves up.
GridPosition(ticks) == (2 * ticks + TicksPerStep) \div (2 * TicksPerStep)

HeldPosition(lag) ==
    GridPosition(latest.elapsed + (now - latest.receivedAt) - lag)

\* enqueue() takes blocks only while stdin does.
Writable == input = "open" /\ ~inputEnded

\* Position of the n-th block from the end of q, -1 if there is none.
PositionFromEnd(q, n) ==
    IF Len(q) < n THEN -1 ELSE q[Len(q) + 1 - n].position

BlocksOfLatest(positions) ==
    [i \in DOMAIN positions |->
        [frame |-> latest.id, position |-> positions[i]]]

\* enqueue() with the pump() it calls: with no writer at work, the blocks go
\* out one by one until the encoder's input reports backpressure.
Enqueue(blocks) ==
    \/ /\ writer # "idle"
       /\ pending' = pending \o blocks
       /\ UNCHANGED <<writer, written>>
    \/ /\ writer = "idle"
       /\ \E n \in 0..Len(blocks) :
             /\ written' = written \o SubSeq(blocks, 1, n)
             /\ pending' = SubSeq(blocks, n + 1, Len(blocks))
             /\ \/ n = Len(blocks) /\ writer' = "idle"
                \/ n > 0 /\ writer' = "blocked"

\* Mutants: the newest pending block is taken for one of the held frame; a
\* position behind the timeline moves it back.
ExtensionOfAny(position) ==
    IF position > emitted /\ Writable /\ pending = <<>>
    THEN BlocksOfLatest(<<emitted>>) ELSE <<>>
ExtensionBackwards(position) ==
    IF Writable /\ (pending # <<>> => Last(pending).frame # latest.id)
    THEN BlocksOfLatest(<<position>>) ELSE <<>>

\* The block fillTo queues to extend the timeline to a position with the held
\* frame.  A pending block that already shows the frame is enough.
Extension(position) ==
    IF /\ position > emitted /\ Writable
       /\ pending # <<>> => Last(pending).frame # latest.id
    THEN BlocksOfLatest(<<emitted>>) ELSE <<>>

\* The held frame after that.
Extended(position) ==
    [latest EXCEPT !.shown = @ \/ position > emitted,
                   !.decoded = @ \/ Extension(position) # <<>>]

FillTo(position) ==
    /\ Enqueue(Extension(position))
    /\ emitted' = Larger(emitted, position)

ReleasePending == pending' = <<>> /\ latest' = NoFrame

\* Bytes retained by blocks and a held frame: base64 takes a third more.
RetainedBytes(blocks, held) ==
    held + MapThenSumSet(LAMBDA f : 3 * frames[f].size,
                         {blocks[i].frame : i \in DOMAIN blocks})

\* Mutant: a frame is taken to need what its block will.
OverloadDecoded(blocks, size) ==
    \/ RetainedBytes(blocks, 3 * size) > MaxPendingBytes
    \/ Len(blocks) >= MaxPendingBlocks

\* overloadFor: the frame may replace the held one only if its block fits.
Overload(blocks, size) ==
    \/ RetainedBytes(blocks, 4 * size) > MaxPendingBytes
    \/ Len(blocks) >= MaxPendingBlocks

----------------------------------------------------------------------------
(* Capturing.                                                              *)

Tick ==
    /\ received > 0 /\ ~stopped /\ now < MaxTime
    /\ now' = now + 1
    /\ UNCHANGED <<anchor, timeline, queue, stopped, incomplete, process,
                   control>>

\* Chrome's timestamps, kept from running backwards and ahead of the arrival.
ElapsedTimes ==
    LET least == IF latest = NoFrame THEN 0 ELSE latest.elapsed IN
    IF received = 0 THEN {0}
    ELSE least..Larger(least, now - anchor + Slack)

\* onFrame: the previous frame is shown up to the new one, which is held
\* unless the encoder is too far behind.
Frame ==
    /\ ~stopped /\ received < MaxFrames
    /\ received' = received + 1
    /\ \E elapsed \in ElapsedTimes, size \in Sizes :
          /\ IF latest = NoFrame
             THEN anchor' = now /\ UNCHANGED <<queue, emitted>>
             ELSE FillTo(GridPosition(elapsed)) /\ UNCHANGED anchor
          /\ \/ /\ Overload(pending', size)
                /\ latest' = IF latest = NoFrame THEN NoFrame
                             ELSE Extended(GridPosition(elapsed))
                /\ incomplete' = "overload"
                /\ stopped' = TRUE
                /\ UNCHANGED frames
             \/ /\ ~Overload(pending', size)
                /\ frames' = Append(frames, [size |-> size, start |-> emitted'])
                /\ latest' = [id |-> Len(frames'), elapsed |-> elapsed,
                              receivedAt |-> now, shown |-> FALSE,
                              decoded |-> FALSE]
                /\ UNCHANGED <<stopped, incomplete>>
    /\ UNCHANGED <<now, process, control>>

\* Mutant: the held frame is shown up to this moment.
HoldUntilNow ==
    /\ ~stopped /\ latest # NoFrame
    /\ FillTo(HeldPosition(0)) /\ latest' = Extended(HeldPosition(0))
    /\ UNCHANGED <<clock, received, frames, stopped, incomplete, process,
                   control>>

\* holdLatest, every HOLD_INTERVAL_MS.
Hold ==
    /\ ~stopped /\ latest # NoFrame
    /\ FillTo(HeldPosition(HoldLag)) /\ latest' = Extended(HeldPosition(HoldLag))
    /\ UNCHANGED <<clock, received, frames, stopped, incomplete, process,
                   control>>

\* What wakes a blocked writer besides a drain of the encoder's input.
Interrupted == input = "destroyed" \/ encoder = "closed" \/ aborting # "no"

\* The writer goes on: blocks are written until none is left, the input
\* reports backpressure, or a batch is full.  With the input gone, what waits
\* is dropped.
Write ==
    /\ \/ writer = "yielded"
       \/ writer = "blocked" /\ (encoder = "running" \/ Interrupted)
    /\ \/ /\ pending = <<>>
          /\ writer' = "idle"
          /\ UNCHANGED <<pending, written, latest>>
       \/ /\ pending # <<>> /\ ~Writable
          /\ writer' = "idle"
          /\ ReleasePending
          /\ UNCHANGED written
       \/ /\ pending # <<>> /\ Writable
          /\ \E n \in 1..Len(pending) :
                /\ n <= WriteBatch
                /\ written' = written \o SubSeq(pending, 1, n)
                /\ pending' = SubSeq(pending, n + 1, Len(pending))
                /\ \/ writer' = "blocked"
                   \/ n = WriteBatch /\ writer' = "yielded"
                   \/ n < WriteBatch /\ pending' = <<>> /\ writer' = "idle"
          /\ UNCHANGED latest
    /\ UNCHANGED <<clock, received, frames, emitted, stopped, incomplete,
                   process, control>>

----------------------------------------------------------------------------
(* The encoder process.                                                    *)

Exited == encoder \in {"exited", "closed"}

\* noteEarlyExit.
EarlyExit ==
    IF inputEnded \/ aborting # "no" \/ incomplete # "no"
    THEN incomplete ELSE "exited"

\* FFmpeg exits, on its own or at the end of its input; Node learns of it
\* later.  One that exits with zero after the end has read everything.
EncoderExits ==
    /\ encoder = "running"
    /\ exit' \in {"zero", "failed"}
    /\ encoder' = "gone"
    /\ cutShort' = IF inputEnded THEN "no" ELSE "unseen"
    /\ UNCHANGED <<clock, timeline, queue, stopped, incomplete, input, control>>

\* Writing to a process that is gone fails.
InputFails ==
    /\ encoder = "gone" /\ input = "open"
    /\ input' = "destroyed"
    /\ UNCHANGED <<clock, timeline, queue, stopped, incomplete, encoder, exit,
                   cutShort, control>>

ExitNoticed ==
    /\ encoder = "gone"
    /\ encoder' = "exited" /\ input' = "destroyed"
    /\ cutShort' = IF inputEnded THEN cutShort ELSE "seen"
    /\ UNCHANGED <<clock, timeline, queue, stopped, incomplete, exit, control>>

\* The close event, and onEncoderClosed.
EncoderCloses ==
    /\ encoder = "exited"
    /\ encoder' = "closed"
    /\ incomplete' = EarlyExit
    /\ IF stop = "none" /\ aborting = "no"
       THEN stopped' = TRUE /\ ReleasePending
       ELSE UNCHANGED <<stopped, pending, latest>>
    /\ UNCHANGED <<clock, received, frames, emitted, writer, written, input,
                   exit, cutShort, control>>

----------------------------------------------------------------------------
(* Stopping: finish().  Each stage waits for one event, or for an abort.   *)

\* The end of the final frame: at least one step, and while capturing at
\* least until now.
FinalPosition ==
    LET least == IF latest.shown THEN 0 ELSE emitted + 1 IN
    IF stopped THEN least
    ELSE Larger(least, Larger(HeldPosition(0), GridPosition(now - anchor)))

\* Mutant: a final block that stands alone stays so.
EndPositionsUnextended(end, q) ==
    LET last == PositionFromEnd(q, 1) IN
    IF last < end - 2 THEN <<end - 2, end - 1>>
    ELSE IF last < end - 1 THEN <<end - 1>> ELSE <<>>

\* writeEnd: with blocks q and the timeline ending at end, the blocks that
\* make the video end on two that are one step apart.
EndPositions(end, q) ==
    LET last == PositionFromEnd(q, 1) IN
    IF last < end - 2 THEN <<end - 2, end - 1>>
    ELSE IF last < end - 1 THEN <<end - 1>>
    ELSE IF PositionFromEnd(q, 2) # end - 2 THEN <<end>> ELSE <<>>

\* Chrome has answered Page.stopScreencast.
Flushed ==
    /\ stop = "flushing" /\ aborting = "no"
    /\ stop' = "draining"
    /\ stopped' = TRUE
    /\ IF latest = NoFrame THEN UNCHANGED <<queue, emitted, latest>>
       ELSE LET filled == Larger(emitted, FinalPosition)
                added == Extension(FinalPosition)
                ends == IF ~Writable THEN <<>>
                        ELSE EndPositions(filled, written \o pending \o added)
            IN  /\ Enqueue(added \o BlocksOfLatest(ends))
                /\ emitted' = IF ends # <<>> /\ Last(ends) = filled
                              THEN filled + 1 ELSE filled
                /\ latest' = [Extended(FinalPosition) EXCEPT
                                 !.decoded = @ \/ ends # <<>>]
    /\ UNCHANGED <<clock, received, frames, incomplete, process, inputEnded,
                   aborting, engine, verdict>>

\* Mutant: the process is not looked at before its input is ended.
DrainedUnchecked ==
    /\ stop = "draining" /\ writer = "idle" /\ aborting = "no"
    /\ stop' = "ending" /\ inputEnded' = TRUE
    /\ ReleasePending
    /\ UNCHANGED <<clock, received, frames, emitted, writer, written, stopped,
                   incomplete, process, aborting, engine, verdict>>

\* pump() has resolved: everything is with the encoder, its input is ended.
Drained ==
    /\ stop = "draining" /\ writer = "idle" /\ aborting = "no"
    /\ stop' = "ending" /\ inputEnded' = TRUE
    /\ incomplete' = IF Exited THEN EarlyExit ELSE incomplete
    /\ ReleasePending
    /\ UNCHANGED <<clock, received, frames, emitted, writer, written, stopped,
                   process, aborting, engine, verdict>>

Ended ==
    /\ stop = "ending" /\ encoder = "closed" /\ aborting = "no"
    /\ stop' = "detaching"
    /\ UNCHANGED <<clock, timeline, queue, stopped, incomplete, process,
                   inputEnded, aborting, engine, verdict>>

\* The CDP session is detached, or was closed.
Detached ==
    /\ stop = "detaching" /\ aborting = "no"
    /\ stop' = "returned"
    /\ UNCHANGED <<clock, timeline, queue, stopped, incomplete, process,
                   inputEnded, aborting, engine, verdict>>

\* Mutant: nothing interrupts the wait for the encoder's exit.
InterruptibleUnlessEnding == {"flushing", "draining", "detaching"}

Interruptible == {"flushing", "draining", "ending", "detaching"}

\* cancelled wins each race; stop then waits for the abort.
Cancelled ==
    /\ stop \in Interruptible /\ aborting = "done"
    /\ stop' = "returned"
    /\ UNCHANGED <<clock, timeline, queue, stopped, incomplete, process,
                   inputEnded, aborting, engine, verdict>>

----------------------------------------------------------------------------
(* Aborting.                                                               *)

\* abort() and abortRecording(), up to the termination of the process.
Abort ==
    /\ aborting' = "terminating"
    /\ incomplete' = IF Exited THEN EarlyExit ELSE incomplete
    /\ stopped' = TRUE /\ input' = "destroyed"
    /\ ReleasePending
    /\ UNCHANGED <<clock, received, frames, emitted, writer, written, encoder,
                   exit, cutShort, stop, inputEnded, verdict>>

\* terminateOwnedProcess returns: the process has closed, or the time for
\* that is up.
AbortSettles ==
    /\ aborting = "terminating"
    /\ aborting' = "done"
    /\ \/ UNCHANGED <<encoder, exit, cutShort>>
       \/ /\ encoder' = "closed"
          /\ exit' = IF encoder = "running" THEN "failed" ELSE exit
          /\ cutShort' = IF encoder = "running" THEN "seen" ELSE cutShort
    /\ UNCHANGED <<clock, timeline, queue, stopped, incomplete, input, stop,
                   inputEnded, engine, verdict>>

----------------------------------------------------------------------------
(* The capture engine.                                                     *)

\* stopRecorder, which calls stop().
StopRecorder ==
    /\ engine = "capturing"
    /\ engine' = "stopping" /\ stop' = "flushing"
    /\ UNCHANGED <<clock, timeline, queue, stopped, incomplete, process,
                   inputEnded, aborting, verdict>>

\* RECORDER_STOP_TIMEOUT_MS.
StopExpires ==
    /\ engine = "stopping"
    /\ engine' = "expired"
    /\ Abort

\* discardCapture.
Discard ==
    /\ engine = "capturing"
    /\ engine' = "discarding"
    /\ Abort

\* checkEncoderResult, once stop() has returned in time.
Judge ==
    /\ engine = "stopping" /\ stop = "returned"
    /\ engine' = "done"
    /\ verdict' = IF incomplete = "no" /\ received > 0 /\ exit = "zero"
                  THEN "healthy" ELSE "unclean"
    /\ UNCHANGED <<clock, timeline, queue, stopped, incomplete, process, stop,
                   inputEnded, aborting>>

\* The engine's own await of abort().
GiveUp ==
    /\ engine \in {"expired", "discarding"} /\ aborting = "done"
    /\ engine' = "done"
    /\ verdict' = IF engine = "expired" THEN "unclean" ELSE "discarded"
    /\ UNCHANGED <<clock, timeline, queue, stopped, incomplete, process, stop,
                   inputEnded, aborting>>

Next ==
    \/ Tick \/ Frame \/ Hold \/ Write
    \/ EncoderExits \/ InputFails \/ ExitNoticed \/ EncoderCloses
    \/ StopRecorder \/ Flushed \/ Drained \/ Ended \/ Detached \/ Cancelled
    \/ StopExpires \/ Discard \/ AbortSettles \/ Judge \/ GiveUp

Spec == Init /\ [][Next]_vars

(* Timers fire and a writer that can go on does.  Chrome need not answer,  *)
(* and the encoder need not read, nor exit at the end of its input.        *)
Fairness ==
    /\ WF_vars(Write /\ (writer = "yielded" \/ Interrupted))
    /\ WF_vars(StopExpires) /\ WF_vars(AbortSettles)
    /\ WF_vars(Cancelled) /\ WF_vars(Judge) /\ WF_vars(GiveUp)

FairSpec == Spec /\ Fairness

----------------------------------------------------------------------------
(* Properties.                                                             *)

\* Blocks reach the encoder in order: no two have the same position, and a
\* late or early frame, a hold or the end of the video never go back.
BlocksAscend ==
    \A i, j \in DOMAIN (written \o pending) :
       i < j => (written \o pending)[i].position
                  < (written \o pending)[j].position

\* The frame a player shows at a position, given the blocks it got.
Shown(blocks, p) ==
    LET at == {i \in DOMAIN blocks : blocks[i].position <= p} IN
    IF at = {} THEN NoFrame
    ELSE blocks[CHOOSE i \in at : \A j \in at : j <= i].frame

\* The accepted frame the timeline has at a position.
FrameAt(p) ==
    CHOOSE f \in DOMAIN frames :
       /\ frames[f].start <= p
       /\ \A g \in DOMAIN frames : frames[g].start <= p => g <= f

\* When stop returns and the encoder stayed to the end, every accepted frame
\* is shown for exactly its span, the last one at least once; however long
\* the encoder stalled, and even if capture ended in an overload.
AcceptedFramesShown ==
    stop = "returned" /\ aborting = "no" /\ cutShort = "no" /\ frames # <<>> =>
       /\ \A p \in 0..(emitted - 1) : Shown(written, p) = FrameAt(p)
       /\ emitted > Last(frames).start

\* What the held frame costs besides the pending blocks: base64 until it has had
\* a block, nothing while it is pending.
HeldBytes ==
    IF latest = NoFrame \/ \E i \in DOMAIN pending : pending[i].frame = latest.id
    THEN 0 ELSE (IF latest.decoded THEN 3 ELSE 4) * frames[latest.id].size

\* The queue of blocks stays bounded however slow the encoder is.  The limit is
\* checked when a frame arrives, but holds, the next arrival and stop queue
\* blocks of that frame afterwards: none beyond the limit while capturing, and
\* stop adds the two of the end at most.
BlocksBounded ==
    Len(pending) <= MaxPendingBlocks + (IF stop = "none" THEN 0 ELSE 2)

\* So does the memory they take: the blocks queued for a frame after its check
\* never need more bytes than were counted for it.
QueueBounded ==
    BlocksBounded /\ RetainedBytes(pending, HeldBytes) <= MaxPendingBytes

\* A video of more than one block ends on two that are one step apart.
EndsOnAStep ==
    stop = "ending" /\ cutShort = "no" /\ Len(written) > 1 =>
       /\ PositionFromEnd(written, 1) = emitted - 1
       /\ PositionFromEnd(written, 2) = emitted - 2

\* An encoder known to have left before stop ended its input never makes a
\* healthy recording, whatever its exit code and whenever it closes.
EarlyExitReported == verdict = "healthy" => cutShort # "seen"

\* Holds stay far enough behind that a frame which is little late starts at
\* its own timestamp.
PunctualFramesStartOnTime ==
    [][/\ Len(frames') > Len(frames)
       /\ input = "open"
       /\ latest'.elapsed + HoldLag - Slack >= now - anchor'
       => Last(frames').start = GridPosition(latest'.elapsed)]_vars

\* Once the engine stops or discards a recorder it gets rid of it: an abort
\* ends stop() wherever it waits, the writer goes home, no frame is kept.
RecorderReleased ==
    engine \in {"stopping", "discarding"} ~>
       /\ engine = "done" /\ stop \in {"none", "returned"}
       /\ writer = "idle" /\ pending = <<>> /\ latest = NoFrame
=============================================================================
