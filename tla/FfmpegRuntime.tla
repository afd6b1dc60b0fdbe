--------------------------- MODULE FfmpegRuntime ---------------------------
(***************************************************************************)
(* src/service/ffmpeg-runtime.ts, ffmpeg-runner.ts and the teardown of     *)
(* worker-runtime.ts: one worker runs FFmpeg for its jobs under            *)
(* post-processing slots, and a teardown stops them and then drains the    *)
(* deferred ones.                                                          *)
(*                                                                         *)
(* A job is one withPostProcessSlot() call.  Chained jobs belong to the    *)
(* serialized operations of hooks, Deferred ones to the queue a teardown   *)
(* flushes.  What a job does in its slot is for the module that extends    *)
(* this one; a probe (readMediaDimensions) only runs FFmpeg once.  Time is *)
(* abstracted: a pending timer may fire.  The slot scheduler is a counter  *)
(* here; RecordingSlots models it.  The setting, chosen once, says what    *)
(* each call is and what goes wrong around it.                             *)
(***************************************************************************)
EXTENDS Naturals, FiniteSets

CONSTANTS
    Chained,            \* jobs of serialized operations
    Deferred,           \* jobs a teardown flushes
    Settings,           \* the settings to explore
    PostProcessSlots,   \* maxPostProcesses of the worker
    RunTimeouts,        \* processing.ffmpeg.timeoutMs > 0
    MaxTeardowns        \* bound: after, afterSession and onReload calls

Jobs == Chained \union Deferred

Troubles == {"none", "broken", "slow", "faults", "thefts"}
ASSUME KindAssumption == Chained \intersect Deferred = {}
ASSUME RuntimeLimitAssumption ==
    /\ PostProcessSlots \in Nat \ {0}
    /\ RunTimeouts \in BOOLEAN
    /\ MaxTeardowns \in Nat

VARIABLES
    setting,        \* the kind of each call, and what trouble there is
    executable,     \* can FFmpeg be started on this machine?
    acceptingWork,  \* FfmpegRuntime.acceptingWork
    available,      \* FfmpegRuntime.available
    initialized,    \* FfmpegRuntime.initializationCompleted
    start,          \* where a recording start stands in ensureReady()
    pc,             \* where a job stands in withPostProcessSlot()
    active,         \* activePostProcessSlotSchedulers, by job
    run,            \* a job's latest runFfmpeg() call
    alive,          \* jobs whose latest FFmpeg process has not closed
    teardown,       \* where _performRecordingTeardown() stands
    teardowns       \* teardowns begun so far

readiness == <<executable, available, initialized, start>>
processes == <<run, alive>>
control == <<acceptingWork, teardown, teardowns>>
runtimeVars == <<readiness, pc, active, processes, control>>

\* The jobs that only read media dimensions.
Probes == {j \in Jobs : setting.kind[j] = "probe"}

\* A run is unsettled from its registration to settle().
Unsettled == {"running", "asked", "grace", "forced"}
RunStates == Unsettled \union {"none", "true", "false"}

RuntimeTypeOK ==
    /\ setting.trouble \in Troubles
    /\ {executable, acceptingWork, available, initialized} \subseteq BOOLEAN
    /\ start \in {"none", "resolving", "configuring", "ready", "refused"}
    /\ pc \in [Jobs -> {"idle", "acquiring", "granted", "task", "done"}]
    /\ active \subseteq Jobs
    /\ run \in [Jobs -> RunStates]
    /\ alive \subseteq Jobs
    /\ teardown \in {"idle", "killing", "flushing", "ending"}
    /\ teardowns \in 0 .. MaxTeardowns

RuntimeInit ==
    /\ setting \in Settings
    /\ executable \in {TRUE, setting.trouble # "broken"}
    /\ acceptingWork = TRUE
    /\ available = FALSE
    /\ initialized = FALSE
    /\ start = "none"
    /\ pc = [j \in Jobs |-> "idle"]
    /\ active = {}
    /\ run = [j \in Jobs |-> "none"]
    /\ alive = {}
    /\ teardown = "idle"
    /\ teardowns = 0

Registered == {j \in Jobs : run[j] \in Unsettled}
InProgress == {j \in Jobs : pc[j] \notin {"idle", "done"}}
Starting == start \in {"resolving", "configuring"}

\* The serialized chain is free for another operation of a hook.
ChainFree ==
    /\ ~Starting
    /\ Chained \intersect InProgress = {}
    /\ teardown \in {"idle", "killing"}

----------------------------------------------------------------------------
(* ensureReady() and initialize(), called when a recording starts.         *)

StartRecording ==
    /\ ChainFree
    /\ start' =
         IF ~acceptingWork \/ (~available /\ initialized) THEN "refused"
         ELSE IF available THEN "ready"
         ELSE "resolving"
    /\ UNCHANGED <<executable, available, initialized, pc, active, processes,
                   control>>

\* resolveAvailableFfmpegPath() has tried the candidates.  One that does not tell
\* its version in time counts as none.
Resolve ==
    /\ start = "resolving"
    /\ available' \in {executable, executable /\ setting.trouble # "slow"}
    /\ start' = "configuring"
    /\ UNCHANGED <<executable, initialized, pc, active, processes, control>>

\* Mutant: an initialization that a teardown interrupted counts as completed.
FinishInterrupted ==
    /\ start = "configuring"
    /\ available' = (available /\ acceptingWork)
    /\ initialized' = TRUE
    /\ start' = IF available /\ acceptingWork THEN "ready" ELSE "refused"
    /\ UNCHANGED <<executable, pc, active, processes, control>>

\* The version and the MP4 mode are known, or the candidates are exhausted.  A
\* caller that finds a teardown under way leaves the next one to start over.
FinishInitialization ==
    /\ start = "configuring"
    /\ available' = (available /\ acceptingWork)
    /\ initialized' = acceptingWork
    /\ start' = IF available /\ acceptingWork THEN "ready" ELSE "refused"
    /\ UNCHANGED <<executable, pc, active, processes, control>>

\* FFmpeg is removed, or processes can no longer be started.
Break ==
    /\ executable /\ setting.trouble = "broken"
    /\ executable' = FALSE
    /\ UNCHANGED <<available, initialized, start, pc, active, processes,
                   control>>

----------------------------------------------------------------------------
(* runFfmpeg(): spawn, exit, timeout and termination race to settle it.    *)

\* The part of run() up to the spawn, without an await.  A spawn that fails
\* makes FFmpeg unavailable, unless a probe fails.
StartRun(j) ==
    \/ /\ ~(acceptingWork /\ available)
       /\ run' = [run EXCEPT ![j] = "false"]
       /\ UNCHANGED <<alive, available>>
    \/ /\ acceptingWork /\ available /\ ~executable
       /\ run' = [run EXCEPT ![j] = "false"]
       /\ available' = (j \in Probes)
       /\ UNCHANGED alive
    \/ /\ acceptingWork /\ available /\ executable
       /\ run' = [run EXCEPT ![j] = "running"]
       /\ alive' = alive \union {j}
       /\ UNCHANGED available

\* The 'error' event.
SpawnError(j) ==
    /\ ~executable /\ j \in Registered /\ j \in alive
    /\ run' = [run EXCEPT ![j] = "false"]
    /\ alive' = alive \ {j}
    /\ available' = (available /\ (run[j] # "running" \/ j \in Probes))
    /\ UNCHANGED <<executable, initialized, start, pc, active, control>>

\* Mutant: the exit code decides, terminated or not.
ExitDecides(j, code) ==
    /\ j \in alive
    /\ alive' = alive \ {j}
    /\ run' = [run EXCEPT ![j] =
         IF j \notin Registered THEN @
         ELSE IF code = 0 THEN "true" ELSE "false"]
    /\ UNCHANGED <<readiness, pc, active, control>>

\* The 'close' event: only an undisturbed exit with code 0 is a success.
Close(j, code) ==
    /\ j \in alive
    /\ alive' = alive \ {j}
    /\ run' = [run EXCEPT ![j] =
         IF j \notin Registered THEN @
         ELSE IF @ = "running" /\ code = 0 THEN "true" ELSE "false"]
    /\ UNCHANGED <<readiness, pc, active, control>>

\* terminate() of the runs that are registered and not yet being terminated.
Terminated ==
    [j \in Jobs |-> IF run[j] = "running" THEN "asked" ELSE run[j]]

\* A probe has a time limit of its own.
Timeout(j) ==
    /\ run[j] = "running"
    /\ RunTimeouts \/ j \in Probes
    /\ run' = [run EXCEPT ![j] = "asked"]
    /\ UNCHANGED <<readiness, pc, active, alive, control>>

\* Mutant: waits for the process instead of settling without it.
EscalateOnly(j) ==
    /\ run[j] \in {"asked", "grace"}
    /\ run' = [run EXCEPT ![j] = IF @ = "asked" THEN "grace" ELSE "forced"]
    /\ UNCHANGED <<readiness, pc, active, alive, control>>

\* terminateFfmpegAfterGrace(): the graceful signal or its helper's time is
\* over, then the grace period, then the forced kill, which settles the run
\* whether or not the process is gone.
Escalate(j) ==
    /\ run[j] \in {"asked", "grace", "forced"}
    /\ run' = [run EXCEPT ![j] =
         CASE @ = "asked" -> "grace"
           [] @ = "grace" -> "forced"
           [] OTHER -> "false"]
    /\ UNCHANGED <<readiness, pc, active, alive, control>>

----------------------------------------------------------------------------
(* withPostProcessSlot().                                                  *)

MayBegin(j) ==
    IF j \in Chained THEN start = "ready" /\ ChainFree
    ELSE teardown = "flushing"

\* A probe asks ensureReady() first, which does not wait here: recording has
\* started, so initialization is over.
Begin(j) ==
    /\ pc[j] = "idle" /\ MayBegin(j)
    /\ pc' = [pc EXCEPT ![j] =
         IF acceptingWork /\ (j \in Probes => available)
         THEN "acquiring" ELSE "done"]
    /\ UNCHANGED <<readiness, active, processes, control>>

Holders == active \union {j \in Jobs : pc[j] = "granted"}

Grant(j) ==
    /\ pc[j] = "acquiring"
    /\ Cardinality(Holders) < PostProcessSlots
    /\ pc' = [pc EXCEPT ![j] = "granted"]
    /\ UNCHANGED <<readiness, active, processes, control>>

\* postProcessStartTimeoutMs has passed, or the slot storage failed.
Refuse(j) ==
    /\ pc[j] = "acquiring"
    /\ pc' = [pc EXCEPT ![j] = "done"]
    /\ UNCHANGED <<readiness, active, processes, control>>

\* The caller goes on after its await: a teardown may have begun meanwhile, and
\* then the slot goes straight back.
Enter(j) ==
    /\ pc[j] = "granted"
    /\ pc' = [pc EXCEPT ![j] = IF acceptingWork THEN "task" ELSE "done"]
    /\ active' = IF acceptingWork THEN active \union {j} ELSE active
    /\ UNCHANGED <<readiness, processes, control>>

\* The task is over: releasePostProcessSlot() in the finally block.  What its
\* last run returned is forgotten.
Leave(j) ==
    /\ pc[j] = "task"
    /\ j \notin Registered
    /\ pc' = [pc EXCEPT ![j] = "done"]
    /\ active' = active \ {j}
    /\ run' = [run EXCEPT ![j] = "none"]
    /\ UNCHANGED <<readiness, alive, control>>

\* The one run of a probe.
Measure(j) ==
    /\ j \in Probes /\ pc[j] = "task" /\ run[j] = "none"
    /\ StartRun(j)
    /\ UNCHANGED <<executable, initialized, start, pc, active, control>>

----------------------------------------------------------------------------
(* _performRecordingTeardown().                                            *)

\* The first terminateAll() kills what a hook is waiting for.  No run starts
\* until work is accepted again, so its snapshot is all there is.
BeginTeardown ==
    /\ teardown = "idle" /\ teardowns < MaxTeardowns
    /\ teardown' = "killing"
    /\ teardowns' = teardowns + 1
    /\ acceptingWork' = FALSE
    /\ run' = Terminated
    /\ UNCHANGED <<readiness, pc, active, alive>>

\* Its serialized task gets its turn: work is accepted again for the flush.
Flush ==
    /\ teardown = "killing"
    /\ Registered = {} /\ ChainFree
    /\ teardown' = "flushing"
    /\ acceptingWork' = TRUE
    /\ UNCHANGED <<readiness, pc, active, processes, teardowns>>

EndFlush ==
    /\ teardown = "flushing"
    /\ \A j \in Deferred : pc[j] = "done"
    /\ teardown' = "ending"
    /\ acceptingWork' = FALSE
    /\ run' = Terminated
    /\ UNCHANGED <<readiness, pc, active, alive, teardowns>>

\* terminateAll() has returned and releaseHeldPostProcessSlots() has run; after
\* a reload of the session work is accepted again.
EndTeardown ==
    /\ teardown = "ending"
    /\ Registered = {}
    /\ teardown' = "idle"
    /\ active' = {}
    /\ acceptingWork' \in BOOLEAN
    /\ UNCHANGED <<readiness, pc, processes, teardowns>>

----------------------------------------------------------------------------

\* An interrupted start does not cost the worker its recordings: FFmpeg is only
\* written off when it cannot be run, or took too long to tell its version
\* (ensureReady, markUnavailable).
UnavailableForCause ==
    initialized /\ ~available => ~executable \/ setting.trouble = "slow"

\* A teardown ends, whatever FFmpeg processes ignore: those a hook waits for are
\* killed, and those of the flush time out.
TeardownReturns == teardown = "killing" ~> teardown = "idle"
=============================================================================
