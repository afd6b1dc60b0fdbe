------------------------ MODULE ArtifactPublication ------------------------
(***************************************************************************)
(* src/service/artifact-integrity.ts as media-pipeline.ts and              *)
(* post-process.ts use it: processes that share an output directory take   *)
(* a name by reserveArtifactPath() or publish a file under one by          *)
(* publishAtomicArtifact().                                                *)
(*                                                                         *)
(* The jobs of FfmpegRuntime publish from one worker, with its slots,      *)
(* FFmpeg runs and teardowns; Others are calls of other processes, which   *)
(* may be killed.  All want the same name, whose candidates are numbered   *)
(* in the order getCollisionPath() tries them.  A lease is the caller its  *)
(* reservation file names; OwnedFileLease models how it is taken.          *)
(***************************************************************************)
EXTENDS FfmpegRuntime

CONSTANTS
    Others,         \* calls of other processes
    Candidates,     \* ARTIFACT_PATH_CANDIDATE_LIMIT
    None, Foreign   \* no file, and a file of an earlier run

Callers == Jobs \union Others
Paths == 1 .. Candidates

ASSUME CallerAssumption ==
    /\ Others \intersect Jobs = {}
    /\ {None, Foreign} \intersect Callers = {}
    /\ None # Foreign
ASSUME PublicationLimitAssumption ==
    Candidates \in Nat \ {0}
JobKinds == {"transcode", "merge", "probe"}
CallKinds == {"publish", "reserve"}

\* What a worker does for its media, and what the other processes do.
ASSUME SettingAssumption ==
    \A s \in Settings :
        /\ s \in [trouble : Troubles, kind : [Callers -> JobKinds \union CallKinds]]
        /\ \A j \in Jobs : s.kind[j] \in JobKinds
        /\ \A c \in Others : s.kind[c] \in CallKinds

VARIABLES
    at,         \* where a call stands
    idx,        \* collisionIndex of the candidate it tries
    output,     \* whose file each candidate path names
    lease,      \* whose reservation each candidate has
    temp,       \* callers whose temporary file exists
    content,    \* what a publisher has produced
    judged,     \* the dead owner whose reservation a call has removed
    result,     \* the path a call reports, 0 before or for none
    deleted,    \* publishers that have deleted their source
    stuck,      \* those whose temporary file could not be removed
    dead        \* callers whose process was killed

files == <<output, lease, temp>>
publicationVars ==
    <<at, idx, files, content, judged, result, deleted, stuck, dead>>
vars == <<setting, runtimeVars, publicationVars>>

Of(kind) == {c \in Callers : setting.kind[c] = kind}
LocalPublishers == Jobs \ Probes
Publishers == LocalPublishers \union Of("publish")

\* A file operation of the modelled worker may fail.
Fails(c) == setting.trouble = "faults" /\ c \in Jobs

Locations ==
    {"out", "exists", "lease", "cleanup", "reopen", "create", "recheck",
     "produce", "producing", "validate", "validating", "own", "link", "unlink",
     "drop", "release", "inputs", "over", "dead"}

\* A publisher's temporary file exists, by its own doing, between these two.
Working == {"producing", "validate", "validating", "own", "link", "unlink", "drop"}

TypeOK ==
    /\ RuntimeTypeOK
    /\ at \in [Callers -> Locations]
    /\ idx \in [Callers -> Paths]
    /\ output \in [Paths -> Callers \union {None, Foreign}]
    /\ lease \in [Paths -> Callers \union {None}]
    /\ temp \subseteq Publishers
    /\ content \in [Callers -> {"none", "partial", "short", "whole"}]
    /\ judged \in [Callers -> Callers \union {None}]
    /\ result \in [Callers -> 0 .. Candidates]
    /\ {deleted, stuck, dead} \subseteq SUBSET Callers

Init ==
    /\ RuntimeInit
    /\ at = [c \in Callers |-> IF c \in Others THEN "exists" ELSE "out"]
    /\ idx = [c \in Callers |-> 1]
    /\ \E taken \in SUBSET {1} :
         output = [i \in Paths |-> IF i \in taken THEN Foreign ELSE None]
    /\ lease = [i \in Paths |-> None]
    /\ temp = {}
    /\ content = [c \in Callers |-> "none"]
    /\ judged = [c \in Callers |-> None]
    /\ result = [c \in Callers |-> 0]
    /\ deleted = {} /\ stuck = {} /\ dead = {}

Goto(c, location) == at' = [at EXCEPT ![c] = location]

----------------------------------------------------------------------------
(* Taking a name: acquireArtifactReservation() and reserveArtifactPath().  *)

\* The next name with a collision suffix, or ArtifactPathExhaustedError.
NextCandidate(c) ==
    \/ /\ idx[c] < Candidates
       /\ idx' = [idx EXCEPT ![c] = @ + 1]
       /\ Goto(c, "exists")
    \/ /\ idx[c] = Candidates
       /\ Goto(c, "over")
       /\ UNCHANGED idx

\* pathExists(): a name that is free is not taken yet, so it may be gone again
\* by the time it is reserved.
Look(c) ==
    /\ at[c] = "exists"
    /\ \/ output[idx[c]] = None /\ Goto(c, "lease") /\ UNCHANGED idx
       \/ output[idx[c]] # None /\ NextCandidate(c)
       \/ Fails(c) /\ Goto(c, "over") /\ UNCHANGED idx
    /\ UNCHANGED <<runtimeVars, files, content, judged, result, deleted,
                   stuck, dead>>

Reserved(c) ==
    /\ lease' = [lease EXCEPT ![idx[c]] = c]
    /\ Goto(c, IF c \in Of("reserve") THEN "create" ELSE "recheck")

\* Mutant: a reservation is reclaimed whoever holds it.
ReclaimableBlindly(i) == lease[i] # None

\* The owner that a reservation names no longer runs.
Reclaimable(i) == lease[i] \in dead

\* acquireArtifactLease(): a reservation held by a live process is a collision,
\* that of a dead one is removed first.
Reserve(c) ==
    /\ at[c] = "lease"
    /\ LET i == idx[c] IN
       \/ lease[i] = None /\ Reserved(c) /\ UNCHANGED <<idx, judged>>
       \/ /\ Reclaimable(i)
          /\ lease' = [lease EXCEPT ![i] = None]
          /\ judged' = [judged EXCEPT ![c] = lease[i]]
          /\ Goto(c, "cleanup")
          /\ UNCHANGED idx
       \/ /\ lease[i] # None /\ ~Reclaimable(i)
          /\ NextCandidate(c)
          /\ UNCHANGED <<lease, judged>>
       \/ /\ Fails(c)
          /\ Goto(c, "over")
          /\ UNCHANGED <<idx, lease, judged>>
    /\ UNCHANGED <<runtimeVars, output, temp, content, result, deleted, stuck,
                   dead>>

\* cleanupAbandonedArtifact(): only the temporary file, which a reserver's
\* payload does not name.
CleanUp(c) ==
    /\ at[c] = "cleanup"
    /\ \/ temp' = temp \ {judged[c]}
       \/ Fails(c) /\ UNCHANGED temp
    /\ Goto(c, "reopen")
    /\ UNCHANGED <<runtimeVars, idx, output, lease, content, judged, result,
                   deleted, stuck, dead>>

\* The second and last attempt of openLeaseCandidate().
Reopen(c) ==
    /\ at[c] = "reopen"
    /\ \/ lease[idx[c]] = None /\ Reserved(c) /\ UNCHANGED idx
       \/ lease[idx[c]] # None /\ NextCandidate(c) /\ UNCHANGED lease
    /\ judged' = [judged EXCEPT ![c] = None]
    /\ UNCHANGED <<runtimeVars, output, temp, content, result, deleted, stuck,
                   dead>>

\* release(): only a reservation that still names its owner is removed.
GiveUpLease(c) ==
    lease' = IF lease[idx[c]] = c THEN [lease EXCEPT ![idx[c]] = None] ELSE lease

\* reserveArtifactPath() creates an empty file that nobody else has.
Create(c) ==
    /\ at[c] = "create"
    /\ \/ /\ output[idx[c]] = None
          /\ output' = [output EXCEPT ![idx[c]] = c]
          /\ result' = [result EXCEPT ![c] = idx[c]]
          /\ Goto(c, "release")
          /\ UNCHANGED <<idx, lease>>
       \/ /\ output[idx[c]] # None
          /\ GiveUpLease(c)
          /\ NextCandidate(c)
          /\ UNCHANGED <<output, result>>
       \/ /\ Fails(c)
          /\ Goto(c, "release")
          /\ UNCHANGED <<idx, output, lease, result>>
    /\ UNCHANGED <<runtimeVars, temp, content, judged, deleted, stuck, dead>>

\* The check of acquireArtifactReservation() that the reservation protects.
Recheck(c) ==
    /\ at[c] = "recheck"
    /\ \/ output[idx[c]] = None /\ Goto(c, "produce") /\ UNCHANGED <<idx, lease>>
       \/ output[idx[c]] # None /\ GiveUpLease(c) /\ NextCandidate(c)
       \/ Fails(c) /\ GiveUpLease(c) /\ Goto(c, "over") /\ UNCHANGED idx
    /\ UNCHANGED <<runtimeVars, output, temp, content, judged, result, deleted,
                   stuck, dead>>

----------------------------------------------------------------------------
(* Producing and validating the temporary file.                            *)

\* A job enters its slot's task and takes a name.
EnterTask(j) ==
    /\ Enter(j)
    /\ IF pc'[j] = "task" THEN Goto(j, "exists") ELSE UNCHANGED at
    /\ UNCHANGED <<idx, files, content, judged, result, deleted, stuck, dead>>

Writes(c, what) ==
    /\ temp' = temp \union {c}
    /\ content' = [content EXCEPT ![c] = what]

\* produce() of a transcode starts FFmpeg, or nothing is written.
StartProducing(j) ==
    /\ at[j] = "produce" /\ j \in LocalPublishers \ Of("merge")
    /\ StartRun(j)
    /\ IF run'[j] = "running"
       THEN Writes(j, "partial")
       ELSE UNCHANGED <<temp, content>>
    /\ Goto(j, "producing")
    /\ UNCHANGED <<executable, initialized, start, pc, active, control, idx,
                   output, lease, judged, result, deleted, stuck, dead>>

\* A single segment is copied.
Copy(j) ==
    /\ at[j] = "produce" /\ j \in Of("merge")
    /\ \/ Writes(j, "whole") /\ Goto(j, "validate")
       \/ Fails(j) /\ Writes(j, "partial") /\ Goto(j, "drop")
    /\ UNCHANGED <<runtimeVars, idx, output, lease, judged, result, deleted,
                   stuck, dead>>

\* Another process produces and validates its file somehow.
ProduceElsewhere(c) ==
    /\ c \in Others
    /\ \/ at[c] = "produce" /\ Writes(c, "partial") /\ Goto(c, "producing")
       \/ at[c] = "producing" /\ Writes(c, "whole") /\ Goto(c, "own")
       \/ at[c] = "producing" /\ Goto(c, "drop") /\ UNCHANGED <<temp, content>>
    /\ UNCHANGED <<runtimeVars, idx, output, lease, judged, result, deleted,
                   stuck, dead>>

\* FFmpeg exits.  Undisturbed, code 0 means a whole file; one that was asked to
\* stop may close its file early and still exit with 0.  As a validator it
\* only accepts a file that can be decoded.
Exits(j, code) ==
    /\ IF j \in LocalPublishers /\ at[j] = "validating"
       THEN /\ code = 0 => content[j] \in {"short", "whole"}
            /\ Close(j, code)
            /\ UNCHANGED content
       ELSE /\ Close(j, code)
            /\ IF j \in LocalPublishers /\ at[j] = "producing" /\ code = 0
               THEN content' = [content EXCEPT ![j] =
                      IF run[j] = "running" THEN "whole" ELSE "short"]
               ELSE UNCHANGED content
    /\ UNCHANGED <<at, idx, files, judged, result, deleted, stuck, dead>>

Produced(j) ==
    /\ j \in LocalPublishers /\ at[j] = "producing" /\ j \notin Registered
    /\ Goto(j, IF run[j] = "true" THEN "validate" ELSE "drop")
    /\ UNCHANGED <<runtimeVars, idx, files, content, judged, result, deleted,
                   stuck, dead>>

\* An empty file is refused without asking FFmpeg.
StartValidating(j) ==
    /\ at[j] = "validate" /\ j \in LocalPublishers
    /\ StartRun(j)
    /\ Goto(j, "validating")
    /\ UNCHANGED <<executable, initialized, start, pc, active, control, idx,
                   files, content, judged, result, deleted, stuck, dead>>

Validated(j) ==
    /\ j \in LocalPublishers /\ at[j] = "validating" /\ j \notin Registered
    /\ Goto(j, IF run[j] = "true" THEN "own" ELSE "drop")
    /\ UNCHANGED <<runtimeVars, idx, files, content, judged, result, deleted,
                   stuck, dead>>

----------------------------------------------------------------------------
(* Publication.                                                            *)

\* lease.isOwner().
CheckOwner(c) ==
    /\ at[c] = "own"
    /\ Goto(c, IF lease[idx[c]] = c THEN "link" ELSE "drop")
    /\ UNCHANGED <<runtimeVars, idx, files, content, judged, result, deleted,
                   stuck, dead>>

\* Mutant: a rename, which replaces what is there.
LinkOver(c) ==
    /\ at[c] = "link"
    /\ output' = [output EXCEPT ![idx[c]] = c]
    /\ result' = [result EXCEPT ![c] = idx[c]]
    /\ Goto(c, "unlink")
    /\ UNCHANGED <<runtimeVars, idx, lease, temp, content, judged, deleted,
                   stuck, dead>>

\* linkArtifact(): fs.link() never replaces a file; EEXIST and a file system
\* without hard links refuse the publication.
Link(c) ==
    /\ at[c] = "link"
    /\ \/ /\ output[idx[c]] = None
          /\ output' = [output EXCEPT ![idx[c]] = c]
          /\ result' = [result EXCEPT ![c] = idx[c]]
          /\ Goto(c, "unlink")
       \/ /\ output[idx[c]] # None \/ Fails(c)
          /\ Goto(c, "drop")
          /\ UNCHANGED <<output, result>>
    /\ UNCHANGED <<runtimeVars, idx, lease, temp, content, judged, deleted,
                   stuck, dead>>

\* Mutant: a refused file stays where it is.
KeepRefused(c) ==
    /\ at[c] \in {"unlink", "drop"}
    /\ temp' = IF at[c] = "unlink" THEN temp \ {c} ELSE temp
    /\ Goto(c, "release")
    /\ UNCHANGED <<runtimeVars, idx, output, lease, content, judged, result,
                   deleted, stuck, dead>>

\* The temporary name goes, whether the file was published or refused.
RemoveTemporary(c) ==
    /\ at[c] \in {"unlink", "drop"}
    /\ \/ temp' = temp \ {c} /\ UNCHANGED stuck
       \/ Fails(c) /\ stuck' = stuck \union {c} /\ UNCHANGED temp
    /\ Goto(c, "release")
    /\ UNCHANGED <<runtimeVars, idx, output, lease, content, judged, result,
                   deleted, dead>>

\* Mutant: the source goes whether or not there is a published path.
ReleaseThenDelete(c) ==
    /\ at[c] = "release"
    /\ GiveUpLease(c)
    /\ Goto(c, IF c \in LocalPublishers THEN "inputs" ELSE "over")
    /\ UNCHANGED <<runtimeVars, idx, output, temp, content, judged, result,
                   deleted, stuck, dead>>

ReleaseLease(c) ==
    /\ at[c] = "release"
    /\ GiveUpLease(c)
    /\ Goto(c, IF c \in LocalPublishers /\ result[c] # 0
               THEN "inputs" ELSE "over")
    /\ UNCHANGED <<runtimeVars, idx, output, temp, content, judged, result,
                   deleted, stuck, dead>>

\* deleteSegments of a merge, inside its slot, or deleteOriginal of a
\* transcode, after it; a failure is ignored.
DeleteInput(j) ==
    /\ j \in LocalPublishers /\ at[j] = "inputs"
    /\ pc[j] = IF j \in Of("merge") THEN "task" ELSE "done"
    /\ deleted' = deleted \union {j}
    /\ Goto(j, "over")
    /\ UNCHANGED <<runtimeVars, idx, files, content, judged, result, stuck,
                   dead>>

LeaveTask(j) ==
    /\ \/ j \in Probes /\ run[j] # "none"
       \/ j \in LocalPublishers /\ at[j] = "over"
       \/ j \in LocalPublishers \ Of("merge") /\ at[j] = "inputs"
    /\ Leave(j)
    /\ UNCHANGED publicationVars

----------------------------------------------------------------------------
(* The environment.                                                        *)

\* Another process is killed between any two of its steps.
Crash(c) ==
    /\ c \in Others /\ at[c] \notin {"over", "dead"}
    /\ dead' = dead \union {c}
    /\ Goto(c, "dead")
    /\ UNCHANGED <<runtimeVars, idx, files, content, judged, result, deleted,
                   stuck>>

\* The reservation of a running process is removed by a racing reclaimer, once.
LoseLease(i) ==
    /\ setting.trouble = "thefts"
    /\ setting' = [setting EXCEPT !.trouble = "none"]
    /\ lease[i] \in Callers \ dead
    /\ lease' = [lease EXCEPT ![i] = None]
    /\ UNCHANGED <<runtimeVars, at, idx, output, temp, content,
                   judged, result, deleted, stuck, dead>>

RuntimeStep ==
    /\ \/ StartRecording \/ Resolve \/ FinishInitialization \/ Break
       \/ BeginTeardown \/ Flush \/ EndFlush \/ EndTeardown
       \/ \E j \in Jobs :
            \/ Begin(j) \/ Grant(j) \/ Refuse(j)
            \/ Timeout(j) \/ Escalate(j) \/ SpawnError(j) \/ Measure(j)
       \/ \E j \in Probes : Enter(j)
    /\ UNCHANGED publicationVars

JobStep(j) ==
    \/ StartProducing(j) \/ Copy(j) \/ Produced(j) \/ StartValidating(j)
    \/ Validated(j) \/ DeleteInput(j)

CallStep(c) ==
    \/ Look(c) \/ Reserve(c) \/ CleanUp(c) \/ Reopen(c) \/ Create(c)
    \/ Recheck(c) \/ ProduceElsewhere(c) \/ CheckOwner(c)
    \/ Link(c) \/ RemoveTemporary(c) \/ ReleaseLease(c)

Next ==
    \/ /\ \/ RuntimeStep
          \/ \E j \in Jobs : \/ LeaveTask(j)
                             \/ \E code \in {0, 1} : Exits(j, code)
          \/ \E j \in LocalPublishers : EnterTask(j) \/ JobStep(j)
          \/ \E c \in Callers : CallStep(c) \/ Crash(c)
       /\ UNCHANGED setting
    \/ \E i \in Paths : LoseLease(i)

Spec == Init /\ [][Next]_vars

\* What the event loop, the timers and the slot's deadline bring about; no
\* process has to exit by itself, and no hook has to start anything.
ServiceStep ==
    /\ \/ /\ \/ Resolve \/ FinishInitialization
             \/ Flush \/ EndFlush \/ EndTeardown
             \/ \E j \in Jobs :
                  \/ j \in Deferred /\ Begin(j)
                  \/ Refuse(j) \/ Timeout(j) \/ Escalate(j) \/ Measure(j)
             \/ \E j \in Probes : Enter(j)
          /\ UNCHANGED publicationVars
       \/ \E j \in Jobs : LeaveTask(j)
       \/ \E j \in LocalPublishers : EnterTask(j) \/ JobStep(j)
       \/ \E c \in Callers : CallStep(c)
    /\ UNCHANGED setting

FairSpec == Spec /\ WF_vars(ServiceStep)

----------------------------------------------------------------------------

\* A path that a call reports names the file it made: no two calls get the same
\* path and nobody's file is replaced, reservations lost or not
\* (artifact-integrity.ts:64 and 148-156).
OwnPath == \A c \in Callers : result[c] # 0 => output[result[c]] = c

\* An artifact of an earlier run, or of a process that has finished or died,
\* stays what it is.
NothingReplaced ==
    [][\A i \in Paths : output[i] # None => output'[i] = output[i]]_vars

\* What a reader finds under an artifact's name is complete: neither the
\* remains of a killed FFmpeg nor a file it closed early when it was stopped.
OnlyWholeArtifacts ==
    \A i \in Paths : output[i] \in Publishers => content[output[i]] = "whole"

\* A source is deleted only when a whole artifact stands in for it
\* (media-pipeline.ts:93, post-process.ts:236).
SourceReplaced ==
    \A j \in deleted : \E i \in Paths : output[i] = j /\ content[j] = "whole"

\* A temporary file exists only while its publisher works on it, or because
\* that was killed or the file system would not remove it.
TemporaryAccounted ==
    \A c \in temp : at[c] \in Working \/ c \in dead \/ c \in stuck

\* Nobody removes the temporary file of a publisher that still works: a
\* reclaimer only cleans up after the dead (cleanupAbandonedArtifact).
LiveTemporaryKept ==
    [][\A c \in temp : at[c] \in Working /\ at'[c] = at[c] => c \in temp']_vars
=============================================================================
