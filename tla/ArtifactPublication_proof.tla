--------------------- MODULE ArtifactPublication_proof ---------------------
(***************************************************************************)
(* Proofs about ArtifactPublication, for any jobs, other processes, kinds  *)
(* of calls, slots and candidates, with lost reservations and file         *)
(* operations that fail.  A call passes through its stations once; what it *)
(* has produced by each of them, and what no other call can change of it,  *)
(* makes the invariant.  Reservations are not part of the argument: they   *)
(* spare work, the link alone protects a name.                             *)
(***************************************************************************)
EXTENDS ArtifactPublication, TLAPS

Kinds == JobKinds \union CallKinds

SettingType ==
    /\ setting \in [trouble : Troubles, kind : [Callers -> Kinds]]
    /\ \A j \in Jobs : setting.kind[j] \in JobKinds
    /\ \A c \in Others : setting.kind[c] \in CallKinds

\* Where a call stands once its file has its name, or is refused.
After == {"unlink", "release", "inputs", "over", "dead"}

\* A job is on its way only in its slot, and a probe or a reserver does not
\* publish.
OnTheWay ==
    /\ \A j \in Jobs : at[j] # "out" => pc[j] \in {"task", "done"}
    /\ \A j \in Probes : at[j] = "out"
    /\ \A c \in Of("reserve") :
          at[c] \in {"exists", "lease", "cleanup", "reopen", "create",
                     "release", "over", "dead"}
    /\ \A c \in Callers : at[c] = "create" => c \in Of("reserve")

\* What has been produced is whole from validation on.
Produces ==
    /\ \A j \in LocalPublishers :
          at[j] = "producing" /\ run[j] = "true" => content[j] = "whole"
    /\ \A c \in Callers :
          at[c] \in {"validate", "validating", "own", "link", "unlink"} =>
              content[c] = "whole"

\* A name belongs to the call that reports it, which is through with it.
Named ==
    /\ OwnPath
    /\ \A i \in Paths : output[i] \in Callers =>
          /\ result[output[i]] = i
          /\ at[output[i]] \in After
          /\ output[i] \in Publishers => content[output[i]] = "whole"

\* Sources are deleted by publishers that report a path.
Deletes ==
    /\ \A c \in Callers :
          at[c] = "inputs" => c \in LocalPublishers /\ result[c] # 0
    /\ \A c \in deleted : c \in LocalPublishers /\ result[c] # 0

\* Only the dead are judged dead.
Judges ==
    /\ \A c \in dead : at[c] = "dead"
    /\ \A c \in Callers : judged[c] \in dead \union {None}

\* A run has succeeded when its process has closed.
RuntimeInv ==
    /\ RuntimeTypeOK
    /\ \A j \in Jobs : run[j] = "true" => j \notin alive

PublicationInv ==
    /\ SettingType /\ TypeOK /\ RuntimeInv
    /\ OnTheWay /\ Produces /\ Named /\ Deletes /\ Judges
    /\ TemporaryAccounted

----------------------------------------------------------------------------
(* What calls are does not change.                                         *)

LEMMA KindFacts ==
    ASSUME SettingType
    PROVE  /\ Callers = Jobs \union Others
           /\ LocalPublishers \subseteq Publishers
           /\ Publishers \subseteq Callers
           /\ Probes \subseteq Jobs
           /\ Publishers \intersect Of("reserve") = {}
           /\ Publishers \intersect Probes = {}
           /\ Of("reserve") \intersect Jobs = {}
           /\ \A c \in Others : c \in Publishers \/ c \in Of("reserve")
           /\ None \notin Callers /\ Foreign \notin Callers /\ None # Foreign
BY CallerAssumption DEF SettingType, Callers, LocalPublishers, Publishers,
   Probes, Of, JobKinds, CallKinds

\* Nothing is another kind of call after a step.
SameCalls ==
    /\ SettingType'
    /\ Probes' = Probes /\ LocalPublishers' = LocalPublishers
    /\ Publishers' = Publishers /\ Of("reserve")' = Of("reserve")
    /\ Of("merge")' = Of("merge")

LEMMA CallsStay ==
    ASSUME SettingType, UNCHANGED setting
    PROVE  SameCalls
BY DEF SameCalls, SettingType, Probes, LocalPublishers, Publishers, Of

LEMMA CallsStayOnLoss ==
    ASSUME SettingType, NEW i \in Paths, LoseLease(i)
    PROVE  SameCalls
<1>1. setting' = [setting EXCEPT !.trouble = "none"]
  BY DEF LoseLease
<1>2. /\ setting'.kind = setting.kind
      /\ setting' \in [trouble : Troubles, kind : [Callers -> Kinds]]
  BY <1>1 DEF SettingType, Troubles
<1> QED
  BY <1>2 DEF SameCalls, SettingType, Probes, LocalPublishers, Publishers, Of

----------------------------------------------------------------------------
(* The worker's runtime.                                                   *)

LEMMA StartRunType ==
    ASSUME RuntimeInv, SettingType, NEW j \in Jobs, StartRun(j),
           UNCHANGED <<setting, executable, initialized, start, pc, active,
                       control>>
    PROVE  /\ RuntimeInv'
           /\ run'[j] # "true"
           /\ \A k \in Jobs \ {j} : run'[k] = run[k]
           /\ run'[j] = "running" => j \in alive'
<1>1. available' \in BOOLEAN
  BY DEF StartRun, RuntimeInv, RuntimeTypeOK
<1>2. run' \in [Jobs -> RunStates] /\ alive' \subseteq Jobs
  BY DEF StartRun, RuntimeInv, RuntimeTypeOK, RunStates, Unsettled
<1> QED
  BY <1>1, <1>2 DEF StartRun, RuntimeInv, RuntimeTypeOK, control, RunStates, Unsettled

LEMMA CloseType ==
    ASSUME RuntimeInv, NEW j \in Jobs, NEW code, Close(j, code),
           UNCHANGED setting
    PROVE  /\ RuntimeInv'
           /\ \A k \in Jobs \ {j} : run'[k] = run[k]
           /\ run'[j] = "true" =>
                 run[j] = "true" \/ (run[j] = "running" /\ code = 0)
<1>1. run' \in [Jobs -> RunStates] /\ alive' \subseteq Jobs
  BY DEF Close, RuntimeInv, RuntimeTypeOK, RunStates, Unsettled
<1> QED
  BY <1>1 DEF Close, RuntimeInv, RuntimeTypeOK, readiness, control, RunStates, Unsettled

\* No step of the runtime alone makes a run succeed or takes a job out of its
\* slot.
RunsOn ==
    /\ \A j \in Jobs : run'[j] = "true" => run[j] = "true"
    /\ \A j \in Jobs : pc[j] \in {"task", "done"} => pc'[j] \in {"task", "done"}

LEMMA ReadinessKeeps ==
    ASSUME RuntimeInv, UNCHANGED setting,
           StartRecording \/ Resolve \/ FinishInitialization \/ Break
    PROVE  RuntimeInv' /\ RunsOn
<1>1. {executable', acceptingWork', available', initialized'} \subseteq BOOLEAN
  BY DEF StartRecording, Resolve, FinishInitialization, Break, RuntimeInv, RuntimeTypeOK,
         control
<1>2. start' \in {"none", "resolving", "configuring", "ready", "refused"}
  BY DEF StartRecording, Resolve, FinishInitialization, Break, RuntimeInv, RuntimeTypeOK
<1>3. UNCHANGED <<pc, active, processes, control>>
  BY DEF StartRecording, Resolve, FinishInitialization, Break
<1> QED
  BY <1>1, <1>2, <1>3 DEF RuntimeInv, RuntimeTypeOK, RunsOn, processes, control

LEMMA TeardownKeeps ==
    ASSUME RuntimeInv, UNCHANGED setting,
           BeginTeardown \/ Flush \/ EndFlush \/ EndTeardown
    PROVE  RuntimeInv' /\ RunsOn
<1>1. acceptingWork' \in BOOLEAN /\ UNCHANGED <<readiness, pc, alive>>
  BY DEF BeginTeardown, Flush, EndFlush, EndTeardown, processes
<1>2. /\ teardown' \in {"idle", "killing", "flushing", "ending"}
      /\ teardowns' \in 0 .. MaxTeardowns
  BY RuntimeLimitAssumption
  DEF BeginTeardown, Flush, EndFlush, EndTeardown, RuntimeInv, RuntimeTypeOK
<1>3. active' \subseteq Jobs
  BY DEF BeginTeardown, Flush, EndFlush, EndTeardown, RuntimeInv, RuntimeTypeOK
<1>4. run' \in {run, Terminated}
  BY DEF BeginTeardown, Flush, EndFlush, EndTeardown, processes
<1>5. run' \in [Jobs -> RunStates] /\ RunsOn
  BY <1>1, <1>4 DEF RunsOn, Terminated, RuntimeInv, RuntimeTypeOK, RunStates, Unsettled
<1> QED
  BY <1>1, <1>2, <1>3, <1>5 DEF RuntimeInv, RuntimeTypeOK, RunsOn, readiness

LEMMA SlotKeeps ==
    ASSUME RuntimeInv, UNCHANGED setting, NEW j \in Jobs,
           Begin(j) \/ Grant(j) \/ Refuse(j) \/ Enter(j)
    PROVE  RuntimeInv' /\ RunsOn
<1>1. UNCHANGED <<readiness, processes, control>>
  BY DEF Begin, Grant, Refuse, Enter
<1>2. active' \subseteq Jobs
  BY DEF Begin, Grant, Refuse, Enter, RuntimeInv, RuntimeTypeOK
<1>3. /\ pc' \in [Jobs -> {"idle", "acquiring", "granted", "task", "done"}]
      /\ \A k \in Jobs : pc[k] \in {"task", "done"} => pc'[k] \in {"task", "done"}
  BY DEF Begin, Grant, Refuse, Enter, RuntimeInv, RuntimeTypeOK
<1> QED
  BY <1>1, <1>2, <1>3 DEF RuntimeInv, RuntimeTypeOK, RunsOn, readiness, processes, control

LEMMA RunKeeps ==
    ASSUME RuntimeInv, SettingType, UNCHANGED setting, NEW j \in Jobs,
           Timeout(j) \/ Escalate(j) \/ SpawnError(j) \/ Measure(j)
    PROVE  RuntimeInv' /\ RunsOn
<1>1. CASE Timeout(j) \/ Escalate(j)
  <2>1. /\ run' \in [Jobs -> RunStates]
        /\ \A k \in Jobs : run'[k] = "true" => run[k] = "true"
    BY <1>1 DEF Timeout, Escalate, RuntimeInv, RuntimeTypeOK, RunStates, Unsettled
  <2> QED
    BY <1>1, <2>1 DEF Timeout, Escalate, RuntimeInv, RuntimeTypeOK, RunsOn, readiness, control
<1>2. CASE SpawnError(j)
  <2>1. /\ run' \in [Jobs -> RunStates]
        /\ \A k \in Jobs : run'[k] = "true" => run[k] = "true"
    BY <1>2 DEF SpawnError, RuntimeInv, RuntimeTypeOK, RunStates, Unsettled
  <2>2. available' \in BOOLEAN
    BY <1>2 DEF SpawnError
  <2> QED
    BY <1>2, <2>1, <2>2 DEF SpawnError, RuntimeInv, RuntimeTypeOK, RunsOn, control
<1>3. CASE Measure(j)
  BY <1>3, StartRunType DEF Measure, RunsOn, control
<1> QED
  BY <1>1, <1>2, <1>3

LEMMA RuntimeKeeps ==
    ASSUME RuntimeInv, SettingType, UNCHANGED setting, RuntimeStep
    PROVE  RuntimeInv' /\ RunsOn
BY ReadinessKeeps, TeardownKeeps, SlotKeeps, RunKeeps DEF RuntimeStep, Probes

----------------------------------------------------------------------------
(* Calls.                                                                  *)

\* A call goes from one of its stations to another, and keeps what it made.
LEMMA Walks ==
    ASSUME PublicationInv, NEW c \in Callers, NEW to \in Locations,
           at' = [at EXCEPT ![c] = to],
           SameCalls, RuntimeInv', RunsOn,
           idx' \in [Callers -> Paths],
           lease' \in [Paths -> Callers \union {None}],
           judged' \in [Callers -> Callers \union {None}],
           \A k \in Callers : judged'[k] \in dead \union {None},
           UNCHANGED <<output, temp, content, result, deleted, stuck, dead>>,
           at[c] \notin {"out", "dead"},
           to # "dead" /\ to # "out" /\ to # "producing",
           to \in {"validate", "validating", "own", "link", "unlink"} =>
               content[c] = "whole",
           at[c] \in After => to \in After,
           at[c] \in Working => to \in Working,
           to = "inputs" => c \in LocalPublishers /\ result[c] # 0,
           to = "create" => c \in Of("reserve"),
           c \in Of("reserve") =>
               to \in {"exists", "lease", "cleanup", "reopen", "create",
                       "release", "over"}
    PROVE  PublicationInv'
<1>1. /\ at' \in [Callers -> Locations] /\ at'[c] = to
      /\ \A k \in Callers \ {c} : at'[k] = at[k]
  BY DEF PublicationInv, TypeOK
<1>2. TypeOK'
  BY <1>1 DEF RuntimeInv, PublicationInv, TypeOK, SameCalls
<1>3. OnTheWay'
  BY <1>1, KindFacts DEF PublicationInv, OnTheWay, SameCalls, RunsOn
<1>4. Produces'
  BY <1>1 DEF PublicationInv, Produces, SameCalls, RunsOn, LocalPublishers
<1>5. Named'
  BY <1>1 DEF PublicationInv, Named, OwnPath, SameCalls
<1>6. Deletes'
  BY <1>1 DEF PublicationInv, Deletes, SameCalls
<1>7. Judges'
  BY <1>1 DEF PublicationInv, Judges
<1>8. TemporaryAccounted'
  BY <1>1 DEF PublicationInv, TemporaryAccounted, TypeOK, Publishers
<1> QED
  BY <1>2, <1>3, <1>4, <1>5, <1>6, <1>7, <1>8 DEF PublicationInv, SameCalls

\* The steps of a call that leave the worker's runtime alone.
LEMMA Alone ==
    ASSUME PublicationInv, UNCHANGED <<setting, runtimeVars>>
    PROVE  SameCalls /\ RuntimeInv' /\ RunsOn
BY CallsStay DEF PublicationInv, TypeOK, runtimeVars, readiness, processes,
   control, RuntimeInv, RuntimeTypeOK, RunsOn

LEMMA NextCandidateType ==
    ASSUME TypeOK, NEW c \in Callers, NextCandidate(c)
    PROVE  /\ idx' \in [Callers -> Paths]
           /\ \E to \in {"exists", "over"} : Goto(c, to)
<1>1. CASE idx[c] < Candidates
  <2>1. idx[c] + 1 \in Paths
    BY <1>1, PublicationLimitAssumption DEF TypeOK, Paths
  <2>2. idx' = [idx EXCEPT ![c] = idx[c] + 1] /\ Goto(c, "exists")
    BY <1>1, PublicationLimitAssumption DEF NextCandidate, TypeOK, Paths
  <2> QED
    BY <2>1, <2>2 DEF TypeOK
<1>2. CASE idx[c] = Candidates
  <2>1. UNCHANGED idx /\ Goto(c, "over")
    BY <1>2, PublicationLimitAssumption DEF NextCandidate
  <2> QED
    BY <2>1 DEF TypeOK
<1> QED
  BY <1>1, <1>2 DEF NextCandidate

LEMMA GiveUpLeaseType ==
    ASSUME TypeOK, NEW c \in Callers, GiveUpLease(c)
    PROVE  lease' \in [Paths -> Callers \union {None}]
BY DEF GiveUpLease, TypeOK

LEMMA LookKeeps ==
    ASSUME PublicationInv, NEW c \in Callers, Look(c), UNCHANGED setting
    PROVE  PublicationInv'
<1>1. /\ SameCalls /\ RuntimeInv' /\ RunsOn /\ TypeOK
      /\ at[c] = "exists"
  BY Alone DEF Look, PublicationInv
<1>2. idx' \in [Callers -> Paths]
  BY <1>1, NextCandidateType DEF Look, TypeOK
<1>3. \E to \in {"lease", "exists", "over"} : Goto(c, to)
  BY <1>1, NextCandidateType DEF Look
<1>4. PICK to \in {"lease", "exists", "over"} : at' = [at EXCEPT ![c] = to]
  BY <1>3 DEF Goto
<1> QED
  BY <1>1, <1>2, <1>4, Walks
  DEF Look, PublicationInv, TypeOK, Locations, After, Working, Judges, files

\* What taking a reservation does.
LEMMA ReservedType ==
    ASSUME PublicationInv, NEW c \in Callers, Reserved(c)
    PROVE  /\ lease' \in [Paths -> Callers \union {None}]
           /\ \E to \in {"create", "recheck"} :
                 /\ Goto(c, to)
                 /\ to = "create" => c \in Of("reserve")
                 /\ to = "recheck" => c \notin Of("reserve")
BY DEF Reserved, PublicationInv, TypeOK

LEMMA ReserveKeeps ==
    ASSUME PublicationInv, NEW c \in Callers, Reserve(c), UNCHANGED setting
    PROVE  PublicationInv'
<1>1. /\ SameCalls /\ RuntimeInv' /\ RunsOn /\ TypeOK
      /\ at[c] = "lease"
  BY Alone DEF Reserve, PublicationInv
<1>2. CASE lease[idx[c]] = None /\ Reserved(c) /\ UNCHANGED <<idx, judged>>
  <2>1. PICK to \in {"create", "recheck"} :
           /\ at' = [at EXCEPT ![c] = to]
           /\ to = "create" => c \in Of("reserve")
           /\ to = "recheck" => c \notin Of("reserve")
    BY <1>2, ReservedType DEF Goto
  <2>2. lease' \in [Paths -> Callers \union {None}]
    BY <1>2, ReservedType
  <2> QED
    BY <1>1, <1>2, <2>1, <2>2, Walks
    DEF Reserve, PublicationInv, TypeOK, Locations, After, Working, Judges
<1>3. CASE /\ Reclaimable(idx[c])
           /\ lease' = [lease EXCEPT ![idx[c]] = None]
           /\ judged' = [judged EXCEPT ![c] = lease[idx[c]]]
           /\ Goto(c, "cleanup")
           /\ UNCHANGED idx
  <2>1. lease[idx[c]] \in dead /\ dead \subseteq Callers
    BY <1>1, <1>3 DEF Reclaimable, TypeOK
  <2>2. /\ judged' \in [Callers -> Callers \union {None}]
        /\ \A k \in Callers : judged'[k] \in dead \union {None}
    BY <1>1, <1>3, <2>1 DEF TypeOK, PublicationInv, Judges
  <2>3. lease' \in [Paths -> Callers \union {None}]
    BY <1>1, <1>3 DEF TypeOK
  <2> QED
    BY <1>1, <1>3, <2>2, <2>3, Walks
    DEF Reserve, Goto, TypeOK, Locations, After, Working
<1>4. CASE NextCandidate(c) /\ UNCHANGED <<lease, judged>>
  <2>1. PICK to \in {"exists", "over"} : at' = [at EXCEPT ![c] = to]
    BY <1>1, <1>4, NextCandidateType DEF Goto
  <2>2. idx' \in [Callers -> Paths]
    BY <1>1, <1>4, NextCandidateType
  <2> QED
    BY <1>1, <1>4, <2>1, <2>2, Walks
    DEF Reserve, PublicationInv, TypeOK, Locations, After, Working, Judges
<1>5. CASE Goto(c, "over") /\ UNCHANGED <<idx, lease, judged>>
  BY <1>1, <1>5, Walks
  DEF Reserve, Goto, PublicationInv, TypeOK, Locations, After, Working, Judges
<1> QED
  BY <1>2, <1>3, <1>4, <1>5 DEF Reserve

LEMMA ReopenKeeps ==
    ASSUME PublicationInv, NEW c \in Callers, Reopen(c), UNCHANGED setting
    PROVE  PublicationInv'
<1>1. /\ SameCalls /\ RuntimeInv' /\ RunsOn /\ TypeOK
      /\ at[c] = "reopen"
      /\ judged' \in [Callers -> Callers \union {None}]
      /\ \A k \in Callers : judged'[k] \in dead \union {None}
  BY Alone DEF Reopen, PublicationInv, TypeOK, Judges
<1>2. CASE lease[idx[c]] = None /\ Reserved(c) /\ UNCHANGED idx
  <2>1. PICK to \in {"create", "recheck"} :
           /\ at' = [at EXCEPT ![c] = to]
           /\ to = "create" => c \in Of("reserve")
           /\ to = "recheck" => c \notin Of("reserve")
    BY <1>2, ReservedType DEF Goto
  <2>2. lease' \in [Paths -> Callers \union {None}]
    BY <1>2, ReservedType
  <2> QED
    BY <1>1, <1>2, <2>1, <2>2, Walks
    DEF Reopen, TypeOK, Locations, After, Working
<1>3. CASE NextCandidate(c) /\ UNCHANGED lease
  <2>1. PICK to \in {"exists", "over"} : at' = [at EXCEPT ![c] = to]
    BY <1>1, <1>3, NextCandidateType DEF Goto
  <2>2. idx' \in [Callers -> Paths]
    BY <1>1, <1>3, NextCandidateType
  <2> QED
    BY <1>1, <1>3, <2>1, <2>2, Walks
    DEF Reopen, TypeOK, Locations, After, Working
<1> QED
  BY <1>2, <1>3 DEF Reopen

LEMMA RecheckKeeps ==
    ASSUME PublicationInv, NEW c \in Callers, Recheck(c), UNCHANGED setting
    PROVE  PublicationInv'
<1>1. /\ SameCalls /\ RuntimeInv' /\ RunsOn /\ TypeOK
      /\ at[c] = "recheck"
      /\ c \notin Of("reserve")
  BY Alone DEF Recheck, PublicationInv, OnTheWay
<1>2. idx' \in [Callers -> Paths]
  BY <1>1, NextCandidateType DEF Recheck, TypeOK
<1>3. lease' \in [Paths -> Callers \union {None}]
  BY <1>1, GiveUpLeaseType DEF Recheck, TypeOK
<1>4. \E to \in {"produce", "exists", "over"} : Goto(c, to)
  BY <1>1, NextCandidateType DEF Recheck
<1>5. PICK to \in {"produce", "exists", "over"} : at' = [at EXCEPT ![c] = to]
  BY <1>4 DEF Goto
<1> QED
  BY <1>1, <1>2, <1>3, <1>5, Walks
  DEF Recheck, PublicationInv, TypeOK, Locations, After, Working, Judges

LEMMA CheckOwnerKeeps ==
    ASSUME PublicationInv, NEW c \in Callers, CheckOwner(c), UNCHANGED setting
    PROVE  PublicationInv'
<1>1. /\ SameCalls /\ RuntimeInv' /\ RunsOn
      /\ at[c] = "own" /\ content[c] = "whole"
      /\ c \notin Of("reserve")
  BY Alone DEF CheckOwner, PublicationInv, OnTheWay, Produces
<1>2. PICK to \in {"link", "drop"} : at' = [at EXCEPT ![c] = to]
  BY DEF CheckOwner, Goto
<1> QED
  BY <1>1, <1>2, Walks
  DEF CheckOwner, PublicationInv, TypeOK, Locations, After, Working, Judges, files

LEMMA ReleaseLeaseKeeps ==
    ASSUME PublicationInv, NEW c \in Callers, ReleaseLease(c), UNCHANGED setting
    PROVE  PublicationInv'
<1>1. /\ SameCalls /\ RuntimeInv' /\ RunsOn /\ TypeOK
      /\ at[c] = "release"
  BY Alone DEF ReleaseLease, PublicationInv
<1>2. lease' \in [Paths -> Callers \union {None}]
  BY <1>1, GiveUpLeaseType DEF ReleaseLease
<1>3. PICK to \in {"inputs", "over"} :
         /\ at' = [at EXCEPT ![c] = to]
         /\ to = "inputs" => c \in LocalPublishers /\ result[c] # 0
  BY DEF ReleaseLease, Goto
<1>4. c \in LocalPublishers => c \notin Of("reserve")
  BY KindFacts DEF PublicationInv
<1> QED
  BY <1>1, <1>2, <1>3, <1>4, Walks
  DEF ReleaseLease, PublicationInv, TypeOK, Locations, After, Working, Judges

LEMMA ProducedKeeps ==
    ASSUME PublicationInv, NEW j \in Jobs, Produced(j) \/ Validated(j),
           UNCHANGED setting
    PROVE  PublicationInv'
<1>1. /\ SameCalls /\ RuntimeInv' /\ RunsOn
      /\ j \in LocalPublishers /\ j \in Callers /\ j \notin Of("reserve")
      /\ at[j] \in {"producing", "validating"}
  BY Alone, KindFacts DEF Produced, Validated, PublicationInv
<1>2. PICK to \in {"validate", "own", "drop"} :
         /\ at' = [at EXCEPT ![j] = to]
         /\ to \in {"validate", "own"} =>
               content[j] = "whole"
  BY <1>1 DEF Produced, Validated, Goto, PublicationInv, Produces
<1> QED
  BY <1>1, <1>2, Walks
  DEF Produced, Validated, PublicationInv, TypeOK, Locations, After, Working,
      Judges, files

\* The other steps of a call change something of what it made.

LEMMA CleanUpKeeps ==
    ASSUME PublicationInv, NEW c \in Callers, CleanUp(c), UNCHANGED setting
    PROVE  PublicationInv'
<1>1. /\ SameCalls /\ RuntimeInv' /\ RunsOn
      /\ at[c] = "cleanup" /\ at' = [at EXCEPT ![c] = "reopen"]
      /\ temp' \subseteq temp
  BY Alone DEF CleanUp, Goto
<1>2. /\ at' \in [Callers -> Locations] /\ at'[c] = "reopen"
      /\ \A k \in Callers \ {c} : at'[k] = at[k]
  BY <1>1 DEF PublicationInv, TypeOK, Locations
<1>3. TypeOK'
  BY <1>1, <1>2 DEF RuntimeInv, CleanUp, PublicationInv, TypeOK, SameCalls
<1>4. OnTheWay'
  BY <1>1, <1>2 DEF CleanUp, PublicationInv, OnTheWay, SameCalls, RunsOn
<1>5. Produces'
  BY <1>1, <1>2 DEF CleanUp, PublicationInv, Produces, SameCalls, RunsOn,
                    LocalPublishers
<1>6. Named'
  BY <1>1, <1>2 DEF CleanUp, PublicationInv, Named, OwnPath, SameCalls, After
<1>7. Deletes' /\ Judges'
  BY <1>1, <1>2 DEF CleanUp, PublicationInv, Deletes, Judges, SameCalls
<1>8. TemporaryAccounted'
  BY <1>1, <1>2 DEF CleanUp, PublicationInv, TemporaryAccounted, TypeOK,
                    Working, Publishers
<1> QED
  BY <1>1, <1>3, <1>4, <1>5, <1>6, <1>7, <1>8 DEF PublicationInv, SameCalls

\* A name is given to a call that had none, and was free.
LEMMA Names ==
    ASSUME PublicationInv, NEW c \in Callers, NEW to \in {"unlink", "release"},
           at' = [at EXCEPT ![c] = to], at[c] \in {"link", "create"},
           output[idx[c]] = None,
           output' = [output EXCEPT ![idx[c]] = c],
           result' = [result EXCEPT ![c] = idx[c]],
           at[c] = "link" <=> to = "unlink",
           UNCHANGED <<setting, runtimeVars, idx, lease, temp, content, judged,
                       deleted, stuck, dead>>
    PROVE  PublicationInv'
<1>0. SameCalls /\ RuntimeInv' /\ RunsOn
  BY Alone
<1>1. /\ at' \in [Callers -> Locations] /\ at'[c] = to
      /\ \A k \in Callers \ {c} : at'[k] = at[k]
  BY DEF PublicationInv, TypeOK, Locations
<1>2. /\ idx[c] \in Paths /\ idx[c] # 0 /\ idx[c] \in 0 .. Candidates
      /\ output'[idx[c]] = c /\ result'[c] = idx[c]
      /\ \A i \in Paths \ {idx[c]} : output'[i] = output[i]
      /\ \A k \in Callers \ {c} : result'[k] = result[k]
  BY PublicationLimitAssumption DEF PublicationInv, TypeOK, Paths
<1>3. TypeOK'
  BY <1>0, <1>1, <1>2 DEF RuntimeInv, PublicationInv, TypeOK, SameCalls
<1>4. OnTheWay'
  BY <1>0, <1>1 DEF PublicationInv, OnTheWay, SameCalls, RunsOn
<1>5. Produces'
  BY <1>0, <1>1 DEF PublicationInv, Produces, SameCalls, RunsOn, LocalPublishers
<1>6. \A k \in Callers : result[k] # 0 => result[k] # idx[c] /\ k # c
  <2> SUFFICES ASSUME NEW k \in Callers, result[k] # 0
               PROVE  result[k] # idx[c] /\ k # c
    OBVIOUS
  <2>1. result[k] \in Paths /\ output[result[k]] = k
    BY PublicationLimitAssumption
    DEF PublicationInv, TypeOK, Named, OwnPath, Paths
  <2>2. result[k] # idx[c]
    BY <2>1, CallerAssumption
  <2>3. at[k] \in After
    BY <2>1 DEF PublicationInv, Named
  <2> QED
    BY <2>2, <2>3 DEF After
<1>7. c \in Publishers => content[c] = "whole"
  BY <1>1, KindFacts DEF PublicationInv, Produces, OnTheWay
<1>8. Named'
  <2>1. OwnPath'
    BY <1>2, <1>6, PublicationLimitAssumption
    DEF PublicationInv, Named, OwnPath, TypeOK, Paths
  <2>2. ASSUME NEW i \in Paths, output'[i] \in Callers
        PROVE  /\ result'[output'[i]] = i
               /\ at'[output'[i]] \in After
               /\ output'[i] \in Publishers => content[output'[i]] = "whole"
    <3>1. CASE i = idx[c]
      BY <1>1, <1>2, <1>7, <3>1 DEF After
    <3>2. CASE i # idx[c]
      <4>1. output'[i] = output[i] /\ result[output[i]] = i /\ i # 0
        BY <1>2, <2>2, <3>2, PublicationLimitAssumption
        DEF PublicationInv, Named, Paths
      <4>2. output[i] # c
        BY <1>6, <2>2, <4>1
      <4> QED
        BY <1>1, <1>2, <2>2, <4>1, <4>2 DEF PublicationInv, Named
    <3> QED
      BY <3>1, <3>2
  <2> QED
    BY <1>0, <2>1, <2>2 DEF Named, SameCalls
<1>9. Deletes'
  BY <1>0, <1>1, <1>2 DEF PublicationInv, Deletes, SameCalls, TypeOK
<1>10. Judges'
  BY <1>1 DEF PublicationInv, Judges
<1>11. TemporaryAccounted'
  BY <1>1, KindFacts DEF PublicationInv, TemporaryAccounted, TypeOK, OnTheWay,
                         Working
<1> QED
  BY <1>0, <1>3, <1>4, <1>5, <1>8, <1>9, <1>10, <1>11
  DEF PublicationInv, SameCalls

LEMMA CreateKeeps ==
    ASSUME PublicationInv, NEW c \in Callers, Create(c), UNCHANGED setting
    PROVE  PublicationInv'
<1>1. /\ SameCalls /\ RuntimeInv' /\ RunsOn /\ TypeOK
      /\ at[c] = "create" /\ c \in Of("reserve")
      /\ lease' \in [Paths -> Callers \union {None}]
  BY Alone, GiveUpLeaseType DEF Create, PublicationInv, OnTheWay, TypeOK
<1>2. CASE /\ output[idx[c]] = None
           /\ output' = [output EXCEPT ![idx[c]] = c]
           /\ result' = [result EXCEPT ![c] = idx[c]]
           /\ Goto(c, "release")
           /\ UNCHANGED <<idx, lease>>
  BY <1>1, <1>2, Names DEF Create, Goto
<1>3. CASE NextCandidate(c) /\ UNCHANGED <<output, result>>
  <2>1. PICK to \in {"exists", "over"} : at' = [at EXCEPT ![c] = to]
    BY <1>1, <1>3, NextCandidateType DEF Goto
  <2>2. idx' \in [Callers -> Paths]
    BY <1>1, <1>3, NextCandidateType
  <2> QED
    BY <1>1, <1>3, <2>1, <2>2, Walks
    DEF Create, PublicationInv, TypeOK, Locations, After, Working, Judges
<1>4. CASE Goto(c, "release") /\ UNCHANGED <<idx, output, lease, result>>
  BY <1>1, <1>4, Walks
  DEF Create, Goto, PublicationInv, TypeOK, Locations, After, Working, Judges
<1> QED
  BY <1>2, <1>3, <1>4 DEF Create

LEMMA LinkKeeps ==
    ASSUME PublicationInv, NEW c \in Callers, Link(c), UNCHANGED setting
    PROVE  PublicationInv'
<1>1. /\ SameCalls /\ RuntimeInv' /\ RunsOn
      /\ at[c] = "link" /\ content[c] = "whole" /\ c \notin Of("reserve")
  BY Alone DEF Link, PublicationInv, OnTheWay, Produces
<1>2. CASE /\ output[idx[c]] = None
           /\ output' = [output EXCEPT ![idx[c]] = c]
           /\ result' = [result EXCEPT ![c] = idx[c]]
           /\ Goto(c, "unlink")
  BY <1>1, <1>2, Names DEF Link, Goto
<1>3. CASE Goto(c, "drop") /\ UNCHANGED <<output, result>>
  BY <1>1, <1>3, Walks
  DEF Link, Goto, PublicationInv, TypeOK, Locations, After, Working, Judges
<1> QED
  BY <1>2, <1>3 DEF Link

\* The temporary file goes, or is known not to.
LEMMA RemoveTemporaryKeeps ==
    ASSUME PublicationInv, NEW c \in Callers, RemoveTemporary(c),
           UNCHANGED setting
    PROVE  PublicationInv'
<1>1. /\ SameCalls /\ RuntimeInv' /\ RunsOn
      /\ at[c] \in {"unlink", "drop"} /\ at' = [at EXCEPT ![c] = "release"]
      /\ temp' \subseteq temp /\ stuck \subseteq stuck'
      /\ c \notin temp' \/ c \in stuck'
  BY Alone DEF RemoveTemporary, Goto
<1>2. /\ at' \in [Callers -> Locations] /\ at'[c] = "release"
      /\ \A k \in Callers \ {c} : at'[k] = at[k]
  BY <1>1 DEF PublicationInv, TypeOK, Locations
<1>3. TypeOK'
  BY <1>1, <1>2 DEF RuntimeInv, RemoveTemporary, PublicationInv, TypeOK, SameCalls
<1>4. OnTheWay'
  BY <1>1, <1>2 DEF RemoveTemporary, PublicationInv, OnTheWay, SameCalls, RunsOn
<1>5. Produces'
  BY <1>1, <1>2 DEF RemoveTemporary, PublicationInv, Produces, SameCalls,
                    RunsOn, LocalPublishers
<1>6. Named'
  BY <1>1, <1>2 DEF RemoveTemporary, PublicationInv, Named, OwnPath, SameCalls,
                    After
<1>7. Deletes' /\ Judges'
  BY <1>1, <1>2 DEF RemoveTemporary, PublicationInv, Deletes, Judges, SameCalls
<1>8. TemporaryAccounted'
  BY <1>1, <1>2 DEF RemoveTemporary, PublicationInv, TemporaryAccounted, TypeOK,
                    Publishers
<1> QED
  BY <1>1, <1>3, <1>4, <1>5, <1>6, <1>7, <1>8 DEF PublicationInv, SameCalls

\* A call that has no name yet writes its temporary file.
LEMMA Produce ==
    ASSUME PublicationInv, NEW c \in Publishers,
           NEW to \in {"producing", "validate", "drop", "own"},
           NEW what \in {"none", "partial", "short", "whole"},
           at' = [at EXCEPT ![c] = to],
           at[c] \in {"produce", "producing"},
           content' = [content EXCEPT ![c] = what],
           temp' \in {temp, temp \union {c}},
           to \in {"validate", "own"} => what = "whole",
           to = "producing" /\ c \in LocalPublishers => run'[c] # "true",
           SameCalls, RuntimeInv',
           \A j \in Jobs \ {c} : run'[j] = "true" => run[j] = "true",
           \A j \in Jobs :
               pc[j] \in {"task", "done"} => pc'[j] \in {"task", "done"},
           UNCHANGED <<idx, output, lease, judged, result, deleted, stuck, dead>>
    PROVE  PublicationInv'
<1>1. /\ c \in Callers /\ c \notin Of("reserve") /\ c \notin Probes
  BY KindFacts DEF PublicationInv
<1>2. /\ at' \in [Callers -> Locations] /\ at'[c] = to
      /\ \A k \in Callers \ {c} : at'[k] = at[k]
  BY <1>1 DEF PublicationInv, TypeOK, Locations
<1>3. /\ content' \in [Callers -> {"none", "partial", "short", "whole"}]
      /\ content'[c] = what
      /\ \A k \in Callers \ {c} : content'[k] = content[k]
  BY <1>1 DEF PublicationInv, TypeOK
<1>4. TypeOK'
  BY <1>2, <1>3 DEF RuntimeInv, PublicationInv, TypeOK, SameCalls
<1>5. OnTheWay'
  BY <1>1, <1>2 DEF PublicationInv, OnTheWay, SameCalls
<1>6. Produces'
  BY <1>1, <1>2, <1>3 DEF PublicationInv, Produces, SameCalls, LocalPublishers
<1>7. \A i \in Paths : output[i] # c
  BY <1>1 DEF PublicationInv, Named, After
<1>8. Named'
  BY <1>1, <1>2, <1>3, <1>7 DEF PublicationInv, Named, OwnPath, SameCalls
<1>9. Deletes' /\ Judges'
  BY <1>2 DEF PublicationInv, Deletes, Judges, SameCalls
<1>10. TemporaryAccounted'
  BY <1>1, <1>2 DEF PublicationInv, TemporaryAccounted, TypeOK, Working,
                    Publishers
<1> QED
  BY <1>4, <1>5, <1>6, <1>8, <1>9, <1>10 DEF PublicationInv, SameCalls

LEMMA CopyKeeps ==
    ASSUME PublicationInv, NEW j \in LocalPublishers, Copy(j), UNCHANGED setting
    PROVE  PublicationInv'
<1>1. SameCalls /\ RuntimeInv' /\ RunsOn /\ j \in Publishers
  BY Alone, KindFacts DEF Copy, PublicationInv
<1>2. CASE Writes(j, "whole") /\ Goto(j, "validate")
  BY <1>1, <1>2, Produce DEF Copy, Writes, Goto, RunsOn
<1>3. CASE Writes(j, "partial") /\ Goto(j, "drop")
  BY <1>1, <1>3, Produce DEF Copy, Writes, Goto, RunsOn
<1> QED
  BY <1>2, <1>3 DEF Copy

LEMMA ProduceElsewhereKeeps ==
    ASSUME PublicationInv, NEW c \in Callers, ProduceElsewhere(c),
           UNCHANGED setting
    PROVE  PublicationInv'
<1>1. /\ SameCalls /\ RuntimeInv' /\ RunsOn
      /\ c \in Publishers /\ c \notin LocalPublishers
  BY Alone, KindFacts, CallerAssumption
  DEF ProduceElsewhere, PublicationInv, OnTheWay, LocalPublishers
<1>2. CASE at[c] = "produce" /\ Writes(c, "partial") /\ Goto(c, "producing")
  BY <1>1, <1>2, Produce DEF ProduceElsewhere, Writes, Goto, RunsOn
<1>3. CASE at[c] = "producing" /\ Writes(c, "whole") /\ Goto(c, "own")
  BY <1>1, <1>3, Produce DEF ProduceElsewhere, Writes, Goto, RunsOn
<1>4. CASE at[c] = "producing" /\ Goto(c, "drop") /\ UNCHANGED <<temp, content>>
  <2>1. c \in Callers /\ c \notin Of("reserve")
    BY <1>1, KindFacts DEF PublicationInv
  <2> QED
    BY <1>1, <1>4, <2>1, Walks
    DEF ProduceElsewhere, Goto, PublicationInv, TypeOK, Locations, After,
        Working, Judges
<1> QED
  BY <1>2, <1>3, <1>4 DEF ProduceElsewhere

LEMMA StartProducingKeeps ==
    ASSUME PublicationInv, NEW j \in LocalPublishers, StartProducing(j),
           UNCHANGED setting
    PROVE  PublicationInv'
<1>1. /\ SameCalls /\ j \in Publishers /\ j \in Callers /\ j \in Jobs
  BY CallsStay, KindFacts DEF PublicationInv, LocalPublishers
<1>2. /\ RuntimeInv' /\ run'[j] # "true"
      /\ \A k \in Jobs \ {j} : run'[k] = run[k]
      /\ pc' = pc
  BY <1>1, StartRunType DEF StartProducing, PublicationInv, TypeOK
<1>3. at[j] = "produce" /\ at' = [at EXCEPT ![j] = "producing"]
  BY DEF StartProducing, Goto
<1>4. content[j] \in {"none", "partial", "whole", "short"}
  BY <1>1 DEF PublicationInv, TypeOK
<1>5. CASE run'[j] = "running"
  BY <1>1, <1>2, <1>3, <1>5, Produce DEF StartProducing, Writes
<1>6. CASE run'[j] # "running"
  <2>1. content' = [content EXCEPT ![j] = content[j]] /\ temp' = temp
    BY <1>1, <1>6 DEF StartProducing, PublicationInv, TypeOK
  <2> QED
    BY <1>1, <1>2, <1>3, <1>4, <2>1, Produce DEF StartProducing
<1> QED
  BY <1>5, <1>6

----------------------------------------------------------------------------
(* Steps of a job in the runtime and the way it takes.                     *)

\* The station of a call stays, and so does what it has produced.
LEMMA RunsAside ==
    ASSUME PublicationInv, SameCalls, RuntimeInv',
           \A j \in Jobs : run'[j] = "true" /\ at[j] = "producing"
                              => run[j] = "true" \/ content[j] = "whole",
           \A j \in Jobs :
               pc[j] \in {"task", "done"} => pc'[j] \in {"task", "done"},
           UNCHANGED publicationVars
    PROVE  PublicationInv'
<1>1. TypeOK'
  BY DEF RuntimeInv, PublicationInv, TypeOK, SameCalls, publicationVars, files
<1>2. OnTheWay'
  BY DEF PublicationInv, OnTheWay, SameCalls, publicationVars
<1>3. Produces'
  BY DEF PublicationInv, Produces, SameCalls, LocalPublishers, publicationVars
<1>4. Named' /\ Deletes' /\ Judges' /\ TemporaryAccounted'
  BY DEF PublicationInv, Named, OwnPath, Deletes, Judges, TemporaryAccounted,
         SameCalls, publicationVars, files
<1> QED
  BY <1>1, <1>2, <1>3, <1>4 DEF PublicationInv, SameCalls

LEMMA RuntimeStepKeeps ==
    ASSUME PublicationInv, RuntimeStep, UNCHANGED setting
    PROVE  PublicationInv'
<1>1. RuntimeInv' /\ RunsOn
  BY RuntimeKeeps DEF PublicationInv, TypeOK
<1> QED
  BY <1>1, CallsStay, RunsAside DEF PublicationInv, RuntimeStep, RunsOn

LEMMA LeaveTaskKeeps ==
    ASSUME PublicationInv, NEW j \in Jobs, LeaveTask(j), UNCHANGED setting
    PROVE  PublicationInv'
<1>1. /\ pc' \in [Jobs -> {"idle", "acquiring", "granted", "task", "done"}]
      /\ run' \in [Jobs -> RunStates]
      /\ active' \subseteq Jobs
      /\ \A k \in Jobs : run'[k] = "true" => run[k] = "true"
      /\ UNCHANGED <<readiness, alive, control>>
  BY DEF LeaveTask, Leave, PublicationInv, TypeOK, RuntimeInv, RuntimeTypeOK, RunStates
<1>2. RuntimeInv'
  BY <1>1 DEF PublicationInv, TypeOK, RuntimeInv, RuntimeTypeOK, readiness, control
<1>3. \A k \in Jobs : /\ run'[k] = "true" => run[k] = "true"
                      /\ pc[k] \in {"task", "done"} => pc'[k] \in {"task", "done"}
  BY DEF LeaveTask, Leave, PublicationInv, TypeOK, RuntimeInv, RuntimeTypeOK
<1> QED
  BY <1>2, <1>3, CallsStay, RunsAside DEF PublicationInv, LeaveTask

\* An exit makes a run succeed only when the file is whole by then.
LEMMA ExitsKeeps ==
    ASSUME PublicationInv, NEW j \in Jobs, NEW code \in {0, 1}, Exits(j, code),
           UNCHANGED setting
    PROVE  PublicationInv'
<1>1. SameCalls /\ Close(j, code) /\ UNCHANGED pc
  BY CallsStay DEF Exits, PublicationInv, Close
<1>2. /\ RuntimeInv'
      /\ \A k \in Jobs \ {j} : run'[k] = run[k]
      /\ run'[j] = "true" => run[j] = "true" \/ (run[j] = "running" /\ code = 0)
  BY <1>1, CloseType DEF PublicationInv, TypeOK
<1>3. CASE j \in LocalPublishers /\ at[j] = "producing" /\ code = 0
  <2> DEFINE what == IF run[j] = "running" THEN "whole" ELSE "short"
  <2>1. content' = [content EXCEPT ![j] = what]
    BY <1>3 DEF Exits
  <2>2. j \in Callers /\ j \in Publishers
    BY <1>3, KindFacts DEF PublicationInv
  <2>3. at' = at /\ at[j] = "producing" /\ j \in LocalPublishers
    BY <1>3 DEF Exits
  <2>4. /\ content' \in [Callers -> {"none", "partial", "short", "whole"}]
        /\ content'[j] = what
        /\ \A k \in Callers \ {j} : content'[k] = content[k]
    BY <2>1, <2>2 DEF PublicationInv, TypeOK
  <2>5. TypeOK'
    BY <1>1, <1>2, <2>4 DEF RuntimeInv, Exits, PublicationInv, TypeOK, SameCalls, files
  <2>6. OnTheWay'
    BY <1>1, <2>3 DEF PublicationInv, OnTheWay, SameCalls
  <2>7. run'[j] = "true" => what = "whole"
    <3>1. j \in alive
      BY <1>1 DEF Close
    <3>2. run[j] # "true"
      BY <3>1 DEF PublicationInv, RuntimeInv
    <3> QED
      BY <1>2, <3>2
  <2>8. Produces'
    BY <1>1, <1>2, <2>3, <2>4, <2>7, KindFacts
    DEF PublicationInv, Produces, SameCalls, LocalPublishers
  <2>9. \A i \in Paths : output[i] # j
    BY <2>2, <2>3 DEF PublicationInv, Named, After
  <2>10. Named'
    BY <1>1, <2>3, <2>4, <2>9
    DEF Exits, PublicationInv, Named, OwnPath, SameCalls, files
  <2>11. Deletes' /\ Judges' /\ TemporaryAccounted'
    BY <1>1, <2>3 DEF Exits, PublicationInv, Deletes, Judges,
                      TemporaryAccounted, SameCalls, files
  <2> QED
    BY <1>1, <1>2, <2>5, <2>6, <2>8, <2>10, <2>11 DEF PublicationInv, SameCalls
<1>4. CASE ~(j \in LocalPublishers /\ at[j] = "producing" /\ code = 0)
  <2>1. UNCHANGED publicationVars
    BY <1>4 DEF Exits, publicationVars
  <2>2. at[j] = "producing" => j \in LocalPublishers
    BY DEF PublicationInv, OnTheWay, LocalPublishers
  <2>3. \A k \in Jobs : run'[k] = "true" /\ at[k] = "producing"
                           => run[k] = "true"
    BY <1>2, <1>4, <2>2
  <2> QED
    BY <1>1, <1>2, <2>1, <2>3, RunsAside
<1> QED
  BY <1>3, <1>4

\* A job enters the slot's task before it has taken a step.
LEMMA EnterTaskKeeps ==
    ASSUME PublicationInv, NEW j \in LocalPublishers, EnterTask(j),
           UNCHANGED setting
    PROVE  PublicationInv'
<1>1. SameCalls /\ RuntimeInv' /\ RunsOn /\ j \in Jobs
  BY CallsStay, SlotKeeps
  DEF EnterTask, PublicationInv, TypeOK, LocalPublishers
<1>2. CASE pc'[j] = "task"
  <2>1. pc[j] = "granted" /\ at[j] = "out" /\ at' = [at EXCEPT ![j] = "exists"]
    BY <1>1, <1>2 DEF EnterTask, Enter, Goto, PublicationInv, OnTheWay
  <2>2. j \in Callers /\ j \notin Of("reserve") /\ j \notin Probes
    BY <1>1, KindFacts DEF PublicationInv, LocalPublishers
  <2>3. /\ at' \in [Callers -> Locations] /\ at'[j] = "exists"
        /\ \A k \in Callers \ {j} : at'[k] = at[k]
    BY <2>1, <2>2 DEF PublicationInv, TypeOK, Locations
  <2>0. UNCHANGED <<idx, output, lease, temp, content, judged, result, deleted,
                    stuck, dead>>
    BY DEF EnterTask, files
  <2>4. TypeOK'
    BY <1>1, <2>0, <2>3 DEF RuntimeInv, PublicationInv, TypeOK, SameCalls
  <2>5. OnTheWay'
    BY <1>1, <1>2, <2>2, <2>3, KindFacts
    DEF PublicationInv, OnTheWay, SameCalls, RunsOn, Of
  <2>6. Produces'
    BY <1>1, <2>0, <2>3, KindFacts
    DEF PublicationInv, Produces, SameCalls, RunsOn, LocalPublishers
  <2>7. Named'
    BY <1>1, <2>1, <2>3 DEF EnterTask, PublicationInv, Named, OwnPath,
                            SameCalls, After, files
  <2>8. Deletes' /\ Judges'
    BY <1>1, <2>1, <2>3 DEF EnterTask, PublicationInv, Deletes, Judges, SameCalls
  <2>9. TemporaryAccounted'
    BY <2>1, <2>3 DEF EnterTask, PublicationInv, TemporaryAccounted, TypeOK,
                      Working, Publishers, files
  <2> QED
    BY <1>1, <2>4, <2>5, <2>6, <2>7, <2>8, <2>9 DEF PublicationInv, SameCalls
<1>3. CASE pc'[j] # "task"
  <2>1. UNCHANGED publicationVars
    BY <1>3 DEF EnterTask, publicationVars
  <2> QED
    BY <1>1, <2>1, RunsAside DEF RunsOn
<1> QED
  BY <1>2, <1>3

LEMMA StartValidatingKeeps ==
    ASSUME PublicationInv, NEW j \in LocalPublishers, StartValidating(j),
           UNCHANGED setting
    PROVE  PublicationInv'
<1>1. /\ SameCalls /\ j \in Jobs /\ j \in Callers /\ j \notin Of("reserve")
      /\ at[j] = "validate" /\ at' = [at EXCEPT ![j] = "validating"]
      /\ content[j] = "whole"
  BY CallsStay, KindFacts
  DEF StartValidating, Goto, PublicationInv, LocalPublishers, Produces
<1>2. /\ RuntimeInv' /\ RunsOn
  BY <1>1, StartRunType DEF StartValidating, PublicationInv, TypeOK, RunsOn
<1> QED
  BY <1>1, <1>2, Walks
  DEF StartValidating, PublicationInv, TypeOK, Locations, After, Working,
      Judges, files

LEMMA DeleteInputKeeps ==
    ASSUME PublicationInv, NEW j \in LocalPublishers, DeleteInput(j),
           UNCHANGED setting
    PROVE  PublicationInv'
<1>1. /\ SameCalls /\ RuntimeInv' /\ RunsOn
      /\ j \in Callers /\ j \notin Of("reserve")
      /\ at[j] = "inputs" /\ at' = [at EXCEPT ![j] = "over"]
      /\ result[j] # 0
      /\ deleted' = deleted \union {j}
  BY Alone, KindFacts DEF DeleteInput, Goto, PublicationInv, Deletes
<1>2. /\ at' \in [Callers -> Locations] /\ at'[j] = "over"
      /\ \A k \in Callers \ {j} : at'[k] = at[k]
  BY <1>1 DEF PublicationInv, TypeOK, Locations
<1>3. TypeOK'
  BY <1>1, <1>2 DEF RuntimeInv, DeleteInput, PublicationInv, TypeOK, SameCalls, files
<1>4. OnTheWay'
  BY <1>1, <1>2 DEF PublicationInv, OnTheWay, SameCalls, RunsOn
<1>5. Produces'
  BY <1>1, <1>2 DEF DeleteInput, PublicationInv, Produces, SameCalls, RunsOn,
                    LocalPublishers
<1>6. Named'
  BY <1>1, <1>2 DEF DeleteInput, PublicationInv, Named, OwnPath, SameCalls,
                    After, files
<1>7. Deletes' /\ Judges'
  BY <1>1, <1>2 DEF DeleteInput, PublicationInv, Deletes, Judges, SameCalls
<1>8. TemporaryAccounted'
  BY <1>1, <1>2 DEF DeleteInput, PublicationInv, TemporaryAccounted, TypeOK,
                    Working, Publishers, files
<1> QED
  BY <1>1, <1>3, <1>4, <1>5, <1>6, <1>7, <1>8 DEF PublicationInv, SameCalls

----------------------------------------------------------------------------
(* The environment.                                                        *)

LEMMA CrashKeeps ==
    ASSUME PublicationInv, NEW c \in Callers, Crash(c), UNCHANGED setting
    PROVE  PublicationInv'
<1>1. /\ SameCalls /\ RuntimeInv' /\ RunsOn
      /\ c \notin Jobs
      /\ at' = [at EXCEPT ![c] = "dead"]
      /\ dead' = dead \union {c}
  BY Alone, CallerAssumption DEF Crash, Goto
<1>2. /\ at' \in [Callers -> Locations] /\ at'[c] = "dead"
      /\ \A k \in Callers \ {c} : at'[k] = at[k]
  BY <1>1 DEF PublicationInv, TypeOK, Locations
<1>3. TypeOK'
  BY <1>1, <1>2 DEF RuntimeInv, Crash, PublicationInv, TypeOK, SameCalls, files
<1>4. OnTheWay'
  BY <1>1, <1>2, KindFacts DEF PublicationInv, OnTheWay, SameCalls, RunsOn
<1>5. Produces'
  BY <1>1, <1>2 DEF Crash, PublicationInv, Produces, SameCalls, RunsOn,
                    LocalPublishers
<1>6. Named'
  BY <1>1, <1>2 DEF Crash, PublicationInv, Named, OwnPath, SameCalls, After,
                    files
<1>7. Deletes'
  BY <1>1, <1>2 DEF Crash, PublicationInv, Deletes, SameCalls
<1>8. Judges'
  BY <1>1, <1>2 DEF Crash, PublicationInv, Judges, TypeOK
<1>9. TemporaryAccounted'
  BY <1>1, <1>2 DEF Crash, PublicationInv, TemporaryAccounted, TypeOK,
                    Publishers, files
<1> QED
  BY <1>1, <1>3, <1>4, <1>5, <1>6, <1>7, <1>8, <1>9
  DEF PublicationInv, SameCalls

\* A lost reservation takes nothing from the invariant.
LEMMA LoseLeaseKeeps ==
    ASSUME PublicationInv, NEW i \in Paths, LoseLease(i)
    PROVE  PublicationInv'
<1>1. SameCalls
  BY CallsStayOnLoss DEF PublicationInv
<1>2. RuntimeInv'
  BY <1>1 DEF LoseLease, runtimeVars, readiness, processes, control,
              PublicationInv, TypeOK, RuntimeInv, RuntimeTypeOK, SameCalls, SettingType
<1>3. TypeOK'
  BY <1>1, <1>2 DEF RuntimeInv, LoseLease, PublicationInv, TypeOK, SameCalls
<1>4. OnTheWay' /\ Produces'
  BY <1>1 DEF LoseLease, runtimeVars, processes, PublicationInv, OnTheWay,
              Produces, SameCalls, LocalPublishers
<1>5. Named' /\ Deletes' /\ Judges' /\ TemporaryAccounted'
  BY <1>1 DEF LoseLease, PublicationInv, Named, OwnPath, Deletes, Judges,
              TemporaryAccounted, SameCalls
<1> QED
  BY <1>1, <1>2, <1>3, <1>4, <1>5 DEF PublicationInv, SameCalls

LEMMA StutterKeeps ==
    ASSUME PublicationInv, UNCHANGED vars
    PROVE  PublicationInv'
<1>1. SameCalls /\ RuntimeInv' /\ RunsOn
  BY Alone DEF vars
<1> QED
  BY <1>1, RunsAside DEF vars, RunsOn

----------------------------------------------------------------------------
(* The invariant.                                                          *)

LEMMA InitPublication ==
    ASSUME Init
    PROVE  PublicationInv
<1>1. SettingType
  BY SettingAssumption DEF Init, RuntimeInit, SettingType, Kinds
<1>2. RuntimeTypeOK
  <2>1. setting.trouble \in Troubles
    BY <1>1 DEF SettingType
  <2>2. executable \in BOOLEAN
    BY DEF Init, RuntimeInit
  <2>3. 0 \in 0 .. MaxTeardowns
    BY RuntimeLimitAssumption
  <2> QED
    BY <2>1, <2>2, <2>3 DEF Init, RuntimeInit, RuntimeTypeOK, RunStates
<1>3. 1 \in Paths
  BY PublicationLimitAssumption DEF Paths
<1>4. TypeOK
  <2>1. 0 \in 0 .. Candidates
    BY PublicationLimitAssumption
  <2>2. output \in [Paths -> Callers \union {None, Foreign}]
    BY DEF Init
  <2> QED
    BY <1>2, <1>3, <2>1, <2>2 DEF Init, TypeOK, Locations
<1>5. OnTheWay /\ Produces
  BY <1>1, KindFacts, CallerAssumption
  DEF Init, RuntimeInit, OnTheWay, Produces, LocalPublishers, Of
<1>6. Named /\ Deletes /\ Judges /\ TemporaryAccounted
  BY CallerAssumption DEF Init, Named, OwnPath, Deletes, Judges,
                          TemporaryAccounted
<1>7. RuntimeInv
  BY <1>2 DEF RuntimeInv, Init, RuntimeInit
<1> QED
  BY <1>1, <1>4, <1>5, <1>6, <1>7 DEF PublicationInv

LEMMA StepKeeps ==
    ASSUME PublicationInv, [Next]_vars
    PROVE  PublicationInv'
<1>1. CASE UNCHANGED vars
  BY <1>1, StutterKeeps
<1>2. CASE UNCHANGED setting /\ RuntimeStep
  BY <1>2, RuntimeStepKeeps
<1>3. ASSUME UNCHANGED setting, NEW j \in Jobs, LeaveTask(j)
      PROVE  PublicationInv'
  BY <1>3, LeaveTaskKeeps
<1>4. ASSUME UNCHANGED setting, NEW j \in Jobs, NEW code \in {0, 1},
             Exits(j, code)
      PROVE  PublicationInv'
  BY <1>4, ExitsKeeps
<1>5. ASSUME UNCHANGED setting, NEW j \in LocalPublishers, EnterTask(j)
      PROVE  PublicationInv'
  BY <1>5, EnterTaskKeeps
<1>6. ASSUME UNCHANGED setting, NEW j \in LocalPublishers, JobStep(j)
      PROVE  PublicationInv'
  <2>1. j \in Jobs
    BY DEF LocalPublishers
  <2> QED
    BY <1>6, <2>1, StartProducingKeeps, CopyKeeps, ProducedKeeps,
       StartValidatingKeeps, DeleteInputKeeps DEF JobStep
<1>7. ASSUME UNCHANGED setting, NEW c \in Callers, CallStep(c)
      PROVE  PublicationInv'
  BY <1>7, LookKeeps, ReserveKeeps, CleanUpKeeps, ReopenKeeps, CreateKeeps,
     RecheckKeeps, ProduceElsewhereKeeps, CheckOwnerKeeps, LinkKeeps,
     RemoveTemporaryKeeps, ReleaseLeaseKeeps DEF CallStep
<1>8. ASSUME UNCHANGED setting, NEW c \in Callers, Crash(c)
      PROVE  PublicationInv'
  BY <1>8, CrashKeeps
<1>9. ASSUME NEW i \in Paths, LoseLease(i)
      PROVE  PublicationInv'
  BY <1>9, LoseLeaseKeeps
<1> QED
  BY <1>1, <1>2, <1>3, <1>4, <1>5, <1>6, <1>7, <1>8, <1>9 DEF Next

\* The invariant of a call's stations holds: what it has produced by each of
\* them, and which names are its own (publishAtomicArtifact).
THEOREM PublicationInvHolds == Spec => []PublicationInv
<1>1. Init => PublicationInv
  BY InitPublication
<1>2. PublicationInv /\ [Next]_vars => PublicationInv'
  BY StepKeeps
<1> QED
  BY <1>1, <1>2, PTL DEF Spec

----------------------------------------------------------------------------
(* What it says.                                                           *)

\* Every variable has its type.
THEOREM TypeCorrect == Spec => []TypeOK
<1>1. PublicationInv => TypeOK
  BY DEF PublicationInv
<1> QED
  BY <1>1, PublicationInvHolds, PTL

\* A path that a call reports names the file it made, whatever became of its
\* reservation (publishAtomicArtifact, reserveArtifactPath).
THEOREM OwnPathHolds == Spec => []OwnPath
<1>1. PublicationInv => OwnPath
  BY DEF PublicationInv, Named
<1> QED
  BY <1>1, PublicationInvHolds, PTL

\* A name in the output directory never stands for a partial file, though any
\* run of FFmpeg can be stopped and can be wrong about it (validateArtifact).
THEOREM OnlyWholeArtifactsHolds == Spec => []OnlyWholeArtifacts
<1>1. PublicationInv => OnlyWholeArtifacts
  BY KindFacts DEF PublicationInv, Named, OnlyWholeArtifacts
<1> QED
  BY <1>1, PublicationInvHolds, PTL

\* A deleted source has been replaced by a whole artifact.
THEOREM SourceReplacedHolds == Spec => []SourceReplaced
<1>1. ASSUME PublicationInv, NEW j \in deleted
      PROVE  \E i \in Paths : output[i] = j /\ content[j] = "whole"
  <2>1. j \in Publishers /\ j \in Callers /\ result[j] # 0
    BY <1>1, KindFacts DEF PublicationInv, Deletes
  <2>2. result[j] \in Paths /\ output[result[j]] = j
    BY <1>1, <2>1, PublicationLimitAssumption
    DEF PublicationInv, TypeOK, Named, OwnPath, Paths
  <2>3. content[j] = "whole"
    BY <1>1, <2>1, <2>2 DEF PublicationInv, Named
  <2> QED
    BY <2>2, <2>3
<1>2. PublicationInv => SourceReplaced
  BY <1>1 DEF SourceReplaced
<1> QED
  BY <1>2, PublicationInvHolds, PTL

\* A temporary file is somebody's work, or somebody's known remains.
THEOREM TemporaryAccountedHolds == Spec => []TemporaryAccounted
<1>1. PublicationInv => TemporaryAccounted
  BY DEF PublicationInv
<1> QED
  BY <1>1, PublicationInvHolds, PTL

----------------------------------------------------------------------------
(* What a step never does.                                                 *)

\* Only an empty name is ever given to a file.
LEMMA StepReplacesNothing ==
    ASSUME PublicationInv, [Next]_vars
    PROVE  \A i \in Paths : output[i] # None => output'[i] = output[i]
<1>1. CASE UNCHANGED output
  BY <1>1
<1>2. ASSUME NEW c \in Callers, Create(c) \/ Link(c)
      PROVE  \A i \in Paths : output[i] # None => output'[i] = output[i]
  BY <1>2 DEF Create, Link, PublicationInv, TypeOK
<1>3. \A j \in LocalPublishers : JobStep(j) => UNCHANGED output
  BY DEF JobStep, StartProducing, Copy, Produced, StartValidating, Validated,
         DeleteInput, files
<1>4. \A c \in Callers : CallStep(c) \/ Crash(c) =>
         UNCHANGED output \/ Create(c) \/ Link(c)
  BY DEF CallStep, Look, Reserve, CleanUp, Reopen, Recheck, ProduceElsewhere,
         CheckOwner, RemoveTemporary, ReleaseLease, Crash, files
<1>5. \A j \in Jobs : LeaveTask(j) \/ EnterTask(j) \/ Exits(j, 0) \/ Exits(j, 1)
                         => UNCHANGED output
  BY DEF LeaveTask, EnterTask, Exits, publicationVars, files
<1>6. RuntimeStep \/ UNCHANGED vars => UNCHANGED output
  BY DEF RuntimeStep, vars, publicationVars, files
<1>7. \A i \in Paths : LoseLease(i) => UNCHANGED output
  BY DEF LoseLease
<1>8. LocalPublishers \subseteq Jobs
  BY DEF LocalPublishers
<1> QED
  BY <1>1, <1>2, <1>3, <1>4, <1>5, <1>6, <1>7, <1>8 DEF Next

\* Nobody else removes the temporary file of a publisher at work.
LEMMA StepKeepsTemporaries ==
    ASSUME PublicationInv, [Next]_vars
    PROVE  \A c \in temp : at[c] \in Working /\ at'[c] = at[c] => c \in temp'
<1>1. CASE temp \subseteq temp'
  BY <1>1
<1>2. ASSUME NEW c \in Callers, CleanUp(c)
      PROVE  \A k \in temp : at[k] \in Working => k \in temp'
  <2>1. temp \ {judged[c]} \subseteq temp'
    BY <1>2 DEF CleanUp
  <2>2. judged[c] \in temp => at[judged[c]] = "dead"
    BY KindFacts DEF PublicationInv, Judges, TypeOK
  <2> QED
    BY <2>1, <2>2 DEF Working
<1>3. ASSUME NEW c \in Callers, RemoveTemporary(c)
      PROVE  \A k \in temp : at'[k] = at[k] => k \in temp'
  <2>1. temp \ {c} \subseteq temp' /\ at'[c] # at[c]
    BY <1>3 DEF RemoveTemporary, Goto, PublicationInv, TypeOK
  <2> QED
    BY <2>1
<1>4. \A j \in LocalPublishers : JobStep(j) => temp \subseteq temp'
  BY DEF JobStep, StartProducing, Copy, Writes, Produced, StartValidating,
         Validated, DeleteInput, files
<1>5. \A c \in Callers : CallStep(c) \/ Crash(c) =>
         temp \subseteq temp' \/ CleanUp(c) \/ RemoveTemporary(c)
  BY DEF CallStep, Look, Reserve, Reopen, Create, Recheck, ProduceElsewhere,
         Writes, CheckOwner, Link, ReleaseLease, Crash, files
<1>6. \A j \in Jobs : LeaveTask(j) \/ EnterTask(j) \/ Exits(j, 0) \/ Exits(j, 1)
                         => UNCHANGED temp
  BY DEF LeaveTask, EnterTask, Exits, publicationVars, files
<1>7. RuntimeStep \/ UNCHANGED vars => UNCHANGED temp
  BY DEF RuntimeStep, vars, publicationVars, files
<1>8. \A i \in Paths : LoseLease(i) => UNCHANGED temp
  BY DEF LoseLease
<1>9. LocalPublishers \subseteq Jobs
  BY DEF LocalPublishers
<1> QED
  BY <1>1, <1>2, <1>3, <1>4, <1>5, <1>6, <1>7, <1>8, <1>9 DEF Next

\* An artifact is never replaced, by whomever and in whatever race
\* (linkArtifact relies on fs.link, reserveArtifactPath on an exclusive open).
THEOREM NothingReplacedHolds == Spec => NothingReplaced
<1>1. PublicationInv /\ [Next]_vars =>
         [\A i \in Paths : output[i] # None => output'[i] = output[i]]_vars
  BY StepReplacesNothing
<1> QED
  BY <1>1, PublicationInvHolds, PTL DEF Spec, NothingReplaced

\* Cleaning up after the dead never hits a publisher that is at work.
THEOREM LiveTemporaryKeptHolds == Spec => LiveTemporaryKept
<1>1. PublicationInv /\ [Next]_vars =>
         [\A c \in temp : at[c] \in Working /\ at'[c] = at[c] => c \in temp']_vars
  BY StepKeepsTemporaries
<1> QED
  BY <1>1, PublicationInvHolds, PTL DEF Spec, LiveTemporaryKept

----------------------------------------------------------------------------
(* When FFmpeg is given up.                                                *)

\* What initialization finds out lasts until it is over, and after that.
FoundOut ==
    (start = "configuring" \/ initialized) /\ ~available =>
        ~executable \/ setting.trouble = "slow"

LEMMA StepKeepsFoundOut ==
    ASSUME RuntimeTypeOK, FoundOut, [Next]_vars
    PROVE  FoundOut'
<1>0. setting.trouble = "slow" => setting'.trouble = "slow"
  BY DEF Next, LoseLease, vars
<1>1. CASE UNCHANGED readiness
  BY <1>0, <1>1 DEF readiness, FoundOut
<1>2. CASE StartRecording \/ Resolve \/ FinishInitialization \/ Break
  BY <1>0, <1>2 DEF StartRecording, Resolve, FinishInitialization, Break, FoundOut,
              RuntimeTypeOK, control
<1>3. ASSUME NEW j \in Jobs,
             SpawnError(j) \/ (StartRun(j) /\ UNCHANGED <<executable, initialized, start>>)
      PROVE  FoundOut'
  BY <1>0, <1>3 DEF SpawnError, StartRun, FoundOut, RuntimeTypeOK
<1>4. RuntimeStep => \/ UNCHANGED readiness
                     \/ StartRecording \/ Resolve \/ FinishInitialization \/ Break
                     \/ \E j \in Jobs : SpawnError(j) \/ Measure(j)
  BY DEF RuntimeStep, BeginTeardown, Flush, EndFlush, EndTeardown, Begin, Grant,
         Refuse, Timeout, Escalate, Enter
<1>5. \A j \in Jobs : Measure(j) =>
         StartRun(j) /\ UNCHANGED <<executable, initialized, start>>
  BY DEF Measure
<1>6. \A j \in LocalPublishers : JobStep(j) =>
         \/ UNCHANGED readiness
         \/ StartRun(j) /\ UNCHANGED <<executable, initialized, start>>
  BY DEF JobStep, StartProducing, Copy, Produced, StartValidating, Validated,
         DeleteInput, runtimeVars
<1>7. \A c \in Callers : CallStep(c) \/ Crash(c) => UNCHANGED readiness
  BY DEF CallStep, Look, Reserve, CleanUp, Reopen, Create, Recheck,
         ProduceElsewhere, CheckOwner, Link, RemoveTemporary, ReleaseLease,
         Crash, runtimeVars
<1>8. \A j \in Jobs : LeaveTask(j) \/ EnterTask(j) \/ Exits(j, 0) \/ Exits(j, 1)
                         => UNCHANGED readiness
  BY DEF LeaveTask, Leave, EnterTask, Enter, Exits, Close
<1>9. /\ \A i \in Paths : LoseLease(i) => UNCHANGED readiness
      /\ UNCHANGED vars => UNCHANGED readiness
  BY DEF LoseLease, vars, runtimeVars
<1>10. LocalPublishers \subseteq Jobs
  BY DEF LocalPublishers
<1> QED
  BY <1>1, <1>2, <1>3, <1>4, <1>5, <1>6, <1>7, <1>8, <1>9, <1>10 DEF Next

\* A teardown that interrupts the search for FFmpeg does not end recording for
\* the rest of the worker's life (FfmpegRuntime.ensureReady, markUnavailable).
THEOREM UnavailableForCauseHolds == Spec => []UnavailableForCause
<1>1. Init => FoundOut
  BY DEF Init, RuntimeInit, FoundOut
<1>2. TypeOK /\ FoundOut /\ [Next]_vars => FoundOut'
  BY StepKeepsFoundOut DEF TypeOK
<1>3. FoundOut => UnavailableForCause
  BY DEF FoundOut, UnavailableForCause
<1> QED
  BY <1>1, <1>2, <1>3, TypeCorrect, PTL DEF Spec
=============================================================================
