---------------------------- MODULE RunManifest ----------------------------
(***************************************************************************)
(* From the journals of a run's workers to manifest.json: the journal      *)
(* lines of src/service/manifest-journal.ts and how they are read back,    *)
(* the validation of src/manifest.ts, and the launcher's onComplete        *)
(* (src/launcher.ts, manifest-aggregation.ts, manifest-persistence.ts),    *)
(* which several launchers run against one output directory at a time.     *)
(*                                                                         *)
(* The lock is an owned-file lease: OwnedFileLease models how it is taken. *)
(* Here the lock of a dead owner is taken over in one step.  Tool versions *)
(* and time stamps are left out; an entry's id is the number of its start, *)
(* which also orders the entries.                                          *)
(***************************************************************************)
EXTENDS Integers, SequencesExt, FiniteSetsExt

CONSTANTS
    None,
    Launchers       \* each makes one run, under an id of its own

ASSUME LauncherAssumption == None \notin Launchers

VARIABLES
    journals,       \* per launcher: <<cid, pid>> -> the lines of that journal
    manifest,       \* manifest.json: what it is, and the set of its runs
    lock,           \* the owner of the manifest lock, or None
    launcher        \* per launcher: its stage and what it holds in memory

manifestVars == <<journals, manifest, lock, launcher>>

----------------------------------------------------------------------------
(* Validation.  Only what an entry of this model holds is looked at.       *)

Results == {"passed", "failed", "skipped", "unknown"}

ValidCapture(entry) ==
    /\ entry.decision \in {"recorded", "discarded", "skipped", "failed"}
    /\ \A i \in DOMAIN entry.segments : entry.segments[i] # None

ValidProcessing(entry) ==
    /\ entry.timing \in {"after-test", "after-worker"}
    /\ entry.outcome \in
          {"not-required", "pending", "completed", "failed", "skipped"}
    /\ entry.operation \in {None, "capture", "merge", "transcode"}

ValidEntry(entry) ==
    /\ None \notin {entry.id, entry.run, entry.cid, entry.spec}
    /\ entry.scope \in {"test", "spec"}
    /\ entry.attempt >= 1
    /\ entry.result \in Results
    /\ entry.test # None => entry.test.name # None
    /\ ValidCapture(entry)
    /\ ValidProcessing(entry)

ValidDiagnostic(diagnostic) ==
    /\ diagnostic.code \in
          {"malformed-final-journal-line", "invalid-journal-entry"}
    /\ diagnostic.line >= 1

ValidRun(run) ==
    /\ run.id # None
    /\ run.exitCode >= 0
    /\ \A i \in DOMAIN run.entries : ValidEntry(run.entries[i])
    /\ \A diagnostic \in run.diagnostics : ValidDiagnostic(diagnostic)

NoManifest == [kind |-> "none", runs |-> {}]
InvalidManifest == [kind |-> "invalid", runs |-> {}]
Manifest(runs) == [kind |-> "manifest", runs |-> runs]

ValidManifest(value) ==
    value.kind = "manifest" /\ \A run \in value.runs : ValidRun(run)

----------------------------------------------------------------------------
(* Journals.  A line is the entry it can be read as, one of no run when it *)
(* is not readable, and whether its newline was written.                   *)

NoEntry == [run |-> None]
Line(entry) == [entry |-> entry, ended |-> TRUE]

\* Appending goes on where the file ends: behind a line that was never ended
\* it spoils both.
AppendLine(lines, line) ==
    IF lines # <<>> /\ ~Last(lines).ended
    THEN Append(Front(lines), [entry |-> NoEntry, ended |-> line.ended])
    ELSE Append(lines, line)

Usable(line, id) ==
    line.entry.run = id /\ ValidEntry(line.entry)

\* Mutant: of every entry the first line is kept, not the last.
FirstEntries(files, id) ==
    UNION {{files[f][i].entry : i \in {i \in DOMAIN files[f] :
                /\ Usable(files[f][i], id)
                /\ \A j \in 1..(i - 1) :
                      Usable(files[f][j], id) =>
                          files[f][j].entry.id # files[f][i].entry.id}} :
            f \in DOMAIN files}

\* The last usable line of every entry.
LatestEntries(files, id) ==
    UNION {{files[f][i].entry : i \in {i \in DOMAIN files[f] :
                /\ Usable(files[f][i], id)
                /\ \A j \in (i + 1)..Len(files[f]) :
                      Usable(files[f][j], id) =>
                          files[f][j].entry.id # files[f][i].entry.id}} :
            f \in DOMAIN files}

Diagnostics(files, id) ==
    UNION {{[code |-> IF i = Len(files[f]) /\ files[f][i].entry = NoEntry
                      THEN "malformed-final-journal-line"
                      ELSE "invalid-journal-entry",
             journal |-> f,
             line |-> i] :
                i \in {i \in DOMAIN files[f] : ~Usable(files[f][i], id)}} :
            f \in DOMAIN files}

InOrderStarted(entries) ==
    [i \in 1..Cardinality(entries) |->
        CHOOSE e \in entries :
            Cardinality({f \in entries : f.id < e.id}) = i - 1]

AggregatedRun(l, exitCode) ==
    [id |-> l,
     exitCode |-> exitCode,
     entries |-> InOrderStarted(LatestEntries(journals[l], l)),
     diagnostics |-> Diagnostics(journals[l], l)]

----------------------------------------------------------------------------
(* onComplete of one launcher.                                             *)

NoJournals == [f \in {} |-> <<>>]

InitManifest ==
    /\ journals = [l \in Launchers |-> NoJournals]
    /\ manifest \in {NoManifest, InvalidManifest, Manifest({})}
    /\ lock = None
    /\ launcher = [l \in Launchers |->
          [stage |-> "running", run |-> None, existing |-> {}, ok |-> FALSE]]

Published == manifest.runs

At(l, stage) == launcher[l].stage = stage
Moves(l, stage) == launcher' = [launcher EXCEPT ![l].stage = stage]

\* The manifest task ends with an error inside the lock: it is released.
Fails(l) ==
    launcher' = [launcher EXCEPT ![l].stage = "releasing", ![l].ok = FALSE]

\* onComplete: the journals are read before the lock is asked for.
Aggregate(l, exitCode) ==
    /\ At(l, "running")
    /\ launcher' = [launcher EXCEPT ![l].stage = "locking",
                                    ![l].run = AggregatedRun(l, exitCode)]
    /\ UNCHANGED <<journals, manifest, lock>>

\* A journal cannot be read, or the lock is not had in time.  Under either
\* failure policy there is neither a manifest nor a report.
GiveUpManifest(l) ==
    /\ At(l, "running") \/ (At(l, "locking") /\ lock # None)
    /\ Moves(l, "done")
    /\ UNCHANGED <<journals, manifest, lock>>

\* Mutant: the lock is had while another launcher holds it.
AcquireHeldLock(l) ==
    /\ At(l, "locking")
    /\ lock' = l
    /\ Moves(l, "locked")
    /\ UNCHANGED <<journals, manifest>>

AcquireManifestLock(l) ==
    /\ At(l, "locking")
    /\ lock # None => At(lock, "dead")
    /\ lock' = l
    /\ Moves(l, "locked")
    /\ UNCHANGED <<journals, manifest>>

\* A missing manifest.json counts as an empty one, one that is no manifest is
\* left as it is.
ReadExisting(l) ==
    /\ At(l, "locked")
    /\ \/ /\ manifest = NoManifest \/ ValidManifest(manifest)
          /\ launcher' = [launcher EXCEPT ![l].stage = "publishing",
                                          ![l].existing = Published]
       \/ /\ manifest # NoManifest /\ ~ValidManifest(manifest)
          /\ Fails(l)
    /\ UNCHANGED <<journals, manifest, lock>>

\* The temporary file is renamed over manifest.json.
PublishRun(l) ==
    /\ At(l, "publishing")
    /\ manifest' = Manifest(
          {run \in launcher[l].existing : run.id # launcher[l].run.id}
              \cup {launcher[l].run})
    /\ Moves(l, "cleaning")
    /\ UNCHANGED <<journals, lock>>

PublishFails(l) ==
    /\ At(l, "publishing")
    /\ Fails(l)
    /\ UNCHANGED <<journals, manifest, lock>>

CleanupRun(l) ==
    /\ At(l, "cleaning")
    /\ journals' = [journals EXCEPT ![l] = NoJournals]
    /\ launcher' = [launcher EXCEPT ![l].stage = "releasing", ![l].ok = TRUE]
    /\ UNCHANGED <<manifest, lock>>

\* The run is published, but its task has failed: no report is made.
CleanupFails(l) ==
    /\ At(l, "cleaning")
    /\ Fails(l)
    /\ UNCHANGED <<journals, manifest, lock>>

\* Mutant: the lock is only given up by a task that succeeded.
ReleaseAfterSuccess(l) ==
    /\ At(l, "releasing")
    /\ launcher[l].ok
    /\ lock' = None
    /\ Moves(l, "reporting")
    /\ UNCHANGED <<journals, manifest>>

ReleaseManifestLock(l) ==
    /\ At(l, "releasing")
    /\ lock' = None
    /\ Moves(l, IF launcher[l].ok THEN "reporting" ELSE "done")
    /\ UNCHANGED <<journals, manifest>>

\* The launcher process is killed: what it holds in memory is gone, its lock
\* file stays behind.
KillLauncher(l) ==
    /\ launcher[l].stage \notin {"done", "dead"}
    /\ Moves(l, "dead")
    /\ UNCHANGED <<journals, manifest, lock>>

Persist(l) ==
    \/ AcquireManifestLock(l)
    \/ ReadExisting(l)
    \/ PublishRun(l)
    \/ CleanupRun(l)
    \/ ReleaseManifestLock(l)

PersistFails(l) ==
    \/ GiveUpManifest(l)
    \/ PublishFails(l)
    \/ CleanupFails(l)
    \/ KillLauncher(l)
=============================================================================
