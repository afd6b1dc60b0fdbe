-------------------------- MODULE RecordedRun_proof --------------------------
(***************************************************************************)
(* Proofs about RecordedRun, for any number of launchers, any tests and    *)
(* any faults: launchers that hold the manifest lock exclude one another,  *)
(* so what one read is still what it replaces, and no run is lost; and a   *)
(* published run tells of the journal lines that were lost on the way.     *)
(* Then what the report's matcher does with any outcomes: it joins none to *)
(* an entry that does not fit, and finds what has the very names of one.   *)
(* The last part has the steps of a worker and what they do to results.    *)
(***************************************************************************)
EXTENDS RecordedRun, FiniteSetTheorems, SequenceTheorems, TLAPS

\* The lock is only known by its file; these hold it as far as they know.
Holding == {"locked", "publishing", "cleaning", "releasing"}

\* A launcher has published its run when it is here.
AfterPublishing == {"cleaning", "releasing", "reporting", "done", "dead"}

Fields == {"stage", "run", "existing", "ok"}

\* What a launcher remembers is a record of these fields.
LauncherShape ==
    /\ DOMAIN launcher = Launchers
    /\ \A l \in Launchers : DOMAIN launcher[l] = Fields

\* No two launchers think that they hold the lock.
LockExclusive ==
    \A l \in Launchers : launcher[l].stage \in Holding => lock = l

\* What a launcher read under the lock has not been changed since.
SnapshotCurrent ==
    \A l \in Launchers :
        launcher[l].stage = "publishing" => launcher[l].existing = Published

\* The run of a launcher bears its name, and is published only by itself.
RunsNamed ==
    /\ \A l \in Launchers :
          launcher[l].stage \in {"locking"} \union (Holding \ {"releasing"}) =>
              launcher[l].run.id = l
    /\ \A run \in Published :
          /\ run.id \in Launchers
          /\ launcher[run.id].stage \in AfterPublishing

PublicationInv == LauncherShape /\ LockExclusive /\ SnapshotCurrent /\ RunsNamed

----------------------------------------------------------------------------
(* How a launcher's record changes.                                        *)

\* Only the stage of one launcher changes.
LEMMA MovesOne ==
    ASSUME LauncherShape, NEW l \in Launchers, NEW stage, Moves(l, stage)
    PROVE  /\ LauncherShape'
           /\ launcher'[l].stage = stage
           /\ launcher'[l].run = launcher[l].run
           /\ launcher'[l].existing = launcher[l].existing
           /\ \A m \in Launchers \ {l} : launcher'[m] = launcher[m]
BY DEF Moves, LauncherShape, Fields

\* So it is when its task fails, or is over.
LEMMA EndsOne ==
    ASSUME LauncherShape, NEW l \in Launchers, NEW ok,
           launcher' = [launcher EXCEPT ![l].stage = "releasing", ![l].ok = ok]
    PROVE  /\ LauncherShape'
           /\ launcher'[l].stage = "releasing"
           /\ \A m \in Launchers \ {l} : launcher'[m] = launcher[m]
BY DEF LauncherShape, Fields

\* A launcher that goes anywhere but into the lock, or out of it, neither
\* disturbs the others nor the manifest.
LEMMA OutsideLock ==
    ASSUME PublicationInv, NEW l \in Launchers, NEW stage, Moves(l, stage),
           stage \in {"done", "dead"}, UNCHANGED <<manifest, lock>>
    PROVE  PublicationInv'
<1>1. /\ LauncherShape'
      /\ launcher'[l].stage = stage
      /\ \A m \in Launchers \ {l} : launcher'[m] = launcher[m]
  BY MovesOne DEF PublicationInv
<1>2. Published' = Published
  BY DEF Published
<1>3. LockExclusive'
  BY <1>1 DEF PublicationInv, LockExclusive, Holding
<1>4. SnapshotCurrent'
  BY <1>1, <1>2 DEF PublicationInv, SnapshotCurrent
<1>5. RunsNamed'
  BY <1>1, <1>2 DEF PublicationInv, RunsNamed, Holding, AfterPublishing
<1> QED
  BY <1>1, <1>3, <1>4, <1>5 DEF PublicationInv

----------------------------------------------------------------------------
(* One lemma for each step of onComplete.                                  *)

LEMMA AggregateKeeps ==
    ASSUME PublicationInv, NEW l \in Launchers, NEW code, Aggregate(l, code)
    PROVE  PublicationInv'
<1>1. AggregatedRun(l, code).id = l
  BY DEF AggregatedRun
<1>2. launcher[l].stage = "running"
  BY DEF Aggregate, At
<1>3. launcher' = [launcher EXCEPT ![l].stage = "locking",
                                  ![l].run = AggregatedRun(l, code)]
  BY DEF Aggregate
<1>4. /\ LauncherShape'
      /\ launcher'[l].stage = "locking"
      /\ launcher'[l].run.id = l
      /\ \A m \in Launchers \ {l} : launcher'[m] = launcher[m]
  BY <1>1, <1>3 DEF PublicationInv, LauncherShape, Fields
<1>5. Published' = Published /\ lock' = lock
  BY DEF Aggregate, Published
<1>6. LockExclusive'
  BY <1>4, <1>5 DEF PublicationInv, LockExclusive, Holding
<1>7. SnapshotCurrent'
  BY <1>4, <1>5 DEF PublicationInv, SnapshotCurrent
<1>8. RunsNamed'
  BY <1>2, <1>4, <1>5 DEF PublicationInv, RunsNamed, Holding, AfterPublishing
<1> QED
  BY <1>4, <1>6, <1>7, <1>8 DEF PublicationInv

\* The lock is free, or its owner dead: nobody else holds it.
LEMMA AcquireKeeps ==
    ASSUME PublicationInv, NEW l \in Launchers, AcquireManifestLock(l),
           None \notin Launchers
    PROVE  PublicationInv'
<1>1. /\ LauncherShape'
      /\ launcher'[l].stage = "locked"
      /\ launcher'[l].run = launcher[l].run
      /\ \A m \in Launchers \ {l} : launcher'[m] = launcher[m]
  BY MovesOne DEF PublicationInv, AcquireManifestLock
<1>2. launcher[l].stage = "locking" /\ Published' = Published /\ lock' = l
  BY DEF AcquireManifestLock, At, Published
<1>3. \A m \in Launchers \ {l} : launcher[m].stage \notin Holding
  <2> SUFFICES ASSUME NEW m \in Launchers, launcher[m].stage \in Holding
               PROVE  FALSE
    OBVIOUS
  <2>1. lock = m
    BY DEF PublicationInv, LockExclusive
  <2>2. launcher[m].stage = "dead"
    BY <2>1 DEF AcquireManifestLock, At
  <2> QED
    BY <2>2 DEF Holding
<1>4. LockExclusive'
  BY <1>1, <1>2, <1>3 DEF LockExclusive
<1>5. SnapshotCurrent'
  BY <1>1, <1>2 DEF PublicationInv, SnapshotCurrent
<1>6. RunsNamed'
  BY <1>1, <1>2 DEF PublicationInv, RunsNamed, Holding, AfterPublishing
<1> QED
  BY <1>1, <1>4, <1>5, <1>6 DEF PublicationInv

\* A task that failed inside the lock goes on to release it.
LEMMA FailsKeeps ==
    ASSUME PublicationInv, NEW l \in Launchers, Fails(l),
           launcher[l].stage \in Holding, UNCHANGED <<manifest, lock>>
    PROVE  PublicationInv'
<1>1. /\ LauncherShape'
      /\ launcher'[l].stage = "releasing"
      /\ \A m \in Launchers \ {l} : launcher'[m] = launcher[m]
  BY EndsOne DEF PublicationInv, Fails
<1>2. Published' = Published
  BY DEF Published
<1>3. LockExclusive'
  BY <1>1 DEF PublicationInv, LockExclusive
<1>4. SnapshotCurrent'
  BY <1>1, <1>2 DEF PublicationInv, SnapshotCurrent
<1>5. RunsNamed'
  BY <1>1, <1>2 DEF PublicationInv, RunsNamed, Holding, AfterPublishing
<1> QED
  BY <1>1, <1>3, <1>4, <1>5 DEF PublicationInv

LEMMA ReadKeeps ==
    ASSUME PublicationInv, NEW l \in Launchers, ReadExisting(l)
    PROVE  PublicationInv'
<1>0. launcher[l].stage = "locked" /\ UNCHANGED <<manifest, lock>>
  BY DEF ReadExisting, At
<1>1. CASE Fails(l)
  BY <1>0, <1>1, FailsKeeps DEF Holding
<1>2. CASE launcher' = [launcher EXCEPT ![l].stage = "publishing",
                                       ![l].existing = Published]
  <2>1. /\ LauncherShape'
        /\ launcher'[l].stage = "publishing"
        /\ launcher'[l].existing = Published
        /\ launcher'[l].run = launcher[l].run
        /\ \A m \in Launchers \ {l} : launcher'[m] = launcher[m]
    BY <1>2 DEF PublicationInv, LauncherShape, Fields
  <2>2. Published' = Published
    BY <1>0 DEF Published
  <2>3. LockExclusive'
    BY <1>0, <2>1 DEF PublicationInv, LockExclusive, Holding
  <2>4. SnapshotCurrent'
    BY <2>1, <2>2 DEF PublicationInv, SnapshotCurrent
  <2>5. RunsNamed'
    BY <1>0, <2>1, <2>2 DEF PublicationInv, RunsNamed, Holding, AfterPublishing
  <2> QED
    BY <2>1, <2>3, <2>4, <2>5 DEF PublicationInv
<1> QED
  BY <1>1, <1>2 DEF ReadExisting

\* The run is added to what there is: no other launcher has read it, and no
\* run of this name was there.
LEMMA PublishKeeps ==
    ASSUME PublicationInv, NEW l \in Launchers, PublishRun(l)
    PROVE  /\ PublicationInv'
           /\ Published \subseteq Published'
<1>1. /\ LauncherShape'
      /\ launcher'[l].stage = "cleaning"
      /\ launcher'[l].run = launcher[l].run
      /\ \A m \in Launchers \ {l} : launcher'[m] = launcher[m]
  BY MovesOne DEF PublicationInv, PublishRun
<1>2. /\ launcher[l].stage = "publishing" /\ lock' = lock
      /\ launcher[l].existing = Published
      /\ launcher[l].run.id = l
  BY DEF PublicationInv, PublishRun, At, SnapshotCurrent, RunsNamed, Holding
<1>3. Published' = {run \in Published : run.id # l} \cup {launcher[l].run}
  BY <1>2 DEF PublishRun, Published, Manifest
<1>4. \A run \in Published : run.id # l
  BY <1>2 DEF PublicationInv, RunsNamed, AfterPublishing
<1>5. Published \subseteq Published'
  BY <1>3, <1>4
<1>6. LockExclusive'
  BY <1>1, <1>2 DEF PublicationInv, LockExclusive, Holding
<1>7. \A m \in Launchers \ {l} : launcher[m].stage # "publishing"
  BY <1>2 DEF PublicationInv, LockExclusive, Holding
<1>8. SnapshotCurrent'
  BY <1>1, <1>7 DEF SnapshotCurrent
<1>9. RunsNamed'
  <2>1. \A run \in Published' : run \in Published \/ run.id = l
    BY <1>2, <1>3
  <2>2. \A m \in Launchers :
           launcher'[m].stage \in {"locking"} \union (Holding \ {"releasing"})
               => launcher'[m].run.id = m
    BY <1>1, <1>2 DEF PublicationInv, RunsNamed
  <2>3. \A run \in Published' : /\ run.id \in Launchers
                                /\ launcher'[run.id].stage \in AfterPublishing
    BY <1>1, <1>4, <2>1 DEF PublicationInv, RunsNamed, AfterPublishing
  <2> QED
    BY <2>2, <2>3 DEF RunsNamed
<1> QED
  BY <1>1, <1>5, <1>6, <1>8, <1>9 DEF PublicationInv

LEMMA CleanupKeeps ==
    ASSUME PublicationInv, NEW l \in Launchers, CleanupRun(l)
    PROVE  PublicationInv'
<1>1. launcher[l].stage = "cleaning" /\ UNCHANGED <<manifest, lock>>
  BY DEF CleanupRun, At
<1>4. /\ LauncherShape'
      /\ launcher'[l].stage = "releasing"
      /\ \A m \in Launchers \ {l} : launcher'[m] = launcher[m]
  BY EndsOne DEF PublicationInv, CleanupRun
<1>5. Published' = Published
  BY <1>1 DEF Published
<1>6. LockExclusive'
  BY <1>1, <1>4 DEF PublicationInv, LockExclusive, Holding
<1>7. SnapshotCurrent'
  BY <1>4, <1>5 DEF PublicationInv, SnapshotCurrent
<1>8. RunsNamed'
  BY <1>4, <1>5 DEF PublicationInv, RunsNamed, Holding, AfterPublishing
<1> QED
  BY <1>4, <1>6, <1>7, <1>8 DEF PublicationInv

\* Only the launcher that holds the lock can be at this point.
LEMMA ReleaseKeeps ==
    ASSUME PublicationInv, NEW l \in Launchers, ReleaseManifestLock(l)
    PROVE  PublicationInv'
<1> DEFINE next == IF launcher[l].ok THEN "reporting" ELSE "done"
<1>1. Moves(l, next)
  BY DEF ReleaseManifestLock
<1>2. next \in {"reporting", "done"}
  OBVIOUS
<1> HIDE DEF next
<1>3. /\ LauncherShape'
      /\ launcher'[l].stage = next
      /\ \A m \in Launchers \ {l} : launcher'[m] = launcher[m]
  BY <1>1, MovesOne DEF PublicationInv
<1>4. launcher[l].stage = "releasing" /\ Published' = Published
  BY DEF ReleaseManifestLock, At, Published
<1>5. \A m \in Launchers \ {l} : launcher[m].stage \notin Holding
  BY <1>4 DEF PublicationInv, LockExclusive, Holding
<1>6. LockExclusive'
  BY <1>2, <1>3, <1>5 DEF LockExclusive, Holding
<1>7. SnapshotCurrent'
  BY <1>2, <1>3, <1>4 DEF PublicationInv, SnapshotCurrent
<1>8. RunsNamed'
  BY <1>2, <1>3, <1>4 DEF PublicationInv, RunsNamed, Holding, AfterPublishing
<1> QED
  BY <1>3, <1>6, <1>7, <1>8 DEF PublicationInv

LEMMA PersistKeeps ==
    ASSUME PublicationInv, NEW l \in Launchers, Persist(l), None \notin Launchers
    PROVE  PublicationInv' /\ Published \subseteq Published'
<1>1. CASE PublishRun(l)
  BY <1>1, PublishKeeps
<1>2. CASE AcquireManifestLock(l)
  BY <1>2, AcquireKeeps DEF AcquireManifestLock, Published
<1>3. CASE ReadExisting(l)
  BY <1>3, ReadKeeps DEF ReadExisting, Published
<1>4. CASE CleanupRun(l)
  BY <1>4, CleanupKeeps DEF CleanupRun, Published
<1>5. CASE ReleaseManifestLock(l)
  BY <1>5, ReleaseKeeps DEF ReleaseManifestLock, Published
<1> QED
  BY <1>1, <1>2, <1>3, <1>4, <1>5 DEF Persist

LEMMA PersistFailsKeeps ==
    ASSUME PublicationInv, NEW l \in Launchers, PersistFails(l)
    PROVE  PublicationInv' /\ Published' = Published
<1>0. UNCHANGED <<manifest, lock>>
  BY DEF PersistFails, GiveUpManifest, PublishFails, CleanupFails, KillLauncher
<1>1. CASE Moves(l, "done")
  BY <1>0, <1>1, OutsideLock DEF Published
<1>2. CASE Moves(l, "dead")
  BY <1>0, <1>2, OutsideLock DEF Published
<1>3. CASE Fails(l) /\ launcher[l].stage \in Holding
  BY <1>0, <1>3, FailsKeeps DEF Published
<1>4. \/ Moves(l, "done")
      \/ Moves(l, "dead")
      \/ Fails(l) /\ launcher[l].stage \in Holding
  BY DEF PersistFails, GiveUpManifest, PublishFails, CleanupFails,
         KillLauncher, At, Holding
<1> QED
  BY <1>0, <1>1, <1>2, <1>3, <1>4

----------------------------------------------------------------------------
(* A step of the run.                                                      *)

LEMMA StutterKeeps ==
    ASSUME PublicationInv, UNCHANGED <<manifest, lock, launcher>>
    PROVE  PublicationInv' /\ Published' = Published
BY DEF PublicationInv, LauncherShape, LockExclusive, SnapshotCurrent, RunsNamed,
       Published

\* Every step keeps the invariant, and every run that is published.
LEMMA StepKeeps ==
    ASSUME PublicationInv, [Next]_vars, Us \in Launchers, None \notin Launchers
    PROVE  PublicationInv' /\ Published \subseteq Published'
<1>1. CASE UNCHANGED <<manifest, lock, launcher>>
  BY <1>1, StutterKeeps
<1>2. CASE WorkerActs \/ WorkerWrites \/ UNCHANGED vars
  BY <1>1, <1>2 DEF WorkerActs, WorkerWrites, manifestVars, vars
<1>3. CASE CompleteRun
  BY <1>3, AggregateKeeps DEF CompleteRun, Aggregate, Published
<1>4. CASE PersistRun
  BY <1>4, PersistKeeps DEF PersistRun
<1>5. CASE PersistRunFails
  BY <1>5, PersistFailsKeeps DEF PersistRunFails
<1>6. CASE GenerateReport
  <2>1. Moves(Us, "done") /\ UNCHANGED <<manifest, lock>>
    BY <1>6 DEF GenerateReport
  <2> QED
    BY <2>1, OutsideLock DEF Published
<1>7. CASE ReportFails
  <2>1. Moves(Us, "done") /\ UNCHANGED <<manifest, lock>>
    BY <1>7 DEF ReportFails
  <2> QED
    BY <2>1, OutsideLock DEF Published
<1>8. ASSUME NEW l \in Others, OtherCompletes(l)
      PROVE  PublicationInv' /\ Published \subseteq Published'
  <2>0. l \in Launchers
    BY DEF Others
  <2>1. CASE Aggregate(l, 0)
    BY <2>0, <2>1, AggregateKeeps DEF Aggregate, Published
  <2>2. CASE Persist(l)
    BY <2>0, <2>2, PersistKeeps
  <2>3. CASE Moves(l, "done") /\ UNCHANGED <<journals, manifest, lock>>
    BY <2>0, <2>3, OutsideLock DEF Published
  <2> QED
    BY <1>8, <2>1, <2>2, <2>3 DEF OtherCompletes
<1>9. ASSUME NEW l \in Others, OtherFails(l)
      PROVE  PublicationInv' /\ Published \subseteq Published'
  BY <1>9, PersistFailsKeeps DEF OtherFails, Others
<1> QED
  BY <1>2, <1>3, <1>4, <1>5, <1>6, <1>7, <1>8, <1>9 DEF Next

LEMMA InitPublication ==
    ASSUME Init
    PROVE  PublicationInv
<1>1. /\ launcher = [l \in Launchers |->
            [stage |-> "running", run |-> None, existing |-> {}, ok |-> FALSE]]
      /\ Published = {}
  BY DEF Init, InitManifest, Published, NoManifest, InvalidManifest, Manifest
<1> QED
  BY <1>1 DEF PublicationInv, LauncherShape, Fields, LockExclusive,
              SnapshotCurrent, RunsNamed, Holding

\* Two launchers are never between taking and releasing the manifest lock at
\* once, though locks of killed launchers are taken over (withManifestLock).
THEOREM ManifestLockExclusive == Spec => []PublicationInv
<1>1. Init => PublicationInv
  BY InitPublication
<1>2. PublicationInv /\ [Next]_vars => PublicationInv'
  BY StepKeeps, UsAssumption, LauncherAssumption
<1> QED
  BY <1>1, <1>2, PTL DEF Spec

\* No launcher ever takes the run of another one out of manifest.json, nor
\* changes it, in whatever order they complete, fail or are killed
\* (publishRunManifest replaces the whole file with what it read before).
THEOREM OtherRunsKeptHolds == Spec => OtherRunsKept
<1>1. PublicationInv /\ [Next]_vars => [Published \subseteq Published']_vars
  BY StepKeeps, UsAssumption, LauncherAssumption
<1>2. Spec => []PublicationInv
  BY ManifestLockExclusive
<1> QED
  BY <1>1, <1>2, PTL DEF Spec, OtherRunsKept

----------------------------------------------------------------------------
(* Entries in the order they were started.                                 *)

Before(among, e) == {f \in among : f.id < e.id}

\* A set of entries that different numbers tell apart.
Numbered(among) ==
    /\ IsFiniteSet(among)
    /\ \A e \in among : e.id \in Nat
    /\ \A e, f \in among : e.id = f.id => e = f

\* There is an entry with n - 1 others before it.
LEMMA Places ==
    ASSUME NEW among, Numbered(among)
    PROVE  \A n \in 1 .. Cardinality(among) :
              \E e \in among : Cardinality(Before(among, e)) = n - 1
<1> DEFINE N == Cardinality(among)
           place == [e \in among |-> Cardinality(Before(among, e)) + 1]
<1>1. N \in Nat
  BY FS_CardinalityType DEF Numbered
<1>2. \A e \in among : /\ IsFiniteSet(Before(among, e))
                       /\ Cardinality(Before(among, e)) \in Nat
  BY FS_Subset, FS_CardinalityType DEF Before, Numbered
<1>3. ASSUME NEW e \in among, NEW f \in among, e.id < f.id
      PROVE  Cardinality(Before(among, e)) < Cardinality(Before(among, f))
  <2>1. Before(among, e) \subseteq Before(among, f)
    <3>1. \A x \in among : x.id \in Nat
      BY DEF Numbered
    <3>2. \A x \in among : x.id < e.id => x.id < f.id
      BY <1>3, <3>1
    <3> QED
      BY <3>2 DEF Before
  <2>2. e.id \in Nat
    BY DEF Numbered
  <2>3. e \in Before(among, f) /\ e \notin Before(among, e)
    BY <1>3, <2>2 DEF Before
  <2> QED
    BY <2>1, <2>3, <1>2, FS_Subset
<1>4. ASSUME NEW e \in among
      PROVE  Cardinality(Before(among, e)) < N
  <2>1. e.id \in Nat
    BY DEF Numbered
  <2>2. Before(among, e) \subseteq among /\ e \notin Before(among, e)
    BY <2>1 DEF Before
  <2> QED
    BY <2>2, <1>1, <1>2, FS_Subset DEF Numbered
<1>5. place \in [among -> 1 .. N]
  BY <1>1, <1>2, <1>4
<1>6. \A e, f \in among : place[e] = place[f] => e = f
  <2> SUFFICES ASSUME NEW e \in among, NEW f \in among, place[e] = place[f]
               PROVE  e = f
    OBVIOUS
  <2>1. Cardinality(Before(among, e)) = Cardinality(Before(among, f))
    BY <1>2
  <2>2. e.id \in Nat /\ f.id \in Nat /\ ~(e.id < f.id) /\ ~(f.id < e.id)
    BY <1>2, <1>3, <2>1 DEF Numbered
  <2>3. e.id = f.id
    BY <2>2
  <2> QED
    BY <2>3 DEF Numbered
<1>7. place \in Injection(among, 1 .. N)
  BY <1>5, <1>6 DEF Injection, IsInjective
<1>8. IsFiniteSet(1 .. N) /\ Cardinality(1 .. N) = N
  BY <1>1, FS_Interval
<1>9. place \in Surjection(among, 1 .. N)
  BY <1>7, <1>8, FS_Injection
<1>10. \A n \in 1 .. N : \E e \in among : place[e] = n
  BY <1>9 DEF Surjection
<1>11. \A e \in among : place[e] = Cardinality(Before(among, e)) + 1
  OBVIOUS
<1> HIDE DEF place
<1> QED
  BY <1>10, <1>11, <1>2, <1>1

\* InOrderStarted lists all of them.
LEMMA AllInOrder ==
    ASSUME NEW among, Numbered(among)
    PROVE  Range(InOrderStarted(among)) = among
<1> DEFINE N == Cardinality(among)
           list == InOrderStarted(among)
<1>1. N \in Nat
  BY FS_CardinalityType DEF Numbered
<1>2. list = [n \in 1 .. N |->
                CHOOSE e \in among : Cardinality(Before(among, e)) = n - 1]
  BY DEF InOrderStarted, Before
<1>3. \A n \in 1 .. N :
         list[n] \in among /\ Cardinality(Before(among, list[n])) = n - 1
  BY <1>2, Places
<1>4. list \in [1 .. N -> among]
  BY <1>2, <1>3
<1> HIDE DEF list
<1>5. \A i, j \in 1 .. N : list[i] = list[j] => i = j
  BY <1>3, <1>1
<1>6. list \in Injection(1 .. N, among)
  BY <1>4, <1>5 DEF Injection, IsInjective
<1>7. IsFiniteSet(1 .. N) /\ Cardinality(1 .. N) = N
  BY <1>1, FS_Interval
<1>8. list \in Surjection(1 .. N, among)
  BY <1>6, <1>7, FS_Injection DEF Numbered
<1> QED
  BY <1>8, <1>4 DEF Surjection, Range, list

----------------------------------------------------------------------------
(* What the journals of the run hold while its workers write them.         *)

\* The lines that cannot be used, and the files whose last line is open.
BadIn(files) ==
    UNION {{<<f, i>> : i \in {i \in DOMAIN files[f] : ~Usable(files[f][i], Us)}} :
           f \in DOMAIN files}
OpenIn(files) ==
    {f \in DOMAIN files : files[f] # <<>> /\ ~files[f][Len(files[f])].ended}
EntriesIn(files) ==
    UNION {{files[f][i].entry : i \in DOMAIN files[f]} : f \in DOMAIN files}

\* The entries whose last version is missing.
LostIds(entries, files) == {e.id : e \in entries \ LatestEntries(files, Us)}

LineList(lines) ==
    /\ lines \in Seq(Range(lines))
    /\ \A i \in DOMAIN lines : lines[i].ended \in BOOLEAN

\* The lines of an entry are in one file, under a number given out before.
OneFile(files) ==
    \A f, g \in DOMAIN files :
        \A i \in DOMAIN files[f] : \A j \in DOMAIN files[g] :
            /\ Usable(files[f][i], Us) /\ Usable(files[g][j], Us)
            /\ files[f][i].entry.id = files[g][j].entry.id
            => f = g

IdsGiven(files) ==
    \A f \in DOMAIN files : \A i \in DOMAIN files[f] :
        Usable(files[f][i], Us) => files[f][i].entry.id \in 1 .. nextId - 1

FilesOK(files) ==
    /\ IsFiniteSet(DOMAIN files) /\ IsFiniteSet(EntriesIn(files))
    /\ IsFiniteSet(BadIn(files))
    /\ \A f \in DOMAIN files : LineList(files[f])
    /\ OneFile(files) /\ IdsGiven(files)

\* A spoiled line costs the entry written there, and one for each write before
\* it that was cut short; a line still open has cost nothing yet for its own.
LossBounded(files, entries, cut) ==
    /\ BadIn(files) = {} => entries \subseteq LatestEntries(files, Us)
    /\ Cardinality(LostIds(entries, files)) + Cardinality(OpenIn(files)) <=
          Cardinality(BadIn(files)) + cut

JournalsInv ==
    launcher[Us].stage = "running" =>
        /\ FilesOK(journals[Us])
        /\ LossBounded(journals[Us], recorded, faults)

----------------------------------------------------------------------------
(* Whose entries a worker writes.                                          *)

\* The numbers given out that no journal of another process id has.
OwnIds(pid) ==
    {id \in 1 .. nextId - 1 :
        \A f \in DOMAIN journals[Us] \ {<<Cid, pid>>} :
            \A i \in DOMAIN journals[Us][f] :
                Usable(journals[Us][f][i], Us) => journals[Us][f][i].entry.id # id}

ProcessFields ==
    {"pid", "retry", "chromium", "reason", "hook", "at", "try", "resume",
     "draft", "already", "last", "completed", "begun", "seen",
     "overlapRecorded", "recording", "active", "failed", "tasks", "write",
     "then", "result", "outcomes", "bad", "reloaded"}
DraftFields == {"id", "attempt", "scope", "spec", "test", "result", "covers"}
EntryFields ==
    {"id", "run", "cid", "spec", "test", "scope", "attempt", "result",
     "decision", "segments", "reason", "outcome", "operation", "timing",
     "covers"}

OneOf(e, ids) == DOMAIN e = EntryFields /\ e.id \in ids

\* What a worker holds bears these numbers.  Its deferred tasks are of entries
\* it has completed, or is about to.
Holds(p, ids, soon) ==
    /\ DOMAIN p = ProcessFields
    /\ p.draft # NoDraft => DOMAIN p.draft = DraftFields /\ p.draft.id \in ids
    /\ \A e \in p.completed : OneOf(e, ids)
    /\ p.write # NoEntry => OneOf(p.write, ids)
    /\ p.tasks \in Seq({e.id : e \in p.completed} \union soon)

WorkerInv ==
    /\ DOMAIN journals = Launchers
    /\ nextId \in Nat \ {0} /\ faults \in Nat /\ IsFiniteSet(recorded)
    /\ process # NoWorker => Holds(process, OwnIds(process.pid), {})
    /\ launcher[Us].stage # "running" => process = NoWorker

----------------------------------------------------------------------------
(* What a run says it has lost.                                            *)

LossTold(run) ==
    LET lost == {e \in recorded : e \notin Range(run.entries)} IN
    /\ IsFiniteSet(run.diagnostics)
    /\ run.diagnostics = {} => lost = {}
    /\ Cardinality({e.id : e \in lost}) <= Cardinality(run.diagnostics) + faults

ToldInv ==
    /\ launcher[Us].stage \in {"locking", "locked", "publishing"} =>
          LossTold(launcher[Us].run)
    /\ \A run \in Published : run.id = Us => LossTold(run)

RecordedInv == JournalsInv /\ WorkerInv /\ ToldInv

----------------------------------------------------------------------------
(* A journal line is written.                                              *)

\* The file is not open: the line comes behind the others.
Extends(new, files, file, n, line) ==
    /\ n \in Nat
    /\ DOMAIN new = DOMAIN files \union {file}
    /\ \A f \in DOMAIN files \ {file} : new[f] = files[f]
    /\ file \in DOMAIN files => DOMAIN files[file] = 1 .. n
    /\ file \notin DOMAIN files => n = 0
    /\ DOMAIN new[file] = 1 .. n + 1
    /\ \A i \in 1 .. n : new[file][i] = files[file][i]
    /\ new[file][n + 1] = line

\* The file is open: its last line is spoiled.
Spoils(new, files, file, n, ended) ==
    /\ n \in Nat \ {0}
    /\ file \in DOMAIN files /\ DOMAIN new = DOMAIN files
    /\ \A f \in DOMAIN files \ {file} : new[f] = files[f]
    /\ DOMAIN files[file] = 1 .. n /\ DOMAIN new[file] = 1 .. n
    /\ \A i \in 1 .. n - 1 : new[file][i] = files[file][i]
    /\ new[file][n] = [entry |-> NoEntry, ended |-> ended]

Appended(files, file, line) ==
    [f \in DOMAIN files \union {file} |->
        IF f = file
        THEN AppendLine(IF file \in DOMAIN files THEN files[file] ELSE <<>>, line)
        ELSE files[f]]

LEMMA AppendLineFacts ==
    ASSUME NEW lines, LineList(lines), NEW line, line.ended \in BOOLEAN
    PROVE  /\ LineList(AppendLine(lines, line))
           /\ Len(lines) \in Nat
           /\ lines # <<>> /\ ~lines[Len(lines)].ended =>
                 /\ Len(lines) # 0
                 /\ DOMAIN AppendLine(lines, line) = 1 .. Len(lines)
                 /\ \A i \in 1 .. Len(lines) - 1 :
                       AppendLine(lines, line)[i] = lines[i]
                 /\ AppendLine(lines, line)[Len(lines)] =
                       [entry |-> NoEntry, ended |-> line.ended]
           /\ ~(lines # <<>> /\ ~lines[Len(lines)].ended) =>
                 /\ DOMAIN AppendLine(lines, line) = 1 .. Len(lines) + 1
                 /\ \A i \in 1 .. Len(lines) :
                       AppendLine(lines, line)[i] = lines[i]
                 /\ AppendLine(lines, line)[Len(lines) + 1] = line
<1> DEFINE new == AppendLine(lines, line)
           spoiled == [entry |-> NoEntry, ended |-> line.ended]
           S == Range(lines) \union {line, spoiled}
           n == Len(lines)
<1>1. /\ lines \in Seq(Range(lines)) /\ n \in Nat
      /\ DOMAIN lines = 1 .. n
      /\ \A i \in 1 .. n : lines[i] \in S /\ lines[i].ended \in BOOLEAN
  BY LenProperties DEF LineList, Range
<1>2. lines \in Seq(S) /\ spoiled \in S /\ line \in S
  <2>1. \A i \in 1 .. n : lines[i] \in S
    BY <1>1
  <2>2. lines = [i \in 1 .. n |-> lines[i]]
    BY <1>1, SMTT(20)
  <2> QED
    BY <1>1, <2>1, <2>2
<1>3. CASE lines # <<>> /\ ~lines[n].ended
  <2> DEFINE front == SubSeq(lines, 1, n - 1)
  <2>1. n # 0 /\ n - 1 \in Nat
    BY <1>1, <1>3
  <2>2. /\ front \in Seq(S) /\ Len(front) = n - 1
        /\ \A i \in 1 .. n - 1 : front[i] = lines[i]
    BY <1>1, <2>1
  <2>3. new = Append(front, spoiled)
    BY <1>3 DEF AppendLine, Front, Last
  <2> HIDE DEF front, new, spoiled, S
  <2>4. /\ new \in Seq(S) /\ Len(new) = n
        /\ \A i \in 1 .. n - 1 : new[i] = lines[i]
        /\ new[n] = spoiled
    BY <1>2, <2>1, <2>2, <2>3, AppendProperties
  <2>5. DOMAIN new = 1 .. n
    BY <2>4
  <2>6. \A i \in 1 .. n : new[i].ended \in BOOLEAN
    BY <1>1, <2>1, <2>4 DEF spoiled
  <2>7. new \in Seq(Range(new))
    BY <2>4, <2>5, <1>1, SMTT(20) DEF Range
  <2> QED
    BY <1>1, <1>3, <2>1, <2>4, <2>5, <2>6, <2>7 DEF LineList, new, spoiled
<1>4. CASE ~(lines # <<>> /\ ~lines[n].ended)
  <2>1. new = Append(lines, line)
    BY <1>4 DEF AppendLine, Last
  <2> HIDE DEF new, spoiled, S
  <2>2. /\ new \in Seq(S) /\ Len(new) = n + 1
        /\ \A i \in 1 .. n : new[i] = lines[i]
        /\ new[n + 1] = line
    BY <1>2, <2>1, AppendProperties
  <2>3. DOMAIN new = 1 .. n + 1
    BY <2>2
  <2>4. \A i \in 1 .. n + 1 : new[i].ended \in BOOLEAN
    BY <1>1, <2>2
  <2>5. new \in Seq(Range(new))
    BY <2>2, <2>3, <1>1 DEF Range
  <2> QED
    BY <1>1, <1>4, <2>2, <2>3, <2>4, <2>5 DEF LineList, new
<1> QED
  BY <1>3, <1>4

\* A line either comes behind the others of its file, or spoils the last one.
LEMMA AppendedFacts ==
    ASSUME NEW files, \A f \in DOMAIN files : LineList(files[f]),
           NEW file, NEW line, line.ended \in BOOLEAN
    PROVE  /\ \A f \in DOMAIN Appended(files, file, line) :
                 LineList(Appended(files, file, line)[f])
           /\ \E n :
                 \/ /\ file \in OpenIn(files)
                    /\ n = Len(files[file])
                    /\ Spoils(Appended(files, file, line), files, file, n,
                              line.ended)
                 \/ /\ file \notin OpenIn(files)
                    /\ Extends(Appended(files, file, line), files, file, n, line)
<1> DEFINE new == Appended(files, file, line)
           lines == IF file \in DOMAIN files THEN files[file] ELSE <<>>
           n == Len(lines)
<1>1. LineList(lines)
  <2>1. LineList(<<>>)
    BY DEF LineList, Range
  <2> QED
    BY <2>1
<1>2. /\ DOMAIN new = DOMAIN files \union {file}
      /\ new[file] = AppendLine(lines, line)
      /\ \A f \in DOMAIN files \ {file} : new[f] = files[f]
  BY DEF Appended
<1>3. /\ file \in DOMAIN files => lines = files[file]
      /\ file \notin DOMAIN files => lines = <<>>
  OBVIOUS
<1>4. file \in OpenIn(files) <=> lines # <<>> /\ ~lines[n].ended
  BY DEF OpenIn
<1>5. DOMAIN lines = 1 .. n
  BY <1>1 DEF LineList
<1>6. file \in OpenIn(files) => file \in DOMAIN files
  BY DEF OpenIn
<1> HIDE DEF new, lines
<1>7. /\ LineList(new[file])
      /\ n \in Nat
      /\ lines # <<>> /\ ~lines[n].ended =>
            /\ n # 0
            /\ DOMAIN new[file] = 1 .. n
            /\ \A i \in 1 .. n - 1 : new[file][i] = lines[i]
            /\ new[file][n] = [entry |-> NoEntry, ended |-> line.ended]
      /\ ~(lines # <<>> /\ ~lines[n].ended) =>
            /\ DOMAIN new[file] = 1 .. n + 1
            /\ \A i \in 1 .. n : new[file][i] = lines[i]
            /\ new[file][n + 1] = line
  BY <1>1, <1>2, AppendLineFacts
<1>8. \A f \in DOMAIN new : LineList(new[f])
  BY <1>2, <1>7
<1>9. CASE file \in OpenIn(files)
  <2>1. Spoils(new, files, file, n, line.ended)
    BY <1>2, <1>3, <1>4, <1>5, <1>6, <1>7, <1>9 DEF Spoils
  <2> QED
    BY <1>3, <1>6, <1>8, <1>9, <2>1 DEF new
<1>10. CASE file \notin OpenIn(files)
  <2>1. file \notin DOMAIN files => n = 0
    BY <1>3
  <2>2. Extends(new, files, file, n, line)
    BY <1>2, <1>3, <1>4, <1>5, <1>7, <1>10, <2>1 DEF Extends
  <2> QED
    BY <1>8, <1>10, <2>2 DEF new
<1> QED
  BY <1>9, <1>10

----------------------------------------------------------------------------
(* What a written line changes of usable lines and entries.                *)

\* The last usable line of its entry.
LastAt(files, f, i) ==
    /\ Usable(files[f][i], Us)
    /\ \A j \in (i + 1) .. Len(files[f]) :
          Usable(files[f][j], Us) => files[f][j].entry.id # files[f][i].entry.id

LEMMA LatestMeans ==
    ASSUME NEW files
    PROVE  \A e : e \in LatestEntries(files, Us) <=>
              \E f \in DOMAIN files : \E i \in DOMAIN files[f] :
                 LastAt(files, f, i) /\ e = files[f][i].entry
BY DEF LatestEntries, LastAt

LEMMA BadMeans ==
    ASSUME NEW files
    PROVE  \A p : p \in BadIn(files) <=>
              \E f \in DOMAIN files : \E i \in DOMAIN files[f] :
                 p = <<f, i>> /\ ~Usable(files[f][i], Us)
BY DEF BadIn

LEMMA LineLengths ==
    ASSUME NEW files, \A f \in DOMAIN files : LineList(files[f])
    PROVE  \A f \in DOMAIN files :
              /\ Len(files[f]) \in Nat
              /\ DOMAIN files[f] = 1 .. Len(files[f])
              /\ files[f] = <<>> <=> Len(files[f]) = 0
              /\ \A n \in Nat : DOMAIN files[f] = 1 .. n => Len(files[f]) = n
<1> SUFFICES ASSUME NEW f \in DOMAIN files
             PROVE  /\ Len(files[f]) \in Nat
                    /\ DOMAIN files[f] = 1 .. Len(files[f])
                    /\ files[f] = <<>> <=> Len(files[f]) = 0
                    /\ \A n \in Nat : DOMAIN files[f] = 1 .. n => Len(files[f]) = n
  OBVIOUS
<1>1. files[f] \in Seq(Range(files[f]))
  BY DEF LineList
<1> QED
  BY <1>1, LenProperties

\* A line that cannot be read is of no run.
LEMMA NoEntryUnusable ==
    ASSUME NEW line, line.entry = NoEntry
    PROVE  ~Usable(line, Us)
BY UsAssumption, LauncherAssumption DEF Usable, NoEntry

\* A line behind the others makes none of them worse.
LEMMA ExtendsEntries ==
    ASSUME NEW files, \A f \in DOMAIN files : LineList(files[f]),
           NEW new, \A f \in DOMAIN new : LineList(new[f]),
           NEW file, NEW n, NEW line, Extends(new, files, file, n, line)
    PROVE  /\ \A e \in LatestEntries(files, Us) :
                 \/ e \in LatestEntries(new, Us)
                 \/ Usable(line, Us) /\ e.id = line.entry.id
           /\ Usable(line, Us) => line.entry \in LatestEntries(new, Us)
           /\ EntriesIn(new) = EntriesIn(files) \union {line.entry}
<1>1. /\ n \in Nat
      /\ DOMAIN new = DOMAIN files \union {file}
      /\ \A f \in DOMAIN files \ {file} : new[f] = files[f]
      /\ file \in DOMAIN files => DOMAIN files[file] = 1 .. n
      /\ file \notin DOMAIN files => n = 0
      /\ DOMAIN new[file] = 1 .. n + 1
      /\ \A i \in 1 .. n : new[file][i] = files[file][i]
      /\ new[file][n + 1] = line
  BY DEF Extends
<1>2. /\ Len(new[file]) = n + 1
      /\ file \in DOMAIN files => Len(files[file]) = n
  BY <1>1, LineLengths
<1>3. ASSUME NEW e \in LatestEntries(files, Us),
             ~(Usable(line, Us) /\ e.id = line.entry.id)
      PROVE  e \in LatestEntries(new, Us)
  <2>1. PICK f \in DOMAIN files : \E i \in DOMAIN files[f] :
           LastAt(files, f, i) /\ e = files[f][i].entry
    BY LatestMeans
  <2>2. PICK i \in DOMAIN files[f] :
           LastAt(files, f, i) /\ e = files[f][i].entry
    BY <2>1
  <2>3. f \in DOMAIN new
    BY <1>1
  <2>4. CASE f # file
    <3>1. new[f] = files[f]
      BY <1>1, <2>4
    <3>2. LastAt(new, f, i)
      BY <2>2, <3>1 DEF LastAt
    <3> QED
      BY <2>2, <2>3, <3>1, <3>2, LatestMeans
  <2>5. CASE f = file
    <3>1. i \in 1 .. n /\ i \in DOMAIN new[f] /\ new[f][i] = files[f][i]
      BY <1>1, <2>5
    <3>2. ASSUME NEW j \in (i + 1) .. Len(new[f]), Usable(new[f][j], Us)
          PROVE  new[f][j].entry.id # new[f][i].entry.id
      <4>1. CASE j = n + 1
        BY <1>1, <1>3, <2>2, <2>5, <3>1, <3>2, <4>1
      <4>2. CASE j # n + 1
        <5>1. j \in (i + 1) .. Len(files[f]) /\ j \in 1 .. n
          BY <1>1, <1>2, <2>5, <3>1, <4>2
        <5> QED
          BY <1>1, <2>2, <2>5, <3>1, <3>2, <5>1 DEF LastAt
      <4> QED
        BY <4>1, <4>2
    <3>3. LastAt(new, f, i)
      BY <2>2, <3>1, <3>2 DEF LastAt
    <3> QED
      BY <2>2, <2>3, <3>1, <3>3, LatestMeans
  <2> QED
    BY <2>4, <2>5
<1>4. Usable(line, Us) => line.entry \in LatestEntries(new, Us)
  <2> SUFFICES ASSUME Usable(line, Us)
               PROVE  line.entry \in LatestEntries(new, Us)
    OBVIOUS
  <2>1. \A j \in (n + 1 + 1) .. Len(new[file]) : FALSE
    BY <1>1, <1>2
  <2>2. LastAt(new, file, n + 1)
    BY <1>1, <2>1 DEF LastAt
  <2>3. file \in DOMAIN new /\ n + 1 \in DOMAIN new[file]
    BY <1>1
  <2> QED
    BY <1>1, <2>2, <2>3, LatestMeans
<1>5. EntriesIn(new) = EntriesIn(files) \union {line.entry}
  <2>1. ASSUME NEW f \in DOMAIN new, NEW i \in DOMAIN new[f]
        PROVE  new[f][i].entry \in EntriesIn(files) \union {line.entry}
    <3>1. CASE f = file /\ i = n + 1
      BY <1>1, <3>1
    <3>2. CASE ~(f = file /\ i = n + 1)
      <4>1. /\ f \in DOMAIN files /\ i \in DOMAIN files[f]
            /\ new[f][i] = files[f][i]
        BY <1>1, <3>2
      <4> QED
        BY <4>1 DEF EntriesIn
    <3> QED
      BY <3>1, <3>2
  <2>2. ASSUME NEW f \in DOMAIN files, NEW i \in DOMAIN files[f]
        PROVE  files[f][i].entry \in EntriesIn(new)
    <3>1. /\ f \in DOMAIN new /\ i \in DOMAIN new[f]
          /\ new[f][i] = files[f][i]
      BY <1>1
    <3> QED
      BY <3>1 DEF EntriesIn
  <2>3. line.entry \in EntriesIn(new)
    <3>1. file \in DOMAIN new /\ n + 1 \in DOMAIN new[file]
      BY <1>1
    <3> QED
      BY <1>1, <3>1 DEF EntriesIn
  <2>4. EntriesIn(new) \subseteq EntriesIn(files) \union {line.entry}
    BY <2>1 DEF EntriesIn
  <2>5. EntriesIn(files) \subseteq EntriesIn(new)
    BY <2>2 DEF EntriesIn
  <2> QED
    BY <2>3, <2>4, <2>5
<1> QED
  BY <1>3, <1>4, <1>5

\* What it adds to the unusable lines and the open files.
LEMMA ExtendsCounts ==
    ASSUME NEW files, \A f \in DOMAIN files : LineList(files[f]),
           NEW new, \A f \in DOMAIN new : LineList(new[f]),
           NEW file, NEW n, NEW line, Extends(new, files, file, n, line),
           file \notin OpenIn(files), line.ended \in BOOLEAN
    PROVE  /\ Usable(line, Us) => BadIn(new) = BadIn(files)
           /\ ~Usable(line, Us) => BadIn(new) = BadIn(files) \union {<<file, n + 1>>}
           /\ <<file, n + 1>> \notin BadIn(files)
           /\ line.ended => OpenIn(new) = OpenIn(files)
           /\ ~line.ended => OpenIn(new) = OpenIn(files) \union {file}
<1>1. /\ n \in Nat
      /\ DOMAIN new = DOMAIN files \union {file}
      /\ \A f \in DOMAIN files \ {file} : new[f] = files[f]
      /\ file \in DOMAIN files => DOMAIN files[file] = 1 .. n
      /\ file \notin DOMAIN files => n = 0
      /\ DOMAIN new[file] = 1 .. n + 1
      /\ \A i \in 1 .. n : new[file][i] = files[file][i]
      /\ new[file][n + 1] = line
  BY DEF Extends
<1>2. Len(new[file]) = n + 1 /\ new[file] # <<>>
  BY <1>1, LineLengths
<1>3. <<file, n + 1>> \notin BadIn(files)
  <2>1. file \in DOMAIN files => n + 1 \notin DOMAIN files[file]
    BY <1>1
  <2> QED
    BY <2>1, BadMeans
<1>4. BadIn(files) \subseteq BadIn(new)
  <2> SUFFICES ASSUME NEW f \in DOMAIN files, NEW i \in DOMAIN files[f],
                      ~Usable(files[f][i], Us)
               PROVE  <<f, i>> \in BadIn(new)
    BY BadMeans
  <2>1. f \in DOMAIN new /\ i \in DOMAIN new[f] /\ new[f][i] = files[f][i]
    BY <1>1
  <2> QED
    BY <2>1, BadMeans
<1>5. ASSUME NEW f \in DOMAIN new, NEW i \in DOMAIN new[f],
             ~Usable(new[f][i], Us), ~(f = file /\ i = n + 1)
      PROVE  <<f, i>> \in BadIn(files)
  <2>1. f \in DOMAIN files /\ i \in DOMAIN files[f] /\ new[f][i] = files[f][i]
    BY <1>1, <1>5
  <2> QED
    BY <1>5, <2>1, BadMeans
<1>6. Usable(line, Us) => BadIn(new) = BadIn(files)
  <2> SUFFICES ASSUME Usable(line, Us), NEW p \in BadIn(new)
               PROVE  p \in BadIn(files)
    BY <1>4
  <2>0. PICK f \in DOMAIN new :
          \E i \in DOMAIN new[f] : p = <<f, i>> /\ ~Usable(new[f][i], Us)
    BY BadMeans
  <2>1. PICK i \in DOMAIN new[f] : p = <<f, i>> /\ ~Usable(new[f][i], Us)
    BY <2>0
  <2>2. ~(f = file /\ i = n + 1)
    BY <1>1, <2>1
  <2> QED
    BY <1>5, <2>1, <2>2
<1>7. ~Usable(line, Us) => BadIn(new) = BadIn(files) \union {<<file, n + 1>>}
  <2> SUFFICES ASSUME ~Usable(line, Us)
               PROVE  BadIn(new) = BadIn(files) \union {<<file, n + 1>>}
    OBVIOUS
  <2>1. file \in DOMAIN new /\ n + 1 \in DOMAIN new[file]
    BY <1>1
  <2>2. <<file, n + 1>> \in BadIn(new)
    BY <1>1, <2>1, BadMeans
  <2>3. ASSUME NEW p \in BadIn(new)
        PROVE  p \in BadIn(files) \union {<<file, n + 1>>}
    <3>0. PICK f \in DOMAIN new :
            \E i \in DOMAIN new[f] : p = <<f, i>> /\ ~Usable(new[f][i], Us)
      BY BadMeans
    <3>1. PICK i \in DOMAIN new[f] : p = <<f, i>> /\ ~Usable(new[f][i], Us)
      BY <3>0
    <3> QED
      BY <1>5, <3>1
  <2> QED
    BY <1>4, <2>2, <2>3
<1>8. \A f \in DOMAIN files \ {file} : f \in OpenIn(new) <=> f \in OpenIn(files)
  BY <1>1 DEF OpenIn
<1>9. file \in OpenIn(new) <=> ~line.ended
  BY <1>1, <1>2 DEF OpenIn
<1>10. OpenIn(files) \subseteq DOMAIN files /\ OpenIn(new) \subseteq DOMAIN new
  BY DEF OpenIn
<1>11. ASSUME line.ended
       PROVE  OpenIn(new) = OpenIn(files)
  <2>1. file \notin OpenIn(new) /\ file \notin OpenIn(files)
    BY <1>9, <1>11
  <2>2. OpenIn(new) \subseteq OpenIn(files)
    BY <1>1, <1>8, <1>10, <2>1
  <2>3. OpenIn(files) \subseteq OpenIn(new)
    BY <1>8, <1>10, <2>1
  <2> QED
    BY <2>2, <2>3
<1>12. ~line.ended => OpenIn(new) = OpenIn(files) \union {file}
  BY <1>1, <1>8, <1>9, <1>10
<1> QED
  BY <1>3, <1>6, <1>7, <1>11, <1>12

\* A spoiled line takes the entry with it that it held, if it held one.
LEMMA SpoilsEntries ==
    ASSUME NEW files, \A f \in DOMAIN files : LineList(files[f]),
           NEW new, \A f \in DOMAIN new : LineList(new[f]),
           NEW file, NEW n, NEW ended, Spoils(new, files, file, n, ended)
    PROVE  /\ \A e \in LatestEntries(files, Us) :
                 \/ e \in LatestEntries(new, Us)
                 \/ /\ Usable(files[file][n], Us)
                    /\ e.id = files[file][n].entry.id
           /\ EntriesIn(new) \subseteq EntriesIn(files) \union {NoEntry}
<1>1. /\ n \in Nat \ {0}
      /\ file \in DOMAIN files /\ DOMAIN new = DOMAIN files
      /\ \A f \in DOMAIN files \ {file} : new[f] = files[f]
      /\ DOMAIN files[file] = 1 .. n /\ DOMAIN new[file] = 1 .. n
      /\ \A i \in 1 .. n - 1 : new[file][i] = files[file][i]
      /\ new[file][n].entry = NoEntry
  BY DEF Spoils
<1>2. Len(new[file]) = n /\ Len(files[file]) = n
  BY <1>1, LineLengths
<1>3. ASSUME NEW e \in LatestEntries(files, Us),
             ~(Usable(files[file][n], Us) /\ e.id = files[file][n].entry.id)
      PROVE  e \in LatestEntries(new, Us)
  <2>1. PICK f \in DOMAIN files : \E i \in DOMAIN files[f] :
           LastAt(files, f, i) /\ e = files[f][i].entry
    BY LatestMeans
  <2>2. PICK i \in DOMAIN files[f] :
           LastAt(files, f, i) /\ e = files[f][i].entry
    BY <2>1
  <2>3. CASE f # file
    <3>1. new[f] = files[f] /\ f \in DOMAIN new
      BY <1>1, <2>3
    <3>2. LastAt(new, f, i)
      BY <2>2, <3>1 DEF LastAt
    <3> QED
      BY <2>2, <3>1, <3>2, LatestMeans
  <2>4. CASE f = file
    <3>1. i # n
      BY <1>3, <2>2, <2>4 DEF LastAt
    <3>2. i \in 1 .. n - 1 /\ i \in DOMAIN new[f] /\ new[f][i] = files[f][i]
      BY <1>1, <2>4, <3>1
    <3>3. ASSUME NEW j \in (i + 1) .. Len(new[f]), Usable(new[f][j], Us)
          PROVE  new[f][j].entry.id # new[f][i].entry.id
      <4>1. j # n
        BY <1>1, <2>4, <3>3, NoEntryUnusable
      <4>2. j \in 1 .. n - 1 /\ j \in (i + 1) .. Len(files[f])
        BY <1>1, <1>2, <2>4, <3>2, <4>1
      <4> QED
        BY <1>1, <2>2, <2>4, <3>2, <3>3, <4>2 DEF LastAt
    <3>4. LastAt(new, f, i)
      BY <2>2, <3>2, <3>3 DEF LastAt
    <3>5. f \in DOMAIN new
      BY <1>1
    <3> QED
      BY <2>2, <3>2, <3>4, <3>5, LatestMeans
  <2> QED
    BY <2>3, <2>4
<1>4. EntriesIn(new) \subseteq EntriesIn(files) \union {NoEntry}
  <2>1. ASSUME NEW f \in DOMAIN new, NEW i \in DOMAIN new[f]
        PROVE  new[f][i].entry \in EntriesIn(files) \union {NoEntry}
    <3>1. CASE f = file /\ i = n
      BY <1>1, <3>1
    <3>2. CASE ~(f = file /\ i = n)
      <4>1. /\ f \in DOMAIN files /\ i \in DOMAIN files[f]
            /\ new[f][i] = files[f][i]
        BY <1>1, <3>2
      <4> QED
        BY <4>1 DEF EntriesIn
    <3> QED
      BY <3>1, <3>2
  <2> QED
    BY <2>1 DEF EntriesIn
<1> QED
  BY <1>3, <1>4

\* It is one more unusable line, unless it was unusable before.
LEMMA SpoilsCounts ==
    ASSUME NEW files, \A f \in DOMAIN files : LineList(files[f]),
           NEW new, \A f \in DOMAIN new : LineList(new[f]),
           NEW file, NEW n, NEW ended, Spoils(new, files, file, n, ended),
           file \in OpenIn(files), ended \in BOOLEAN
    PROVE  /\ BadIn(new) = BadIn(files) \union {<<file, n>>}
           /\ Usable(files[file][n], Us) <=> <<file, n>> \notin BadIn(files)
           /\ ended => OpenIn(new) = OpenIn(files) \ {file}
           /\ ~ended => OpenIn(new) = OpenIn(files)
<1>1. /\ n \in Nat \ {0}
      /\ file \in DOMAIN files /\ DOMAIN new = DOMAIN files
      /\ \A f \in DOMAIN files \ {file} : new[f] = files[f]
      /\ DOMAIN files[file] = 1 .. n /\ DOMAIN new[file] = 1 .. n
      /\ \A i \in 1 .. n - 1 : new[file][i] = files[file][i]
      /\ new[file][n].entry = NoEntry /\ new[file][n].ended = ended
  BY DEF Spoils
<1>2. Len(new[file]) = n /\ new[file] # <<>>
  BY <1>1, LineLengths
<1>3. n \in DOMAIN files[file] /\ n \in DOMAIN new[file]
  BY <1>1
<1>4. Usable(files[file][n], Us) <=> <<file, n>> \notin BadIn(files)
  BY <1>1, <1>3, BadMeans
<1>5. ASSUME NEW f \in DOMAIN files, NEW i \in DOMAIN files[f],
             ~(f = file /\ i = n)
      PROVE  i \in DOMAIN new[f] /\ new[f][i] = files[f][i]
  BY <1>1, <1>5
<1>6. <<file, n>> \in BadIn(new)
  <2>1. ~Usable(new[file][n], Us)
    BY <1>1, NoEntryUnusable
  <2> QED
    BY <1>1, <1>3, <2>1, BadMeans
<1>7. BadIn(new) \subseteq BadIn(files) \union {<<file, n>>}
  <2> SUFFICES ASSUME NEW p \in BadIn(new), p # <<file, n>>
               PROVE  p \in BadIn(files)
    OBVIOUS
  <2>1. PICK f \in DOMAIN new :
          \E i \in DOMAIN new[f] : p = <<f, i>> /\ ~Usable(new[f][i], Us)
    BY BadMeans
  <2>2. PICK i \in DOMAIN new[f] : p = <<f, i>> /\ ~Usable(new[f][i], Us)
    BY <2>1
  <2>3. ~(f = file /\ i = n)
    BY <2>2
  <2>4. f \in DOMAIN files /\ i \in DOMAIN files[f]
    BY <1>1
  <2> QED
    BY <1>5, <2>2, <2>3, <2>4, BadMeans
<1>8. BadIn(files) \subseteq BadIn(new)
  <2> SUFFICES ASSUME NEW p \in BadIn(files)
               PROVE  p \in BadIn(new)
    OBVIOUS
  <2>1. PICK f \in DOMAIN files :
          \E i \in DOMAIN files[f] : p = <<f, i>> /\ ~Usable(files[f][i], Us)
    BY BadMeans
  <2>2. PICK i \in DOMAIN files[f] : p = <<f, i>> /\ ~Usable(files[f][i], Us)
    BY <2>1
  <2>3. CASE f = file /\ i = n
    BY <1>6, <2>2, <2>3
  <2>4. CASE ~(f = file /\ i = n)
    BY <1>1, <1>5, <2>2, <2>4, BadMeans
  <2> QED
    BY <2>3, <2>4
<1>9. \A f \in DOMAIN files \ {file} : f \in OpenIn(new) <=> f \in OpenIn(files)
  BY <1>1 DEF OpenIn
<1>10. file \in OpenIn(new) <=> ~ended
  BY <1>1, <1>2 DEF OpenIn
<1>11. OpenIn(files) \subseteq DOMAIN files /\ OpenIn(new) \subseteq DOMAIN files
  BY <1>1 DEF OpenIn
<1>12. ended => OpenIn(new) = OpenIn(files) \ {file}
  BY <1>9, <1>10, <1>11
<1>13. ASSUME ~ended
       PROVE  OpenIn(new) = OpenIn(files)
  <2>1. OpenIn(new) \subseteq OpenIn(files)
    BY <1>9, <1>11
  <2>2. OpenIn(files) \subseteq OpenIn(new)
    BY <1>9, <1>10, <1>11, <1>13
  <2> QED
    BY <2>1, <2>2
<1> QED
  BY <1>4, <1>6, <1>7, <1>8, <1>12, <1>13

\* Every usable line was there, or is the one written.
LEMMA UsableLines ==
    ASSUME NEW files, NEW new, NEW file, NEW n, NEW line,
           \/ Extends(new, files, file, n, line)
           \/ Spoils(new, files, file, n, line.ended)
    PROVE  \A f \in DOMAIN new : \A i \in DOMAIN new[f] :
              Usable(new[f][i], Us) =>
                 \/ /\ f \in DOMAIN files /\ i \in DOMAIN files[f]
                    /\ new[f][i] = files[f][i]
                 \/ f = file /\ new[f][i] = line
<1> SUFFICES ASSUME NEW f \in DOMAIN new, NEW i \in DOMAIN new[f],
                    Usable(new[f][i], Us)
             PROVE  \/ /\ f \in DOMAIN files /\ i \in DOMAIN files[f]
                       /\ new[f][i] = files[f][i]
                    \/ f = file /\ new[f][i] = line
  OBVIOUS
<1>1. CASE Extends(new, files, file, n, line)
  BY <1>1 DEF Extends
<1>2. CASE Spoils(new, files, file, n, line.ended)
  <2>1. f = file => i # n
    BY <1>2, NoEntryUnusable DEF Spoils
  <2> QED
    BY <1>2, <2>1 DEF Spoils
<1> QED
  BY <1>1, <1>2

\* An entry whose number no other file has leaves the files as they should be.
LEMMA FilesKept ==
    ASSUME NEW files, FilesOK(files), NEW file, NEW line, line.ended \in BOOLEAN,
           Usable(line, Us) =>
              /\ line.entry.id \in 1 .. nextId - 1
              /\ \A f \in DOMAIN files \ {file} : \A i \in DOMAIN files[f] :
                    Usable(files[f][i], Us) => files[f][i].entry.id # line.entry.id
    PROVE  FilesOK(Appended(files, file, line))
<1> DEFINE new == Appended(files, file, line)
<1>1. \A f \in DOMAIN files : LineList(files[f])
  BY DEF FilesOK
<1>2. \A f \in DOMAIN new : LineList(new[f])
  BY <1>1, AppendedFacts
<1>3. DOMAIN new = DOMAIN files \union {file}
  BY DEF Appended
<1>4. PICK n : \/ /\ file \in OpenIn(files)
                  /\ n = Len(files[file])
                  /\ Spoils(new, files, file, n, line.ended)
               \/ /\ file \notin OpenIn(files)
                  /\ Extends(new, files, file, n, line)
  BY <1>1, AppendedFacts
<1> HIDE DEF new
<1>5. IsFiniteSet(DOMAIN new)
  BY <1>3, FS_AddElement DEF FilesOK
<1>6. IsFiniteSet(EntriesIn(new))
  <2>1. \/ EntriesIn(new) \subseteq EntriesIn(files) \union {NoEntry}
        \/ EntriesIn(new) \subseteq EntriesIn(files) \union {line.entry}
    <3>1. CASE Extends(new, files, file, n, line)
      BY <1>1, <1>2, <3>1, ExtendsEntries
    <3>2. CASE Spoils(new, files, file, n, line.ended)
      BY <1>1, <1>2, <3>2, SpoilsEntries
    <3> QED
      BY <1>4, <3>1, <3>2
  <2>2. /\ IsFiniteSet(EntriesIn(files) \union {NoEntry})
        /\ IsFiniteSet(EntriesIn(files) \union {line.entry})
    BY FS_AddElement DEF FilesOK
  <2> QED
    BY <2>1, <2>2, FS_Subset
<1>7. IsFiniteSet(BadIn(new))
  <2>1. \/ BadIn(new) = BadIn(files)
        \/ BadIn(new) = BadIn(files) \union {<<file, n + 1>>}
        \/ BadIn(new) = BadIn(files) \union {<<file, n>>}
    <3>1. CASE /\ file \notin OpenIn(files)
               /\ Extends(new, files, file, n, line)
      <4>1. /\ Usable(line, Us) => BadIn(new) = BadIn(files)
            /\ ~Usable(line, Us) =>
                  BadIn(new) = BadIn(files) \union {<<file, n + 1>>}
        BY <1>1, <1>2, <3>1, ExtendsCounts
      <4> QED
        BY <4>1
    <3>2. CASE /\ file \in OpenIn(files)
               /\ Spoils(new, files, file, n, line.ended)
      <4>1. BadIn(new) = BadIn(files) \union {<<file, n>>}
        BY <1>1, <1>2, <3>2, SpoilsCounts
      <4> QED
        BY <4>1
    <3> QED
      BY <1>4, <3>1, <3>2
  <2>2. /\ IsFiniteSet(BadIn(files) \union {<<file, n + 1>>})
        /\ IsFiniteSet(BadIn(files) \union {<<file, n>>})
        /\ IsFiniteSet(BadIn(files))
    BY FS_AddElement DEF FilesOK
  <2> QED
    BY <2>1, <2>2
<1>8. \A f \in DOMAIN new : \A i \in DOMAIN new[f] :
         Usable(new[f][i], Us) =>
            \/ /\ f \in DOMAIN files /\ i \in DOMAIN files[f]
               /\ new[f][i] = files[f][i]
            \/ f = file /\ new[f][i] = line
  <2>1. \/ Extends(new, files, file, n, line)
        \/ Spoils(new, files, file, n, line.ended)
    BY <1>4
  <2> QED
    BY <2>1, UsableLines
<1>9. OneFile(new)
  <2> SUFFICES ASSUME NEW f \in DOMAIN new, NEW g \in DOMAIN new,
                      NEW i \in DOMAIN new[f], NEW j \in DOMAIN new[g],
                      Usable(new[f][i], Us), Usable(new[g][j], Us),
                      new[f][i].entry.id = new[g][j].entry.id
               PROVE  f = g
    BY DEF OneFile
  <2>1. \/ /\ f \in DOMAIN files /\ i \in DOMAIN files[f]
           /\ new[f][i] = files[f][i]
        \/ f = file /\ new[f][i] = line
    BY <1>8
  <2>2. \/ /\ g \in DOMAIN files /\ j \in DOMAIN files[g]
           /\ new[g][j] = files[g][j]
        \/ g = file /\ new[g][j] = line
    BY <1>8
  <2> QED
    BY <2>1, <2>2 DEF FilesOK, OneFile
<1>10. IdsGiven(new)
  BY <1>8 DEF FilesOK, IdsGiven
<1> QED
  BY <1>2, <1>5, <1>6, <1>7, <1>9, <1>10 DEF FilesOK, new

----------------------------------------------------------------------------
(* What a written line costs.                                              *)

LEMMA IdsFinite ==
    ASSUME NEW entries, IsFiniteSet(entries)
    PROVE  IsFiniteSet({e.id : e \in entries})
<1> DEFINE ids == {e.id : e \in entries}
           id == [e \in entries |-> e.id]
<1>1. id \in Surjection(entries, ids)
  BY DEF Surjection
<1> QED
  BY <1>1, FS_Surjection

LEMMA OneMore ==
    ASSUME NEW S, IsFiniteSet(S), NEW x, NEW T \in SUBSET (S \union {x})
    PROVE  Cardinality(T) <= Cardinality(S) + 1
<1>1. /\ IsFiniteSet(S \union {x})
      /\ Cardinality(S \union {x}) \in {Cardinality(S), Cardinality(S) + 1}
  BY FS_AddElement
<1>2. Cardinality(T) <= Cardinality(S \union {x}) /\ IsFiniteSet(T)
  BY <1>1, FS_Subset
<1> QED
  BY <1>1, <1>2, FS_CardinalityType

LEMMA TwoMore ==
    ASSUME NEW S, IsFiniteSet(S), NEW x, NEW y,
           NEW T \in SUBSET (S \union {x, y})
    PROVE  Cardinality(T) <= Cardinality(S) + 2
<1>1. /\ IsFiniteSet(S \union {x}) /\ S \union {x} \in SUBSET (S \union {x})
      /\ T \in SUBSET ((S \union {x}) \union {y})
  BY FS_AddElement
<1>2. /\ Cardinality(T) <= Cardinality(S \union {x}) + 1
      /\ Cardinality(S \union {x}) <= Cardinality(S) + 1
  BY <1>1, OneMore
<1>3. IsFiniteSet(T)
  BY <1>1, FS_AddElement, FS_Subset
<1> QED
  BY <1>1, <1>2, <1>3, FS_CardinalityType

\* How many files are open then.
LEMMA OpenCount ==
    ASSUME NEW files, FilesOK(files), NEW file, NEW line, line.ended \in BOOLEAN
    PROVE  LET new == Appended(files, file, line)
               opened == Cardinality(OpenIn(files))
           IN
           /\ opened \in Nat
           /\ file \notin OpenIn(files) /\ line.ended =>
                 Cardinality(OpenIn(new)) = opened
           /\ file \notin OpenIn(files) /\ ~line.ended =>
                 Cardinality(OpenIn(new)) = opened + 1
           /\ file \in OpenIn(files) /\ line.ended =>
                 Cardinality(OpenIn(new)) = opened - 1
           /\ file \in OpenIn(files) /\ ~line.ended =>
                 Cardinality(OpenIn(new)) = opened
<1> DEFINE new == Appended(files, file, line)
<1>1. \A f \in DOMAIN files : LineList(files[f])
  BY DEF FilesOK
<1>2. \A f \in DOMAIN new : LineList(new[f])
  BY <1>1, AppendedFacts
<1>3. PICK n : \/ /\ file \in OpenIn(files)
                  /\ n = Len(files[file])
                  /\ Spoils(new, files, file, n, line.ended)
               \/ /\ file \notin OpenIn(files)
                  /\ Extends(new, files, file, n, line)
  BY <1>1, AppendedFacts
<1> HIDE DEF new
<1>4. IsFiniteSet(OpenIn(files))
  <2>1. OpenIn(files) \subseteq DOMAIN files /\ IsFiniteSet(DOMAIN files)
    BY DEF OpenIn, FilesOK
  <2> QED
    BY <2>1, FS_Subset
<1>5. /\ Cardinality(OpenIn(files)) \in Nat
      /\ file \notin OpenIn(files) =>
            Cardinality(OpenIn(files) \union {file}) = Cardinality(OpenIn(files)) + 1
      /\ file \in OpenIn(files) =>
            Cardinality(OpenIn(files) \ {file}) = Cardinality(OpenIn(files)) - 1
  BY <1>4, FS_CardinalityType, FS_AddElement, FS_RemoveElement
<1>6. CASE file \in OpenIn(files)
  <2>1. Spoils(new, files, file, n, line.ended)
    BY <1>3, <1>6
  <2>2. /\ line.ended => OpenIn(new) = OpenIn(files) \ {file}
        /\ ~line.ended => OpenIn(new) = OpenIn(files)
    <3>1. CASE line.ended
      <4>1. OpenIn(new) = OpenIn(files) \ {file}
        BY <1>1, <1>2, <1>6, <2>1, <3>1, SpoilsCounts
      <4> QED
        BY <3>1, <4>1
    <3>2. CASE ~line.ended
      <4>1. Spoils(new, files, file, n, FALSE)
        <5>1. line.ended = FALSE
          BY <3>2
        <5> QED
          BY <2>1, <5>1
      <4>2. FALSE \in BOOLEAN /\ ~FALSE
        OBVIOUS
      <4>3. OpenIn(new) = OpenIn(files)
        BY <1>1, <1>2, <1>6, <4>1, <4>2, SpoilsCounts
      <4> QED
        BY <3>2, <4>3
    <3> QED
      BY <3>1, <3>2
  <2> QED
    BY <1>5, <1>6, <2>2 DEF new
<1>7. CASE file \notin OpenIn(files)
  <2>1. Extends(new, files, file, n, line)
    BY <1>3, <1>7
  <2>2. /\ line.ended => OpenIn(new) = OpenIn(files)
        /\ ~line.ended => OpenIn(new) = OpenIn(files) \union {file}
    <3>1. CASE line.ended
      <4>1. OpenIn(new) = OpenIn(files)
        BY <1>1, <1>2, <1>7, <2>1, <3>1, ExtendsCounts
      <4> QED
        BY <3>1, <4>1
    <3>2. CASE ~line.ended
      <4>1. OpenIn(new) = OpenIn(files) \union {file}
        BY <1>1, <1>2, <1>7, <2>1, <3>2, ExtendsCounts, ZenonT(60)
      <4> QED
        BY <3>2, <4>1
    <3> QED
      BY <3>1, <3>2
  <2> QED
    BY <1>5, <1>7, <2>2 DEF new
<1> QED
  BY <1>6, <1>7

\* How many lines are unusable then, and how many entries lost.
LEMMA LostCount ==
    ASSUME NEW files, FilesOK(files), NEW entries, IsFiniteSet(entries),
           NEW file, NEW line, line.ended \in BOOLEAN,
           NEW kept \in {entries, Kept(entries, line.entry)},
           Usable(line, Us) => kept = Kept(entries, line.entry)
    PROVE  LET new == Appended(files, file, line)
               last == files[file][Len(files[file])]
               lost == Cardinality(LostIds(entries, files))
               bad == Cardinality(BadIn(files))
               lost2 == Cardinality(LostIds(kept, new))
               bad2 == Cardinality(BadIn(new))
           IN
           /\ lost \in Nat /\ bad \in Nat /\ lost2 \in Nat
           /\ IF file \in OpenIn(files)
              THEN /\ Usable(last, Us) => bad2 = bad + 1 /\ lost2 <= lost + 2
                   /\ ~Usable(last, Us) => bad2 = bad /\ lost2 <= lost + 1
                   /\ BadIn(new) # {}
              ELSE /\ ~Usable(line, Us) => /\ bad2 = bad + 1 /\ lost2 <= lost + 1
                                           /\ BadIn(new) # {}
                   /\ Usable(line, Us) =>
                         /\ bad2 = bad /\ lost2 <= lost
                         /\ BadIn(new) = BadIn(files)
                         /\ \A e \in kept \ LatestEntries(new, Us) :
                               e \in entries \ LatestEntries(files, Us)
<1> DEFINE new == Appended(files, file, line)
           last == files[file][Len(files[file])]
           fewer == LostIds(entries, files)
           more == LostIds(kept, new)
<1>1. \A f \in DOMAIN files : LineList(files[f])
  BY DEF FilesOK
<1>2. \A f \in DOMAIN new : LineList(new[f])
  BY <1>1, AppendedFacts
<1>3. PICK n : \/ /\ file \in OpenIn(files)
                  /\ n = Len(files[file])
                  /\ Spoils(new, files, file, n, line.ended)
               \/ /\ file \notin OpenIn(files)
                  /\ Extends(new, files, file, n, line)
  BY <1>1, AppendedFacts
<1> HIDE DEF new
<1>4. IsFiniteSet(kept)
  <2>1. IsFiniteSet({x \in entries : x.id # line.entry.id})
    BY FS_Subset
  <2>2. IsFiniteSet(Kept(entries, line.entry))
    BY <2>1, FS_AddElement DEF Kept
  <2> QED
    BY <2>2
<1>5. IsFiniteSet(fewer) /\ IsFiniteSet(more)
  <2>1. /\ IsFiniteSet(entries \ LatestEntries(files, Us))
        /\ IsFiniteSet(kept \ LatestEntries(new, Us))
    BY <1>4, FS_Subset
  <2> QED
    BY <2>1, IdsFinite DEF LostIds
<1>6. IsFiniteSet(BadIn(files))
  BY DEF FilesOK
<1>7. /\ Cardinality(fewer) \in Nat /\ Cardinality(more) \in Nat
      /\ Cardinality(BadIn(files)) \in Nat
  BY <1>5, <1>6, FS_CardinalityType
<1>8. \A x \in kept : x = line.entry \/ x \in entries
  BY DEF Kept
<1>9. CASE file \in OpenIn(files)
  <2>1. n = Len(files[file]) /\ Spoils(new, files, file, n, line.ended)
    BY <1>3, <1>9
  <2>2. \A e \in LatestEntries(files, Us) :
           \/ e \in LatestEntries(new, Us)
           \/ Usable(last, Us) /\ e.id = last.entry.id
    BY <1>1, <1>2, <2>1, SpoilsEntries
  <2>3. /\ BadIn(new) = BadIn(files) \union {<<file, n>>}
        /\ Usable(last, Us) <=> <<file, n>> \notin BadIn(files)
    BY <1>1, <1>2, <1>9, <2>1, SpoilsCounts
  <2> HIDE DEF last
  <2>4. CASE Usable(last, Us)
    <3>1. more \subseteq fewer \union {line.entry.id, last.entry.id}
      BY <1>8, <2>2 DEF LostIds
    <3>2. Cardinality(more) <= Cardinality(fewer) + 2
      BY <1>5, <3>1, TwoMore
    <3>3. Cardinality(BadIn(new)) = Cardinality(BadIn(files)) + 1
      BY <1>6, <2>3, <2>4, FS_AddElement
    <3> QED
      BY <1>7, <1>9, <2>3, <2>4, <3>2, <3>3 DEF last, new
  <2>5. CASE ~Usable(last, Us)
    <3>1. more \subseteq fewer \union {line.entry.id}
      BY <1>8, <2>2, <2>5 DEF LostIds
    <3>2. Cardinality(more) <= Cardinality(fewer) + 1
      BY <1>5, <3>1, OneMore
    <3>3. Cardinality(BadIn(new)) = Cardinality(BadIn(files))
      BY <1>6, <2>3, <2>5, FS_AddElement
    <3> QED
      BY <1>7, <1>9, <2>3, <2>5, <3>2, <3>3 DEF last, new
  <2> QED
    BY <2>4, <2>5
<1>10. CASE file \notin OpenIn(files)
  <2>1. Extends(new, files, file, n, line)
    BY <1>3, <1>10
  <2>2. /\ \A e \in LatestEntries(files, Us) :
              \/ e \in LatestEntries(new, Us)
              \/ Usable(line, Us) /\ e.id = line.entry.id
        /\ Usable(line, Us) => line.entry \in LatestEntries(new, Us)
    BY <1>1, <1>2, <2>1, ExtendsEntries
  <2>3. /\ Usable(line, Us) => BadIn(new) = BadIn(files)
        /\ ~Usable(line, Us) => BadIn(new) = BadIn(files) \union {<<file, n + 1>>}
        /\ <<file, n + 1>> \notin BadIn(files)
    BY <1>1, <1>2, <1>10, <2>1, ExtendsCounts
  <2>4. CASE ~Usable(line, Us)
    <3>1. more \subseteq fewer \union {line.entry.id}
      BY <1>8, <2>2, <2>4 DEF LostIds
    <3>2. Cardinality(more) <= Cardinality(fewer) + 1
      BY <1>5, <3>1, OneMore
    <3>3. Cardinality(BadIn(new)) = Cardinality(BadIn(files)) + 1
      BY <1>6, <2>3, <2>4, FS_AddElement
    <3> QED
      BY <1>7, <1>10, <2>3, <2>4, <3>2, <3>3 DEF new
  <2>5. CASE Usable(line, Us)
    <3>1. \A x \in kept : \/ x = line.entry
                          \/ x \in entries /\ x.id # line.entry.id
      BY <2>5 DEF Kept
    <3>2. \A x \in kept \ LatestEntries(new, Us) :
             x \in entries \ LatestEntries(files, Us)
      BY <2>2, <2>5, <3>1
    <3>3. more \subseteq fewer
      BY <3>2 DEF LostIds
    <3>4. Cardinality(more) <= Cardinality(fewer)
      BY <1>5, <3>3, FS_Subset
    <3> QED
      BY <1>7, <1>10, <2>3, <2>5, <3>2, <3>4 DEF new
  <2> QED
    BY <2>4, <2>5
<1> QED
  BY <1>9, <1>10

\* The bound stays when a line is written, with one more cut short unless it
\* was ended.
LEMMA WriteBounded ==
    ASSUME NEW files, FilesOK(files), NEW entries, IsFiniteSet(entries),
           NEW cut \in Nat, LossBounded(files, entries, cut),
           NEW file, NEW line, line.ended \in BOOLEAN,
           NEW kept \in {entries, Kept(entries, line.entry)},
           Usable(line, Us) => kept = Kept(entries, line.entry),
           NEW later, later = IF line.ended THEN cut ELSE cut + 1
    PROVE  LossBounded(Appended(files, file, line), kept, later)
<1> DEFINE new == Appended(files, file, line)
           last == files[file][Len(files[file])]
           lost == Cardinality(LostIds(entries, files))
           lost2 == Cardinality(LostIds(kept, new))
           opened == Cardinality(OpenIn(files))
           opened2 == Cardinality(OpenIn(new))
           bad == Cardinality(BadIn(files))
           bad2 == Cardinality(BadIn(new))
<1>1. /\ opened \in Nat
      /\ file \notin OpenIn(files) /\ line.ended => opened2 = opened
      /\ file \notin OpenIn(files) /\ ~line.ended => opened2 = opened + 1
      /\ file \in OpenIn(files) /\ line.ended => opened2 = opened - 1
      /\ file \in OpenIn(files) /\ ~line.ended => opened2 = opened
  BY OpenCount
<1>2. /\ lost \in Nat /\ bad \in Nat /\ lost2 \in Nat
      /\ IF file \in OpenIn(files)
         THEN /\ Usable(last, Us) => bad2 = bad + 1 /\ lost2 <= lost + 2
              /\ ~Usable(last, Us) => bad2 = bad /\ lost2 <= lost + 1
              /\ BadIn(new) # {}
         ELSE /\ ~Usable(line, Us) => /\ bad2 = bad + 1 /\ lost2 <= lost + 1
                                      /\ BadIn(new) # {}
              /\ Usable(line, Us) =>
                    /\ bad2 = bad /\ lost2 <= lost
                    /\ BadIn(new) = BadIn(files)
                    /\ \A e \in kept \ LatestEntries(new, Us) :
                          e \in entries \ LatestEntries(files, Us)
  BY LostCount
<1>3. lost + opened <= bad + cut
  BY DEF LossBounded
<1> HIDE DEF new, last, lost, lost2, opened, opened2, bad, bad2
<1>4. lost2 + opened2 <= bad2 + later
  <2>1. CASE file \in OpenIn(files) /\ line.ended
    BY <1>1, <1>2, <1>3, <2>1
  <2>2. CASE file \in OpenIn(files) /\ ~line.ended
    BY <1>1, <1>2, <1>3, <2>2
  <2>3. CASE file \notin OpenIn(files) /\ line.ended
    BY <1>1, <1>2, <1>3, <2>3
  <2>4. CASE file \notin OpenIn(files) /\ ~line.ended
    BY <1>1, <1>2, <1>3, <2>4
  <2> QED
    BY <2>1, <2>2, <2>3, <2>4
<1>5. BadIn(new) = {} => kept \subseteq LatestEntries(new, Us)
  <2> SUFFICES ASSUME BadIn(new) = {}
               PROVE  kept \subseteq LatestEntries(new, Us)
    OBVIOUS
  <2>1. /\ BadIn(files) = {}
        /\ \A e \in kept \ LatestEntries(new, Us) :
              e \in entries \ LatestEntries(files, Us)
    BY <1>2
  <2>2. entries \subseteq LatestEntries(files, Us)
    BY <2>1 DEF LossBounded
  <2> QED
    BY <2>1, <2>2
<1> QED
  BY <1>4, <1>5 DEF LossBounded, new, lost2, opened2, bad2

-----------------------------------------------------------------------------
(* What the steps of a worker leave it holding.                            *)

LEMMA SeqOfMore ==
    ASSUME NEW S, NEW T, S \subseteq T, NEW s \in Seq(S)
    PROVE  s \in Seq(T)
OBVIOUS

LEMMA OfAProcess ==
    /\ {"pid", "hook", "draft", "completed", "tasks", "write"} \subseteq ProcessFields
    /\ "id" \in DraftFields /\ "id" \in EntryFields
BY DEF ProcessFields, DraftFields, EntryFields

\* Only these matter.
LEMMA SameHolds ==
    ASSUME NEW p, NEW ids, NEW soon, Holds(p, ids, soon),
           NEW q, DOMAIN q = ProcessFields, q.draft = p.draft,
           q.completed = p.completed, q.write = p.write, q.tasks = p.tasks
    PROVE  Holds(q, ids, soon)
BY DEF Holds

LEMMA MoreHolds ==
    ASSUME NEW p, NEW ids, NEW soon, Holds(p, ids, soon),
           NEW more, ids \subseteq more
    PROVE  Holds(p, more, soon)
BY DEF Holds, OneOf

LEMMA AdvanceHolds ==
    ASSUME NEW p, NEW ids, NEW soon, Holds(p, ids, soon)
    PROVE  Holds(Advance(p), ids, soon) /\ Advance(p).pid = p.pid
<1>1. DOMAIN p = ProcessFields
  BY DEF Holds
<1>2. /\ DOMAIN Advance(p) = ProcessFields
      /\ Advance(p).pid = p.pid /\ Advance(p).draft = p.draft
      /\ Advance(p).completed = p.completed /\ Advance(p).write = p.write
      /\ Advance(p).tasks = p.tasks
  BY <1>1, OfAProcess DEF Advance
<1> QED
  BY <1>2, SameHolds

LEMMA ResetHolds ==
    ASSUME NEW p, NEW ids, NEW soon, Holds(p, ids, soon)
    PROVE  Holds(ResetWorkerState(p), ids, soon) /\ ResetWorkerState(p).pid = p.pid
<1> DEFINE q == ResetWorkerState(p)
<1>1. DOMAIN p = ProcessFields
  BY DEF Holds
<1>2. /\ DOMAIN q = ProcessFields
      /\ q.pid = p.pid /\ q.draft = p.draft
      /\ q.completed = p.completed /\ q.write = p.write
      /\ q.tasks = p.tasks
  BY <1>1, OfAProcess DEF ResetWorkerState
<1> HIDE DEF q
<1>3. Holds(q, ids, soon)
  BY <1>2, SameHolds
<1> QED
  BY <1>2, <1>3 DEF q

LEMMA ContinueHolds ==
    ASSUME NEW p, NEW ids, NEW soon, Holds(p, ids, soon), NEW then
    PROVE  Holds(Continue(p, then), ids, soon) /\ Continue(p, then).pid = p.pid
<1>1. CASE then = "next"
  BY <1>1, AdvanceHolds DEF Continue
<1>2. CASE then = "reset"
  BY <1>2, ResetHolds DEF Continue
<1>3. CASE then \notin {"next", "reset"}
  <2> DEFINE q == [p EXCEPT !.hook = then]
  <2>1. Continue(p, then) = q
    BY <1>3 DEF Continue
  <2>2. DOMAIN p = ProcessFields
    BY DEF Holds
  <2>3. /\ DOMAIN q = ProcessFields
        /\ q.pid = p.pid /\ q.draft = p.draft
        /\ q.completed = p.completed /\ q.write = p.write
        /\ q.tasks = p.tasks
    BY <2>2, OfAProcess
  <2> HIDE DEF q
  <2>4. Holds(q, ids, soon)
    BY <2>3, SameHolds
  <2> QED
    BY <2>1, <2>3, <2>4
<1> QED
  BY <1>1, <1>2, <1>3

\* An entry that is to be written is among those the worker keeps.
LEMMA JournaledHolds ==
    ASSUME NEW p, NEW ids, NEW soon, Holds(p, ids, soon),
           NEW entry, OneOf(entry, ids), soon \subseteq {entry.id}, NEW then
    PROVE  /\ Holds(Journaled(p, entry, then), ids, {})
           /\ Journaled(p, entry, then).pid = p.pid
<1> DEFINE q == Journaled(p, entry, then)
<1>1. DOMAIN p = ProcessFields
  BY DEF Holds
<1>2. /\ DOMAIN q = ProcessFields
      /\ q.pid = p.pid /\ q.draft = p.draft
      /\ q.completed = Kept(p.completed, entry) /\ q.write = entry
      /\ q.tasks = p.tasks
  BY <1>1, OfAProcess DEF Journaled
<1> HIDE DEF q
<1>3. \A e \in q.completed : OneOf(e, ids)
  BY <1>2 DEF Holds, Kept
<1>4. {e.id : e \in p.completed} \union soon \subseteq
         {e.id : e \in q.completed} \union {}
  <2> SUFFICES ASSUME NEW e \in p.completed
               PROVE  e.id \in {x.id : x \in Kept(p.completed, entry)}
    <3>1. entry.id \in {x.id : x \in Kept(p.completed, entry)}
      BY DEF Kept
    <3> QED
      BY <1>2, <3>1
  <2>1. CASE e.id = entry.id
    BY <2>1 DEF Kept
  <2>2. CASE e.id # entry.id
    BY <2>2 DEF Kept
  <2> QED
    BY <2>1, <2>2
<1>5. q.tasks \in Seq({e.id : e \in q.completed} \union {})
  BY <1>2, <1>4, SeqOfMore DEF Holds
<1>6. Holds(q, ids, {})
  BY <1>2, <1>3, <1>5 DEF Holds
<1> QED
  BY <1>2, <1>6 DEF q

LEMMA BuildsOne ==
    ASSUME NEW draft, NEW options, NEW result, NEW ids, draft.id \in ids
    PROVE  /\ OneOf(BuildEntry(draft, options, result), ids)
           /\ BuildEntry(draft, options, result).id = draft.id
<1>1. DOMAIN BuildEntry(draft, options, result) = EntryFields
  BY DEF BuildEntry, EntryFields
<1>2. BuildEntry(draft, options, result).id = draft.id
  BY DEF BuildEntry
<1> QED
  BY <1>1, <1>2 DEF OneOf

LEMMA CompletesOne ==
    ASSUME NEW p, NEW ids, NEW soon, Holds(p, ids, soon),
           NEW options, NEW result, NEW then,
           soon = {} \/ (p.draft # NoDraft /\ soon \subseteq {p.draft.id})
    PROVE  /\ Holds(CompleteCurrent(p, options, result, then), ids, {})
           /\ CompleteCurrent(p, options, result, then).pid = p.pid
<1>1. CASE p.draft = NoDraft
  <2>1. soon = {}
    BY <1>1
  <2>2. CompleteCurrent(p, options, result, then) = Continue(p, then)
    BY <1>1 DEF CompleteCurrent
  <2> QED
    BY <2>1, <2>2, ContinueHolds
<1>2. CASE p.draft # NoDraft
  <2> DEFINE q == [p EXCEPT !.draft = NoDraft, !.last = p.draft.id]
             entry == BuildEntry(p.draft, options,
                                 CombineResults({p.draft.result, result}))
  <2>1. CompleteCurrent(p, options, result, then) = Journaled(q, entry, then)
    BY <1>2 DEF CompleteCurrent
  <2>2. OneOf(entry, ids) /\ entry.id = p.draft.id
    BY <1>2, BuildsOne DEF Holds
  <2>3. DOMAIN p = ProcessFields
    BY DEF Holds
  <2>4. /\ DOMAIN q = ProcessFields /\ q.pid = p.pid /\ q.draft = NoDraft
        /\ q.completed = p.completed /\ q.write = p.write /\ q.tasks = p.tasks
    BY <2>3, OfAProcess
  <2> HIDE DEF q, entry
  <2>5. Holds(q, ids, soon)
    BY <2>4 DEF Holds
  <2>6. soon \subseteq {entry.id}
    BY <2>2
  <2> QED
    BY <2>1, <2>2, <2>4, <2>5, <2>6, JournaledHolds
<1> QED
  BY <1>1, <1>2

LEMMA SkippedHolds ==
    ASSUME NEW p, NEW ids, Holds(p, ids, {}), NEW reason
    PROVE  Holds(Skipped(p, reason), ids, {}) /\ Skipped(p, reason).pid = p.pid
<1>1. CASE p.already
  BY <1>1, ContinueHolds DEF Skipped
<1>2. CASE ~p.already
  BY <1>2, CompletesOne DEF Skipped
<1> QED
  BY <1>1, <1>2

LEMMA AttemptedHolds ==
    ASSUME NEW ids, Holds(process, ids, {})
    PROVE  Holds(Attempted, ids, {}) /\ Attempted.pid = process.pid
<1> DEFINE d == process.draft
           e == IF d = NoDraft THEN NoDraft ELSE [d EXCEPT !.attempt = Retry + 1]
<1>1. DOMAIN process = ProcessFields
  BY DEF Holds
<1>2. Attempted = [process EXCEPT !.seen = Append(@, RetryTrackingKey(Current)),
                                  !.draft = e]
  BY DEF Attempted
<1>3. /\ DOMAIN Attempted = ProcessFields /\ Attempted.pid = process.pid
      /\ Attempted.draft = e
      /\ Attempted.completed = process.completed
      /\ Attempted.write = process.write /\ Attempted.tasks = process.tasks
  BY <1>1, <1>2, OfAProcess
<1>4. e # NoDraft => DOMAIN e = DraftFields /\ e.id \in ids
  <2>1. CASE d = NoDraft
    BY <2>1
  <2>2. CASE d # NoDraft
    <3>1. DOMAIN d = DraftFields /\ d.id \in ids
      BY <2>2 DEF Holds
    <3>2. e = [d EXCEPT !.attempt = Retry + 1]
      BY <2>2
    <3> HIDE DEF e
    <3>3. DOMAIN e = DraftFields
      BY <3>1, <3>2
    <3>4. e.id = d.id
      BY <3>1, <3>2, OfAProcess
    <3> QED
      BY <3>1, <3>3, <3>4
  <2> QED
    BY <2>1, <2>2
<1> HIDE DEF e
<1> QED
  BY <1>3, <1>4 DEF Holds

LEMMA ResultHolds ==
    ASSUME NEW p, NEW ids, Holds(p, ids, {}), NEW result, NEW then
    PROVE  /\ Holds(RecordResult(p, result, then), ids, {})
           /\ RecordResult(p, result, then).pid = p.pid
<1> DEFINE last == {e \in p.completed : e.id = p.last}
<1>1. CASE p.draft # NoDraft
  <2> DEFINE d == [p.draft EXCEPT !.result = CombineResults({@, result})]
             q == [p EXCEPT !.draft = d]
  <2>0. /\ DOMAIN p = ProcessFields
        /\ DOMAIN p.draft = DraftFields /\ p.draft.id \in ids
    BY <1>1 DEF Holds
  <2>1. RecordResult(p, result, then) = Continue(q, then)
    BY <1>1 DEF RecordResult
  <2>2. DOMAIN d = DraftFields /\ d.id \in ids
    BY <2>0, OfAProcess
  <2> HIDE DEF d
  <2>3. /\ DOMAIN q = ProcessFields /\ q.pid = p.pid /\ q.draft = d
        /\ q.completed = p.completed /\ q.write = p.write /\ q.tasks = p.tasks
    BY <2>0, OfAProcess
  <2> HIDE DEF q
  <2>4. Holds(q, ids, {})
    BY <2>2, <2>3 DEF Holds
  <2> QED
    BY <2>1, <2>3, <2>4, ContinueHolds
<1>2. CASE p.draft = NoDraft /\ last # {}
  <2> DEFINE entry == CHOOSE e \in last : TRUE
             written == [entry EXCEPT !.result = CombineResults({@, result}),
                                      !.covers = @ \cup {Execution}]
  <2>1. RecordResult(p, result, then) = Journaled(p, written, then)
    BY <1>2 DEF RecordResult
  <2>2. entry \in p.completed
    BY <1>2
  <2> HIDE DEF entry
  <2>3. OneOf(entry, ids)
    BY <2>2 DEF Holds
  <2>4. DOMAIN written = EntryFields /\ written.id = entry.id
    BY <2>3, OfAProcess DEF OneOf
  <2> HIDE DEF written
  <2>5. OneOf(written, ids)
    BY <2>3, <2>4 DEF OneOf
  <2> QED
    BY <2>1, <2>5, JournaledHolds
<1>3. CASE p.draft = NoDraft /\ last = {}
  <2>1. RecordResult(p, result, then) = Continue(p, then)
    BY <1>3 DEF RecordResult
  <2> QED
    BY <2>1, ContinueHolds
<1> QED
  BY <1>1, <1>2, <1>3

LEMMA FinalizedHolds ==
    ASSUME NEW p, NEW ids, Holds(p, ids, {}), NEW passed, NEW result,
           NEW media, NEW then
    PROVE  /\ Holds(Finalized(p, passed, result, media, then), ids, {})
           /\ Finalized(p, passed, result, media, then).pid = p.pid
<1>1. PICK options, deferred :
         /\ deferred => p.draft # NoDraft
         /\ Finalized(p, passed, result, media, then) =
               CompleteCurrent(
                   [p EXCEPT !.recording = None, !.active = 0,
                             !.tasks = IF deferred THEN Append(@, p.draft.id)
                                       ELSE @],
                   options, result, then)
  BY DEF Finalized
<1> DEFINE q == [p EXCEPT !.recording = None, !.active = 0,
                          !.tasks = IF deferred THEN Append(@, p.draft.id)
                                    ELSE @]
<1>2. DOMAIN p = ProcessFields
  BY DEF Holds
<1>3. /\ DOMAIN q = ProcessFields /\ q.pid = p.pid /\ q.draft = p.draft
      /\ q.completed = p.completed /\ q.write = p.write
      /\ q.tasks = IF deferred THEN Append(p.tasks, p.draft.id) ELSE p.tasks
  BY <1>2, OfAProcess
<1>6. /\ deferred => p.draft # NoDraft
      /\ Finalized(p, passed, result, media, then) =
            CompleteCurrent(q, options, result, then)
  BY <1>1
<1> HIDE DEF q
<1>4. CASE deferred
  <2>1. q.tasks \in Seq({e.id : e \in p.completed} \union {p.draft.id})
    <3> DEFINE some == {e.id : e \in p.completed}
    <3>1. p.tasks \in Seq(some \union {})
      BY DEF Holds
    <3>2. q.tasks = Append(p.tasks, p.draft.id)
      BY <1>3, <1>4
    <3> HIDE DEF some
    <3>3. p.tasks \in Seq(some \union {p.draft.id})
      BY <3>1, SeqOfMore
    <3>4. q.tasks \in Seq(some \union {p.draft.id})
      BY <3>2, <3>3, AppendProperties
    <3> QED
      BY <3>4 DEF some
  <2>2. Holds(q, ids, {p.draft.id})
    BY <1>3, <2>1 DEF Holds
  <2> QED
    BY <1>3, <1>4, <1>6, <2>2, CompletesOne
<1>5. CASE ~deferred
  <2>1. Holds(q, ids, {})
    BY <1>3, <1>5 DEF Holds
  <2> QED
    BY <1>3, <1>6, <2>1, CompletesOne
<1> QED
  BY <1>4, <1>5

\* A step that begins no entry.
Carries(ids) ==
    /\ process # NoWorker
    /\ Holds(process', ids, {}) /\ process'.pid = process.pid
    /\ nextId' = nextId

LEMMA JoinCarries ==
    ASSUME NEW ids, process # NoWorker => Holds(process, ids, {}), JoinSpecEntry
    PROVE  Carries(ids)
<1> DEFINE d == [process.draft EXCEPT !.covers = @ \cup {Execution}]
<1>1. /\ process # NoWorker /\ process.draft # NoDraft /\ nextId' = nextId
      /\ process' = [process EXCEPT !.already = TRUE, !.draft = d,
                                    !.hook = "eligible"]
  BY DEF JoinSpecEntry, NoWorker
<1>2. /\ Holds(process, ids, {}) /\ DOMAIN process = ProcessFields
      /\ DOMAIN process.draft = DraftFields /\ process.draft.id \in ids
  BY <1>1 DEF Holds
<1>3. DOMAIN d = DraftFields /\ d.id \in ids
  BY <1>2, OfAProcess
<1> HIDE DEF d
<1>4. /\ DOMAIN process' = ProcessFields /\ process'.pid = process.pid
      /\ process'.draft = d /\ process'.completed = process.completed
      /\ process'.write = process.write /\ process'.tasks = process.tasks
  BY <1>1, <1>2, OfAProcess
<1>5. Holds(process', ids, {})
  BY <1>2, <1>3, <1>4 DEF Holds
<1> QED
  BY <1>1, <1>4, <1>5 DEF Carries

LEMMA SkipsCarry ==
    ASSUME NEW ids, process # NoWorker => Holds(process, ids, {}),
           SkipIneligible \/ SkipFirstAttempt
    PROVE  Carries(ids)
<1>1. process # NoWorker /\ nextId' = nextId
  BY DEF SkipIneligible, SkipFirstAttempt, Eligible, NoWorker
<1>2. Holds(process, ids, {})
  BY <1>1
<1>3. CASE SkipIneligible
  <2>1. PICK reason : process' = Skipped(process, reason)
    BY <1>3 DEF SkipIneligible
  <2> QED
    BY <1>1, <1>2, <2>1, SkippedHolds DEF Carries
<1>4. CASE SkipFirstAttempt
  <2>1. process' = Skipped(Attempted, "first-attempt")
    BY <1>4 DEF SkipFirstAttempt
  <2>2. Holds(Attempted, ids, {}) /\ Attempted.pid = process.pid
    BY <1>2, AttemptedHolds
  <2> QED
    BY <1>1, <2>1, <2>2, SkippedHolds DEF Carries
<1> QED
  BY <1>3, <1>4

LEMMA AttemptsCarry ==
    ASSUME NEW ids, process # NoWorker => Holds(process, ids, {}),
           NEW disables, ContinueSpec \/ StartRecording \/ StartFails(disables)
    PROVE  Carries(ids)
<1>1. process # NoWorker /\ nextId' = nextId
  BY DEF ContinueSpec, StartRecording, StartFails, Eligible, NoWorker
<1>2. Holds(Attempted, ids, {}) /\ Attempted.pid = process.pid
  BY <1>1, AttemptedHolds
<1>3. DOMAIN Attempted = ProcessFields
  BY <1>2 DEF Holds
<1>4. CASE ContinueSpec
  <2>1. PICK active :
           process' = [Attempted EXCEPT !.active = active, !.hook = "test"]
    BY <1>4 DEF ContinueSpec
  <2>2. /\ DOMAIN process' = ProcessFields /\ process'.pid = Attempted.pid
        /\ process'.draft = Attempted.draft
        /\ process'.completed = Attempted.completed
        /\ process'.write = Attempted.write /\ process'.tasks = Attempted.tasks
    BY <1>3, <2>1, OfAProcess
  <2> QED
    BY <1>1, <1>2, <2>2, SameHolds DEF Carries
<1>5. CASE StartRecording
  <2>1. process' = [Attempted EXCEPT !.recording = Execution, !.active = Retry,
                                     !.hook = "test"]
    BY <1>5 DEF StartRecording
  <2>2. /\ DOMAIN process' = ProcessFields /\ process'.pid = Attempted.pid
        /\ process'.draft = Attempted.draft
        /\ process'.completed = Attempted.completed
        /\ process'.write = Attempted.write /\ process'.tasks = Attempted.tasks
    BY <1>3, <2>1, OfAProcess
  <2> QED
    BY <1>1, <1>2, <2>2, SameHolds DEF Carries
<1>6. CASE StartFails(disables)
  <2> DEFINE q == [Attempted EXCEPT
                      !.recording = None, !.active = 0,
                      !.reason = IF disables THEN "no-connection" ELSE @]
  <2>1. PICK options : process' = CompleteCurrent(q, options, "unknown", "test")
    BY <1>6 DEF StartFails
  <2>2. /\ DOMAIN q = ProcessFields /\ q.pid = Attempted.pid
        /\ q.draft = Attempted.draft /\ q.completed = Attempted.completed
        /\ q.write = Attempted.write /\ q.tasks = Attempted.tasks
    BY <1>3, OfAProcess
  <2> HIDE DEF q
  <2>3. Holds(q, ids, {})
    BY <1>2, <2>2, SameHolds
  <2> QED
    BY <1>1, <1>2, <2>1, <2>2, <2>3, CompletesOne DEF Carries
<1> QED
  BY <1>4, <1>5, <1>6

LEMMA TestCarries ==
    ASSUME NEW ids, process # NoWorker => Holds(process, ids, {}),
           NEW result, NEW chromium, RunTest(result) \/ ReloadSession(chromium)
    PROVE  Carries(ids)
<1>1. process # NoWorker /\ nextId' = nextId
  BY DEF RunTest, ReloadSession, NoWorker
<1>2. Holds(process, ids, {}) /\ DOMAIN process = ProcessFields
  BY <1>1 DEF Holds
<1>3. /\ DOMAIN process' = ProcessFields /\ process'.pid = process.pid
      /\ process'.draft = process.draft
      /\ process'.completed = process.completed
      /\ process'.write = process.write /\ process'.tasks = process.tasks
  <2>1. CASE RunTest(result)
    <3>1. PICK outcomes : process' = [process EXCEPT !.result = result,
                                         !.outcomes = outcomes,
                                         !.hook = "result"]
      BY <2>1 DEF RunTest
    <3> QED
      BY <1>2, <3>1, OfAProcess
  <2>2. CASE ReloadSession(chromium)
    BY <1>2, <2>2, OfAProcess DEF ReloadSession
  <2> QED
    BY <2>1, <2>2
<1> QED
  BY <1>1, <1>2, <1>3, SameHolds DEF Carries

LEMMA EndCarries ==
    ASSUME NEW ids, process # NoWorker => Holds(process, ids, {}), EndEntity
    PROVE  Carries(ids)
<1>1. process # NoWorker /\ nextId' = nextId
  BY DEF EndEntity, NoWorker
<1>2. Holds(process, ids, {}) /\ DOMAIN process = ProcessFields
  BY <1>1 DEF Holds
<1>3. CASE process' = Advance(process)
  BY <1>1, <1>2, <1>3, AdvanceHolds DEF Carries
<1>4. CASE process' # Advance(process)
  <2>1. PICK failed : process' = RecordResult([process EXCEPT !.failed = failed],
                                    TestOutcome.manifestResult, "finalize")
    BY <1>4 DEF EndEntity
  <2> DEFINE q == [process EXCEPT !.failed = failed]
  <2>2. /\ DOMAIN q = ProcessFields /\ q.pid = process.pid
        /\ q.draft = process.draft /\ q.completed = process.completed
        /\ q.write = process.write /\ q.tasks = process.tasks
    BY <1>2, OfAProcess
  <2>3. process' = RecordResult(q, TestOutcome.manifestResult, "finalize")
    BY <2>1
  <2> HIDE DEF q
  <2>4. Holds(q, ids, {})
    BY <1>2, <2>2, SameHolds
  <2> QED
    BY <1>1, <2>2, <2>3, <2>4, ResultHolds DEF Carries
<1> QED
  BY <1>3, <1>4

LEMMA MediaCarries ==
    ASSUME NEW ids, process # NoWorker => Holds(process, ids, {}),
           NEW media, FinalizeTest(media) \/ Teardown(media)
    PROVE  Carries(ids)
<1>1. process # NoWorker /\ nextId' = nextId
  BY DEF FinalizeTest, Teardown, NoWorker
<1>2. Holds(process, ids, {}) /\ DOMAIN process = ProcessFields
  BY <1>1 DEF Holds
<1>3. \/ \E passed, result, then :
            process' = Finalized(process, passed, result, media, then)
      \/ process' = Advance(process)
      \/ process' = [process EXCEPT !.recording = None, !.active = 0,
                                    !.hook = "flush"]
  BY DEF FinalizeTest, Teardown
<1>4. CASE \E passed, result, then :
              process' = Finalized(process, passed, result, media, then)
  BY <1>1, <1>2, <1>4, FinalizedHolds DEF Carries
<1>5. CASE process' = Advance(process)
  BY <1>1, <1>2, <1>5, AdvanceHolds DEF Carries
<1>6. CASE process' = [process EXCEPT !.recording = None, !.active = 0,
                                      !.hook = "flush"]
  <2>1. /\ DOMAIN process' = ProcessFields /\ process'.pid = process.pid
        /\ process'.draft = process.draft
        /\ process'.completed = process.completed
        /\ process'.write = process.write /\ process'.tasks = process.tasks
    BY <1>2, <1>6, OfAProcess
  <2> QED
    BY <1>1, <1>2, <2>1, SameHolds DEF Carries
<1> QED
  BY <1>3, <1>4, <1>5, <1>6

LEMMA DeferredCarries ==
    ASSUME NEW ids, process # NoWorker => Holds(process, ids, {}),
           NEW whole, CompleteDeferred(whole)
    PROVE  Carries(ids)
<1> DEFINE entry == CHOOSE e \in process.completed : e.id = Head(process.tasks)
           q == [process EXCEPT !.tasks = Tail(@)]
<1>1. process # NoWorker /\ nextId' = nextId /\ process.tasks # <<>>
  BY DEF CompleteDeferred, NoWorker
<1>2. Holds(process, ids, {}) /\ DOMAIN process = ProcessFields
  BY <1>1 DEF Holds
<1>3. PICK outcome, decision, operation, reason :
         process' = Journaled(q,
                       [entry EXCEPT !.timing = "after-worker",
                                     !.outcome = outcome, !.decision = decision,
                                     !.operation = operation, !.reason = reason],
                       "flush")
  BY DEF CompleteDeferred
<1> DEFINE written == [entry EXCEPT !.timing = "after-worker",
                                    !.outcome = outcome, !.decision = decision,
                                    !.operation = operation, !.reason = reason]
<1>4. process.tasks \in Seq({e.id : e \in process.completed})
  BY <1>2 DEF Holds
<1>5. /\ Head(process.tasks) \in {e.id : e \in process.completed}
      /\ Tail(process.tasks) \in Seq({e.id : e \in process.completed})
  BY <1>1, <1>4, HeadTailProperties
<1>6. entry \in process.completed
  BY <1>5
<1>7. /\ DOMAIN q = ProcessFields /\ q.pid = process.pid
      /\ q.draft = process.draft /\ q.completed = process.completed
      /\ q.write = process.write /\ q.tasks = Tail(process.tasks)
  BY <1>2, OfAProcess
<1>8. process' = Journaled(q, written, "flush")
  BY <1>3
<1> HIDE DEF entry, q
<1>9. OneOf(entry, ids)
  BY <1>2, <1>6 DEF Holds
<1>10. DOMAIN written = EntryFields /\ written.id = entry.id
  BY <1>9, OfAProcess DEF OneOf
<1> HIDE DEF written
<1>11. OneOf(written, ids)
  BY <1>9, <1>10 DEF OneOf
<1>12. Holds(q, ids, {})
  BY <1>2, <1>5, <1>7 DEF Holds
<1> QED
  BY <1>1, <1>7, <1>8, <1>11, <1>12, JournaledHolds DEF Carries

LEMMA DraftNumbered ==
    ASSUME NEW p, NEW entity
    PROVE  /\ DOMAIN CreateDraft(p, entity) = DraftFields
           /\ CreateDraft(p, entity).id = nextId
BY DEF CreateDraft, DraftFields

\* A step that begins an entry gives it the next number.
Begins(ids) ==
    /\ process # NoWorker
    /\ Holds(process', ids, {}) /\ process'.pid = process.pid
    /\ nextId' = nextId + 1

LEMMA ParallelBegins ==
    ASSUME NEW ids, process # NoWorker => Holds(process, ids, {}),
           NEW more, more = ids \union {nextId}, RecordParallelEntity
    PROVE  Carries(ids) \/ Begins(more)
<1>1. process # NoWorker
  BY DEF RecordParallelEntity, NoWorker
<1>2. Holds(process, ids, {}) /\ DOMAIN process = ProcessFields
  BY <1>1 DEF Holds
<1>3. CASE /\ process' = [process EXCEPT !.hook = "test"]
           /\ nextId' = nextId
  <2>1. /\ DOMAIN process' = ProcessFields /\ process'.pid = process.pid
        /\ process'.draft = process.draft
        /\ process'.completed = process.completed
        /\ process'.write = process.write /\ process'.tasks = process.tasks
    BY <1>2, <1>3, OfAProcess
  <2> QED
    BY <1>1, <1>2, <1>3, <2>1, SameHolds DEF Carries
<1>4. CASE /\ process' = RecordSkippedEntity(
                    [process EXCEPT !.overlapRecorded = TRUE],
                    Parallel, Current.skippedResult, "test")
           /\ nextId' = nextId + 1
  <2>1. PICK begun, p :
           process' = Journaled(
               [[process EXCEPT !.overlapRecorded = TRUE] EXCEPT !.begun = begun],
               BuildEntry(CreateDraft(p, Current), Decline(Parallel),
                          Current.skippedResult), "test")
    BY <1>4 DEF RecordSkippedEntity
  <2> DEFINE q == [[process EXCEPT !.overlapRecorded = TRUE] EXCEPT !.begun = begun]
             entry == BuildEntry(CreateDraft(p, Current), Decline(Parallel),
                                 Current.skippedResult)
  <2>2. /\ DOMAIN q = ProcessFields /\ q.pid = process.pid
        /\ q.draft = process.draft /\ q.completed = process.completed
        /\ q.write = process.write /\ q.tasks = process.tasks
    BY <1>2, OfAProcess
  <2>3. process' = Journaled(q, entry, "test")
    BY <2>1
  <2>4. CreateDraft(p, Current).id \in more
    BY DraftNumbered
  <2>5. OneOf(entry, more)
    BY <2>4, BuildsOne
  <2> HIDE DEF q, entry
  <2>6. Holds(q, ids, {})
    BY <1>2, <2>2, SameHolds
  <2>7. Holds(q, more, {})
    BY <2>6, MoreHolds
  <2> QED
    BY <1>1, <1>4, <2>2, <2>3, <2>5, <2>7, JournaledHolds DEF Begins
<1> QED
  BY <1>3, <1>4 DEF RecordParallelEntity

LEMMA BeginBegins ==
    ASSUME NEW ids, process # NoWorker => Holds(process, ids, {}), nextId \in ids,
           BeginEntity
    PROVE  Begins(ids)
<1> DEFINE draft == CreateDraft(process, Current)
           entry == BuildEntry(draft, Checkpoint, "unknown")
           begun == Append(process.begun, IdentityKey(Current))
           q == [process EXCEPT !.already = FALSE, !.draft = draft,
                                !.begun = begun]
<1>1. /\ process # NoWorker /\ nextId' = nextId + 1
      /\ process' = Journaled(q, entry, "eligible")
  BY DEF BeginEntity, NoWorker
<1>2. Holds(process, ids, {}) /\ DOMAIN process = ProcessFields
  BY <1>1 DEF Holds
<1>3. DOMAIN draft = DraftFields /\ draft.id \in ids
  BY DraftNumbered
<1> HIDE DEF draft
<1>4. OneOf(entry, ids)
  BY <1>3, BuildsOne
<1> HIDE DEF entry, begun
<1>5. /\ DOMAIN q = ProcessFields /\ q.pid = process.pid
      /\ q.draft = draft /\ q.completed = process.completed
      /\ q.write = process.write /\ q.tasks = process.tasks
  BY <1>2, OfAProcess
<1> HIDE DEF q
<1>6. Holds(q, ids, {})
  BY <1>2, <1>3, <1>5 DEF Holds
<1> QED
  BY <1>1, <1>4, <1>5, <1>6, JournaledHolds DEF Begins

\* A worker begins with nothing.
LEMMA StartHolds ==
    ASSUME NEW pid, StartWorker(pid), NEW ids
    PROVE  /\ At(Us, "running") /\ nextId' = nextId
           /\ Holds(process', ids, {})
<1>1. PICK retry : process' = NewProcess(pid, retry)
  BY DEF StartWorker
<1>2. /\ DOMAIN process' = ProcessFields
      /\ process'.draft = NoDraft /\ process'.completed = {}
      /\ process'.write = NoEntry /\ process'.tasks = <<>>
  BY <1>1 DEF NewProcess, ProcessFields
<1>3. <<>> \in Seq({e.id : e \in {}} \union {})
  OBVIOUS
<1>4. Holds(process', ids, {})
  BY <1>2, <1>3 DEF Holds
<1> QED
  BY <1>4 DEF StartWorker

\* Whatever it does without writing, a worker holds numbers it held before, or
\* the next one.
LEMMA WorkerSteps ==
    ASSUME NEW ids, process # NoWorker => Holds(process, ids, {}),
           NEW more, more = ids \union {nextId}, WorkerStep
    PROVE  /\ recorded' = recorded
           /\ faults' \in {faults, faults + 1}
           /\ \/ /\ process # NoWorker /\ process' = NoWorker /\ nextId' = nextId
              \/ /\ process = NoWorker /\ At(Us, "running") /\ nextId' = nextId
                 /\ Holds(process', {}, {})
              \/ Carries(ids)
              \/ Begins(more)
<1> DEFINE Ends == process # NoWorker /\ process' = NoWorker /\ nextId' = nextId
           Starts == /\ process = NoWorker /\ At(Us, "running") /\ nextId' = nextId
                     /\ Holds(process', {}, {})
<1>1. recorded' = recorded
  BY DEF WorkerStep, StartWorker, RecordParallelEntity, JoinSpecEntry,
         BeginEntity, SkipIneligible, SkipFirstAttempt, ContinueSpec,
         StartRecording, StartFails, RunTest, ReloadSession, EndEntity,
         FinalizeTest, Teardown, CompleteDeferred, EndTeardown, ExitWorker
<1>2. faults' \in {faults, faults + 1}
  BY DEF WorkerStep, StartWorker, RecordParallelEntity, JoinSpecEntry,
         BeginEntity, SkipIneligible, SkipFirstAttempt, ContinueSpec,
         StartRecording, StartFails, RunTest, ReloadSession, EndEntity,
         FinalizeTest, Teardown, CompleteDeferred, EndTeardown, ExitWorker,
         Fault
<1>3. Starts \/ Ends \/ Carries(ids) \/ Begins(more)
  <2>1. ASSUME NEW pid \in Pids, StartWorker(pid) PROVE Starts
    <3>1. process = NoWorker
      BY <2>1 DEF StartWorker
    <3> QED
      BY <2>1, <3>1, StartHolds
  <2>2. ASSUME RecordParallelEntity PROVE Carries(ids) \/ Begins(more)
    BY <2>2, ParallelBegins
  <2>3. ASSUME BeginEntity PROVE Begins(more)
    <3>1. process # NoWorker => Holds(process, more, {})
      BY MoreHolds
    <3> QED
      BY <2>3, <3>1, BeginBegins
  <2>4. ASSUME EndTeardown PROVE Carries(ids)
    BY <2>4, ResetHolds DEF EndTeardown, Carries, NoWorker
  <2>5. ASSUME NEW reported \in BOOLEAN, ExitWorker(reported) PROVE Ends
    BY <2>5 DEF ExitWorker, WorkerEnds, NoWorker
  <2>6. ASSUME JoinSpecEntry PROVE Carries(ids)
    BY <2>6, JoinCarries
  <2>7. ASSUME SkipIneligible \/ SkipFirstAttempt PROVE Carries(ids)
    BY <2>7, SkipsCarry
  <2>8. ASSUME NEW disables, ContinueSpec \/ StartRecording \/ StartFails(disables)
        PROVE Carries(ids)
    BY <2>8, AttemptsCarry
  <2>9. ASSUME NEW result, NEW chromium,
               RunTest(result) \/ ReloadSession(chromium)
        PROVE Carries(ids)
    BY <2>9, TestCarries
  <2>10. ASSUME EndEntity PROVE Carries(ids)
    BY <2>10, EndCarries
  <2>11. ASSUME NEW media, FinalizeTest(media) \/ Teardown(media)
         PROVE Carries(ids)
    BY <2>11, MediaCarries
  <2>12. ASSUME NEW whole, CompleteDeferred(whole) PROVE Carries(ids)
    BY <2>12, DeferredCarries
  <2> HIDE DEF Starts, Ends
  <2> QED
    BY <2>1, <2>2, <2>3, <2>4, <2>5, <2>6, <2>7, <2>8, <2>9, <2>10, <2>11, <2>12
       DEF WorkerStep
<1> QED
  BY <1>1, <1>2, <1>3

-----------------------------------------------------------------------------
(* What does not write to the journals.                                    *)

LEMMA Countable ==
    ASSUME NEW files, FilesOK(files), NEW entries, IsFiniteSet(entries)
    PROVE  /\ Cardinality(LostIds(entries, files)) \in Nat
           /\ Cardinality(OpenIn(files)) \in Nat
           /\ Cardinality(BadIn(files)) \in Nat
<1>1. IsFiniteSet(LostIds(entries, files))
  <2>1. IsFiniteSet(entries \ LatestEntries(files, Us))
    BY FS_Subset
  <2> QED
    BY <2>1, IdsFinite DEF LostIds
<1>2. IsFiniteSet(OpenIn(files))
  <2>1. OpenIn(files) \subseteq DOMAIN files /\ IsFiniteSet(DOMAIN files)
    BY DEF OpenIn, FilesOK
  <2> QED
    BY <2>1, FS_Subset
<1>3. IsFiniteSet(BadIn(files))
  BY DEF FilesOK
<1> QED
  BY <1>1, <1>2, <1>3, FS_CardinalityType

LEMMA MoreCut ==
    ASSUME NEW files, FilesOK(files), NEW entries, IsFiniteSet(entries),
           NEW cut \in Nat, LossBounded(files, entries, cut),
           NEW more \in {cut, cut + 1}
    PROVE  LossBounded(files, entries, more)
BY Countable DEF LossBounded

\* Numbers are given out one after the other.
LEMMA FilesStay ==
    ASSUME NEW files, FilesOK(files), nextId \in Nat, nextId' \in {nextId, nextId + 1}
    PROVE  FilesOK(files)'
<1>1. IdsGiven(files)'
  BY DEF FilesOK, IdsGiven
<1> QED
  BY <1>1 DEF FilesOK

LEMMA JournalsStay ==
    ASSUME WorkerInv, JournalsInv, journals'[Us] = journals[Us],
           recorded' = recorded, faults' \in {faults, faults + 1},
           nextId' \in {nextId, nextId + 1},
           launcher'[Us].stage = "running" => launcher[Us].stage = "running"
    PROVE  JournalsInv'
<1> SUFFICES ASSUME launcher'[Us].stage = "running"
             PROVE  FilesOK(journals[Us])' /\ LossBounded(journals[Us], recorded, faults)'
  BY DEF JournalsInv
<1>1. PICK files : files = journals[Us]
  OBVIOUS
<1>2. FilesOK(files) /\ LossBounded(files, recorded, faults)
  BY <1>1 DEF JournalsInv
<1>3. FilesOK(files)'
  BY <1>2, FilesStay DEF WorkerInv
<1>4. LossBounded(files, recorded, faults')
  BY <1>2, MoreCut DEF WorkerInv
<1> QED
  BY <1>1, <1>3, <1>4

\* A fault more is a loss more that may go untold.
LEMMA ToldStays ==
    ASSUME NEW run, LossTold(run), IsFiniteSet(recorded), faults \in Nat,
           recorded' = recorded, faults' \in {faults, faults + 1}
    PROVE  LossTold(run)'
<1> DEFINE lost == {e \in recorded : e \notin Range(run.entries)}
           ids == {e.id : e \in lost}
<1>1. IsFiniteSet(lost)
  BY FS_Subset
<1>2. IsFiniteSet(ids)
  BY <1>1, IdsFinite
<1>3. Cardinality(ids) \in Nat /\ Cardinality(run.diagnostics) \in Nat
  BY <1>2, FS_CardinalityType DEF LossTold
<1>4. Cardinality(ids) <= Cardinality(run.diagnostics) + faults
  BY DEF LossTold
<1>5. Cardinality(ids) <= Cardinality(run.diagnostics) + faults'
  BY <1>3, <1>4
<1>6. lost' = lost /\ ids' = ids
  OBVIOUS
<1> QED
  BY <1>5, <1>6 DEF LossTold

LEMMA ToldInvStays ==
    ASSUME WorkerInv, ToldInv, recorded' = recorded,
           faults' \in {faults, faults + 1},
           launcher'[Us] = launcher[Us], manifest' = manifest
    PROVE  ToldInv'
<1>1. Published' = Published
  BY DEF Published
<1>2. \A run : LossTold(run) => LossTold(run)'
  BY ToldStays DEF WorkerInv
<1>3. PICK run : run = launcher[Us].run
  OBVIOUS
<1>4. launcher'[Us].stage \in {"locking", "locked", "publishing"} =>
         LossTold(launcher[Us].run)'
  BY <1>2, <1>3 DEF ToldInv
<1>5. \A r \in Published' : r.id = Us => LossTold(r)'
  BY <1>1, <1>2 DEF ToldInv
<1> QED
  BY <1>4, <1>5 DEF ToldInv

LEMMA OwnKept ==
    ASSUME NEW pid, nextId \in Nat \ {0}, nextId' \in {nextId, nextId + 1},
           journals'[Us] = journals[Us]
    PROVE  OwnIds(pid) \subseteq OwnIds(pid)'
BY DEF OwnIds

\* No journal has the next number yet.
LEMMA NextOwn ==
    ASSUME NEW pid, nextId \in Nat \ {0}, nextId' = nextId + 1,
           journals'[Us] = journals[Us], IdsGiven(journals[Us])
    PROVE  nextId \in OwnIds(pid)'
BY DEF OwnIds, IdsGiven

LEMMA WorkerActsKeep ==
    ASSUME RecordedInv, WorkerActs
    PROVE  RecordedInv'
<1> USE DEF RecordedInv
<1>0. /\ WorkerStep
      /\ UNCHANGED <<journals, manifest, launcher>>
  BY DEF WorkerActs, manifestVars
<1>1. PICK pid : process # NoWorker => process.pid = pid
  OBVIOUS
<1> DEFINE ids == OwnIds(pid)
           more == ids \union {nextId}
<1>2. process # NoWorker => Holds(process, ids, {})
  BY <1>1 DEF WorkerInv
<1>3. /\ recorded' = recorded
      /\ faults' \in {faults, faults + 1}
      /\ \/ /\ process # NoWorker /\ process' = NoWorker /\ nextId' = nextId
         \/ /\ process = NoWorker /\ At(Us, "running") /\ nextId' = nextId
            /\ Holds(process', {}, {})
         \/ Carries(ids)
         \/ Begins(more)
  <2> HIDE DEF ids
  <2> QED
    BY <1>0, <1>2, WorkerSteps
<1>4. nextId' \in {nextId, nextId + 1}
  BY <1>3 DEF Carries, Begins
<1>5. JournalsInv'
  BY <1>0, <1>3, <1>4, JournalsStay
<1>6. ToldInv'
  BY <1>0, <1>3, ToldInvStays
<1>7. process' # NoWorker => Holds(process', OwnIds(process.pid)', {})
  <2> SUFFICES ASSUME process' # NoWorker PROVE Holds(process', OwnIds(process.pid)', {})
    OBVIOUS
  <2>1. CASE process = NoWorker /\ Holds(process', {}, {})
    BY <2>1, MoreHolds
  <2>2. CASE Carries(ids)
    <3>1. ids \subseteq OwnIds(pid)'
      BY <1>0, <1>4, OwnKept DEF WorkerInv
    <3>2. Holds(process', OwnIds(pid)', {}) /\ process'.pid = pid
      BY <1>1, <2>2, <3>1, MoreHolds DEF Carries
    <3> QED
      BY <3>2 DEF OwnIds
  <2>3. CASE Begins(more)
    <3>1. ids \subseteq OwnIds(pid)'
      BY <1>0, <1>4, OwnKept DEF WorkerInv
    <3>2. IdsGiven(journals[Us])
      BY <2>3 DEF WorkerInv, JournalsInv, FilesOK, Begins
    <3>3. nextId \in OwnIds(pid)'
      BY <1>0, <2>3, <3>2, NextOwn DEF WorkerInv, Begins
    <3>4. Holds(process', OwnIds(pid)', {}) /\ process'.pid = pid
      BY <1>1, <2>3, <3>1, <3>3, MoreHolds DEF Begins
    <3> QED
      BY <3>4 DEF OwnIds
  <2> QED
    BY <1>3, <2>1, <2>2, <2>3
<1>8. launcher'[Us].stage # "running" => process' = NoWorker
  BY <1>0, <1>3 DEF WorkerInv, Carries, Begins, At
<1>9. WorkerInv'
  BY <1>0, <1>3, <1>4, <1>7, <1>8 DEF WorkerInv
<1> QED
  BY <1>5, <1>6, <1>9

-----------------------------------------------------------------------------
(* What writes to them.                                                    *)

LEMMA AppendsOne ==
    ASSUME NEW line, Append1(line), DOMAIN journals = Launchers,
           Us \in Launchers, NEW file, file = JournalFile
    PROVE  /\ DOMAIN journals' = Launchers
           /\ journals'[Us] = Appended(journals[Us], file, line)
BY DEF Append1, Appended

\* A line of an entry of its own, or one cut short, goes to the journal of the
\* worker.
LEMMA LineKeeps ==
    ASSUME WorkerInv, JournalsInv, Us \in Launchers, process # NoWorker,
           NEW line, Append1(line), line.ended \in BOOLEAN,
           line.entry # NoEntry => OneOf(line.entry, OwnIds(process.pid)),
           recorded' \in {recorded, Kept(recorded, line.entry)},
           Usable(line, Us) => recorded' = Kept(recorded, line.entry),
           faults' = IF line.ended THEN faults ELSE faults + 1,
           nextId' = nextId, launcher' = launcher
    PROVE  JournalsInv'
<1> DEFINE files == journals[Us]
           file == JournalFile
<1>1. launcher[Us].stage = "running"
  BY DEF WorkerInv
<1>2. FilesOK(files) /\ LossBounded(files, recorded, faults)
  BY <1>1 DEF JournalsInv
<1>3. journals'[Us] = Appended(files, file, line)
  BY AppendsOne DEF WorkerInv
<1>4. Usable(line, Us) =>
         /\ line.entry.id \in 1 .. nextId - 1
         /\ \A f \in DOMAIN files \ {file} : \A i \in DOMAIN files[f] :
               Usable(files[f][i], Us) => files[f][i].entry.id # line.entry.id
  <2>1. Usable(line, Us) => line.entry.id \in OwnIds(process.pid)
    BY NoEntryUnusable DEF OneOf
  <2> QED
    BY <2>1 DEF OwnIds, JournalFile
<1> HIDE DEF files, file
<1>5. FilesOK(Appended(files, file, line))
  BY <1>2, <1>4, FilesKept
<1>6. LossBounded(Appended(files, file, line), recorded', faults')
  BY <1>2, WriteBounded DEF WorkerInv
<1>7. PICK new : new = Appended(files, file, line)
  OBVIOUS
<1>8. FilesOK(new)'
  BY <1>5, <1>7 DEF FilesOK, IdsGiven
<1> QED
  BY <1>3, <1>6, <1>7, <1>8 DEF JournalsInv

LEMMA KeptFinite ==
    ASSUME NEW entries, IsFiniteSet(entries), NEW entry
    PROVE  IsFiniteSet(Kept(entries, entry))
<1>1. IsFiniteSet({x \in entries : x.id # entry.id})
  BY FS_Subset
<1> QED
  BY <1>1, FS_AddElement DEF Kept

\* Whatever is written, the other journals stay as they are.
LEMMA OwnStays ==
    ASSUME NEW pid, process # NoWorker, process.pid = pid, nextId' = nextId,
           DOMAIN journals = Launchers, Us \in Launchers,
           \/ journals' = journals
           \/ \E line : Append1(line)
    PROVE  /\ OwnIds(pid) \subseteq OwnIds(pid)'
           /\ DOMAIN journals' = Launchers
<1>1. CASE journals' = journals
  BY <1>1 DEF OwnIds
<1>2. ASSUME NEW line, Append1(line)
      PROVE  /\ OwnIds(pid) \subseteq OwnIds(pid)'
             /\ DOMAIN journals' = Launchers
  <2> DEFINE file == <<Cid, pid>>
  <2>1. /\ DOMAIN journals' = Launchers
        /\ journals'[Us] = Appended(journals[Us], file, line)
    BY <1>2, AppendsOne DEF JournalFile
  <2>2. \A f \in DOMAIN journals'[Us] \ {file} :
           f \in DOMAIN journals[Us] \ {file} /\ journals'[Us][f] = journals[Us][f]
    BY <2>1 DEF Appended
  <2> QED
    BY <2>1, <2>2 DEF OwnIds
<1> QED
  BY <1>1, <1>2

\* What a worker that is done with a line holds, if it goes on.
LEMMA WrittenHolds ==
    ASSUME NEW ids, Holds(process, ids, {}), NEW then
    PROVE  /\ Holds(Continue([process EXCEPT !.write = NoEntry], then), ids, {})
           /\ Continue([process EXCEPT !.write = NoEntry], then).pid = process.pid
<1> DEFINE q == [process EXCEPT !.write = NoEntry]
<1>1. DOMAIN process = ProcessFields
  BY DEF Holds
<1>2. /\ DOMAIN q = ProcessFields /\ q.pid = process.pid
      /\ q.draft = process.draft /\ q.completed = process.completed
      /\ q.write = NoEntry /\ q.tasks = process.tasks
  BY <1>1, OfAProcess
<1> HIDE DEF q
<1>3. Holds(q, ids, {})
  BY <1>2 DEF Holds
<1>4. /\ Holds(Continue(q, then), ids, {})
      /\ Continue(q, then).pid = process.pid
  BY <1>2, <1>3, ContinueHolds
<1> QED
  BY <1>4 DEF q

LEMMA JournalSteps ==
    ASSUME JournalStep
    PROVE  /\ process # NoWorker /\ nextId' = nextId
           /\ \/ process' = NoWorker
              \/ \E then : process' = Continue([process EXCEPT !.write = NoEntry], then)
           /\ \/ /\ journals' = journals /\ recorded' = recorded
                 /\ faults' = faults + 1
              \/ \E line :
                    /\ Append1(line) /\ line.ended \in BOOLEAN
                    /\ line.entry \in {NoEntry, process.write}
                    /\ recorded' \in {recorded, Kept(recorded, line.entry)}
                    /\ line.entry # NoEntry => recorded' = Kept(recorded, line.entry)
                    /\ faults' = IF line.ended THEN faults ELSE faults + 1
<1>1. CASE WriteLine
  <2> DEFINE line == [entry |-> process.write, ended |-> TRUE]
  <2>1. /\ Append1(line) /\ line.ended = TRUE /\ line.entry = process.write
        /\ recorded' = Kept(recorded, line.entry) /\ faults' = faults
    BY <1>1 DEF WriteLine, Line
  <2>2. /\ process # NoWorker /\ nextId' = nextId
        /\ process' = Continue([process EXCEPT !.write = NoEntry], process.then)
    BY <1>1 DEF WriteLine, NoWorker
  <2> HIDE DEF line
  <2> QED
    BY <2>1, <2>2
<1>2. ASSUME NEW torn \in BOOLEAN, WriteFails(torn)
      PROVE  /\ process # NoWorker /\ nextId' = nextId
             /\ \E then : process' = Continue([process EXCEPT !.write = NoEntry], then)
             /\ \/ /\ journals' = journals /\ recorded' = recorded
                   /\ faults' = faults + 1
                \/ \E line :
                      /\ Append1(line) /\ line.ended \in BOOLEAN
                      /\ line.entry = NoEntry
                      /\ recorded' = recorded
                      /\ faults' = IF line.ended THEN faults ELSE faults + 1
  <2> DEFINE line == [entry |-> NoEntry, ended |-> FALSE]
  <2>1. /\ process # NoWorker /\ nextId' = nextId
        /\ recorded' = recorded /\ faults' = faults + 1
        /\ \/ journals' = journals
           \/ Append1(line)
    BY <1>2 DEF WriteFails, Fault, NoWorker
  <2>2. \E then : process' = Continue([process EXCEPT !.write = NoEntry], then)
    BY <1>2 DEF WriteFails
  <2>3. line.ended = FALSE /\ line.entry = NoEntry
    OBVIOUS
  <2> HIDE DEF line
  <2> QED
    BY <2>1, <2>2, <2>3
<1>3. ASSUME NEW left \in {"nothing", "part", "whole"}, KillWorker(left)
      PROVE  /\ process # NoWorker /\ nextId' = nextId
             /\ process' = NoWorker
             /\ \/ /\ journals' = journals /\ recorded' = recorded
                   /\ faults' = faults + 1
                \/ \E line :
                      /\ Append1(line) /\ line.ended \in BOOLEAN
                      /\ line.entry \in {NoEntry, process.write}
                      /\ recorded' \in {recorded, Kept(recorded, line.entry)}
                      /\ line.entry # NoEntry => recorded' = Kept(recorded, line.entry)
                      /\ faults' = IF line.ended THEN faults ELSE faults + 1
  <2>1. /\ process # NoWorker /\ nextId' = nextId /\ process' = NoWorker
        /\ faults' = faults + 1
    BY <1>3 DEF KillWorker, WorkerEnds, Fault, NoWorker
  <2>2. CASE left = "nothing"
    BY <1>3, <2>1, <2>2 DEF KillWorker
  <2>3. CASE left = "part"
    <3> DEFINE line == [entry |-> NoEntry, ended |-> FALSE]
    <3>1. /\ Append1(line) /\ recorded' = recorded
          /\ line.ended = FALSE /\ line.entry = NoEntry
      BY <1>3, <2>3 DEF KillWorker
    <3> HIDE DEF line
    <3> QED
      BY <2>1, <3>1
  <2>4. CASE left = "whole"
    <3> DEFINE line == [entry |-> process.write, ended |-> FALSE]
    <3>1. /\ Append1(line) /\ recorded' = Kept(recorded, line.entry)
          /\ line.ended = FALSE /\ line.entry = process.write
      BY <1>3, <2>4 DEF KillWorker
    <3> HIDE DEF line
    <3> QED
      BY <2>1, <3>1
  <2> QED
    BY <2>2, <2>3, <2>4
<1>4. CASE \E torn \in BOOLEAN : WriteFails(torn)
  BY <1>2, <1>4
<1>5. CASE \E left \in {"nothing", "part", "whole"} : KillWorker(left)
  BY <1>3, <1>5
<1> QED
  BY <1>1, <1>4, <1>5 DEF JournalStep

LEMMA WorkerWritesKeep ==
    ASSUME RecordedInv, PublicationInv, Us \in Launchers, WorkerWrites
    PROVE  RecordedInv'
<1> USE DEF RecordedInv
<1>0. /\ JournalStep
      /\ UNCHANGED <<manifest, launcher>>
  BY DEF WorkerWrites
<1>1. /\ process # NoWorker /\ nextId' = nextId
      /\ \/ process' = NoWorker
         \/ \E then : process' = Continue([process EXCEPT !.write = NoEntry], then)
      /\ \/ /\ journals' = journals /\ recorded' = recorded
            /\ faults' = faults + 1
         \/ \E line :
               /\ Append1(line) /\ line.ended \in BOOLEAN
               /\ line.entry \in {NoEntry, process.write}
               /\ recorded' \in {recorded, Kept(recorded, line.entry)}
               /\ line.entry # NoEntry => recorded' = Kept(recorded, line.entry)
               /\ faults' = IF line.ended THEN faults ELSE faults + 1
  BY <1>0, JournalSteps
<1>2. launcher[Us].stage = "running" /\ Holds(process, OwnIds(process.pid), {})
  BY <1>1 DEF WorkerInv
<1>3. /\ JournalsInv' /\ IsFiniteSet(recorded') /\ faults' \in Nat
      /\ \/ journals' = journals
         \/ \E line : Append1(line)
  <2>1. CASE /\ journals' = journals /\ recorded' = recorded
             /\ faults' = faults + 1
    BY <1>0, <1>1, <2>1, JournalsStay DEF WorkerInv
  <2>2. ASSUME NEW line,
               /\ Append1(line) /\ line.ended \in BOOLEAN
               /\ line.entry \in {NoEntry, process.write}
               /\ recorded' \in {recorded, Kept(recorded, line.entry)}
               /\ line.entry # NoEntry => recorded' = Kept(recorded, line.entry)
               /\ faults' = IF line.ended THEN faults ELSE faults + 1
        PROVE  /\ JournalsInv' /\ IsFiniteSet(recorded') /\ faults' \in Nat
               /\ \E l : Append1(l)
    <3>1. line.entry # NoEntry => OneOf(line.entry, OwnIds(process.pid))
      BY <1>2, <2>2 DEF Holds
    <3>2. Usable(line, Us) => recorded' = Kept(recorded, line.entry)
      BY <2>2, NoEntryUnusable
    <3>3. JournalsInv'
      BY <1>0, <1>1, <2>2, <3>1, <3>2, LineKeeps
    <3>4. IsFiniteSet(recorded')
      BY <2>2, KeptFinite DEF WorkerInv
    <3> QED
      BY <2>2, <3>3, <3>4 DEF WorkerInv
  <2> QED
    BY <1>1, <2>1, <2>2
<1>4. PICK pid : process.pid = pid
  OBVIOUS
<1>5. OwnIds(pid) \subseteq OwnIds(pid)' /\ DOMAIN journals' = Launchers
  BY <1>1, <1>3, <1>4, OwnStays DEF WorkerInv
<1>6. process' # NoWorker => Holds(process', OwnIds(process.pid)', {})
  <2> SUFFICES ASSUME process' # NoWorker PROVE Holds(process', OwnIds(process.pid)', {})
    OBVIOUS
  <2>1. Holds(process, OwnIds(pid), {})
    BY <1>2, <1>4
  <2>2. Holds(process', OwnIds(pid), {}) /\ process'.pid = pid
    BY <1>1, <1>4, <2>1, WrittenHolds
  <2>3. Holds(process', OwnIds(pid)', {})
    BY <1>5, <2>2, MoreHolds
  <2> QED
    BY <2>2, <2>3 DEF OwnIds
<1>7. WorkerInv'
  BY <1>0, <1>1, <1>2, <1>3, <1>5, <1>6 DEF WorkerInv
<1>8. ToldInv'
  <2>1. Published' = Published
    BY <1>0 DEF Published
  <2>2. \A run \in Published : run.id # Us
    BY <1>2 DEF PublicationInv, RunsNamed, AfterPublishing
  <2> QED
    BY <1>0, <1>2, <2>1, <2>2 DEF ToldInv
<1> QED
  BY <1>3, <1>7, <1>8

-----------------------------------------------------------------------------
(* What the launcher says of them.                                         *)

LEMMA DiagnosticsMean ==
    ASSUME NEW files
    PROVE  /\ \A f \in DOMAIN files : \A i \in DOMAIN files[f] :
                 ~Usable(files[f][i], Us) =>
                     \E d \in Diagnostics(files, Us) : d.journal = f /\ d.line = i
           /\ \A d \in Diagnostics(files, Us) :
                 /\ d.journal \in DOMAIN files /\ d.line \in DOMAIN files[d.journal]
                 /\ ~Usable(files[d.journal][d.line], Us)
           /\ \A d, e \in Diagnostics(files, Us) :
                 d.journal = e.journal /\ d.line = e.line => d = e
<1> DEFINE Code(f, i) == IF i = Len(files[f]) /\ files[f][i].entry = NoEntry
                         THEN "malformed-final-journal-line"
                         ELSE "invalid-journal-entry"
           Spoiled(f, i) == [code |-> Code(f, i), journal |-> f, line |-> i]
<1> HIDE DEF Code
<1>1. \A d : d \in Diagnostics(files, Us) <=>
         \E f \in DOMAIN files : \E i \in DOMAIN files[f] :
             ~Usable(files[f][i], Us) /\ d = Spoiled(f, i)
  BY DEF Diagnostics, Code
<1>2. \A f, i : Spoiled(f, i).journal = f /\ Spoiled(f, i).line = i
  OBVIOUS
<1> HIDE DEF Spoiled
<1> QED
  BY <1>1, <1>2

\* One diagnostic for each line that cannot be used.
LEMMA AllDiagnosed ==
    ASSUME NEW files, FilesOK(files)
    PROVE  /\ IsFiniteSet(Diagnostics(files, Us))
           /\ Cardinality(Diagnostics(files, Us)) = Cardinality(BadIn(files))
<1> DEFINE said == Diagnostics(files, Us)
           at == [d \in said |-> <<d.journal, d.line>>]
<1>1. \A d \in said : at[d] \in BadIn(files)
  BY DiagnosticsMean DEF BadIn
<1>2. \A p \in BadIn(files) : \E d \in said : at[d] = p
  BY DiagnosticsMean DEF BadIn
<1>3. \A d, e \in said : at[d] = at[e] => d = e
  <2> SUFFICES ASSUME NEW d \in said, NEW e \in said, at[d] = at[e]
               PROVE  d = e
    OBVIOUS
  <2>1. d.journal = e.journal /\ d.line = e.line
    OBVIOUS
  <2> QED
    BY <2>1, DiagnosticsMean
<1>4. IsFiniteSet(BadIn(files))
  BY DEF FilesOK
<1> HIDE DEF said
<1>5. at \in Injection(said, BadIn(files)) /\ at \in Bijection(said, BadIn(files))
  BY <1>1, <1>2, <1>3 DEF Injection, Surjection, Bijection, IsInjective
<1>6. IsFiniteSet(said) /\ Cardinality(said) <= Cardinality(BadIn(files))
  BY <1>4, <1>5, FS_Injection
<1>7. Cardinality(said) = Cardinality(BadIn(files))
  BY <1>4, <1>5, FS_Injection DEF Bijection
<1> QED
  BY <1>6, <1>7 DEF said

LEMMA LatestNumbered ==
    ASSUME NEW files, FilesOK(files), nextId \in Nat
    PROVE  Numbered(LatestEntries(files, Us))
<1> DEFINE latest == LatestEntries(files, Us)
<1>1. \A e : e \in latest <=>
         \E f \in DOMAIN files : \E i \in DOMAIN files[f] :
            LastAt(files, f, i) /\ e = files[f][i].entry
  BY LatestMeans
<1> HIDE DEF latest
<1>2. IsFiniteSet(latest)
  <2>1. latest \subseteq EntriesIn(files)
    BY <1>1 DEF EntriesIn
  <2> QED
    BY <2>1, FS_Subset DEF FilesOK
<1>3. \A e \in latest : e.id \in Nat
  <2>1. \A e \in latest : e.id \in 1 .. nextId - 1
    BY <1>1 DEF LastAt, FilesOK, IdsGiven
  <2> QED
    BY <2>1
<1>4. ASSUME NEW e \in latest, NEW x \in latest, e.id = x.id
      PROVE  e = x
  <2>1. PICK f \in DOMAIN files :
           \E i \in DOMAIN files[f] : LastAt(files, f, i) /\ e = files[f][i].entry
    BY <1>1
  <2>2. PICK i \in DOMAIN files[f] : LastAt(files, f, i) /\ e = files[f][i].entry
    BY <2>1
  <2>3. PICK g \in DOMAIN files :
           \E j \in DOMAIN files[g] : LastAt(files, g, j) /\ x = files[g][j].entry
    BY <1>1
  <2>4. PICK j \in DOMAIN files[g] : LastAt(files, g, j) /\ x = files[g][j].entry
    BY <2>3
  <2>5. f = g
    BY <1>4, <2>2, <2>4 DEF LastAt, FilesOK, OneFile
  <2>6. Len(files[f]) \in Nat /\ DOMAIN files[f] = 1 .. Len(files[f])
    BY LineLengths DEF FilesOK
  <2>7. ~(i < j) /\ ~(j < i)
    BY <1>4, <2>2, <2>4, <2>5, <2>6 DEF LastAt
  <2>8. i = j
    BY <2>5, <2>6, <2>7
  <2> QED
    BY <2>2, <2>4, <2>5, <2>8
<1> QED
  BY <1>2, <1>3, <1>4 DEF Numbered, latest

\* The run made of the journals tells of what they have lost.
LEMMA AggregateTells ==
    ASSUME WorkerInv, JournalsInv, At(Us, "running"), NEW code
    PROVE  LossTold(AggregatedRun(Us, code))
<1>1. PICK files : files = journals[Us]
  OBVIOUS
<1>2. FilesOK(files) /\ LossBounded(files, recorded, faults)
  BY <1>1 DEF JournalsInv, At
<1>3. /\ AggregatedRun(Us, code).entries = InOrderStarted(LatestEntries(files, Us))
      /\ AggregatedRun(Us, code).diagnostics = Diagnostics(files, Us)
  BY <1>1 DEF AggregatedRun
<1>4. Range(AggregatedRun(Us, code).entries) = LatestEntries(files, Us)
  BY <1>2, <1>3, LatestNumbered, AllInOrder DEF WorkerInv
<1> DEFINE lost == {e \in recorded : e \notin Range(AggregatedRun(Us, code).entries)}
<1>5. lost = recorded \ LatestEntries(files, Us)
  BY <1>4
<1>6. {e.id : e \in lost} = LostIds(recorded, files)
  BY <1>5 DEF LostIds
<1>7. /\ IsFiniteSet(Diagnostics(files, Us))
      /\ Cardinality(Diagnostics(files, Us)) = Cardinality(BadIn(files))
  BY <1>2, AllDiagnosed
<1>8. /\ Cardinality(LostIds(recorded, files)) \in Nat
      /\ Cardinality(OpenIn(files)) \in Nat
      /\ Cardinality(BadIn(files)) \in Nat
  BY <1>2, Countable DEF WorkerInv
<1>9. Cardinality(LostIds(recorded, files)) <=
         Cardinality(Diagnostics(files, Us)) + faults
  BY <1>2, <1>7, <1>8 DEF LossBounded, WorkerInv
<1>10. Diagnostics(files, Us) = {} => lost = {}
  <2>1. Diagnostics(files, Us) = {} => BadIn(files) = {}
    <3> SUFFICES ASSUME NEW p \in BadIn(files)
                 PROVE  \E d : d \in Diagnostics(files, Us)
      OBVIOUS
    <3> QED
      BY BadMeans, DiagnosticsMean
  <2> QED
    BY <1>2, <1>5, <2>1 DEF LossBounded
<1> HIDE DEF lost
<1> QED
  BY <1>3, <1>6, <1>7, <1>9, <1>10 DEF LossTold, lost

\* What a step of onComplete, its end included, does to what the launchers and
\* the manifest hold.
LEMMA LauncherSteps ==
    ASSUME PublicationInv, DOMAIN journals = Launchers, NEW l \in Launchers,
           NEW code,
           \/ Aggregate(l, code) \/ Persist(l) \/ PersistFails(l)
           \/ /\ At(l, "reporting") /\ Moves(l, "done")
              /\ UNCHANGED <<journals, manifest, lock>>
    PROVE  /\ DOMAIN journals' = Launchers
           /\ \A m \in Launchers \ {l} : /\ launcher'[m] = launcher[m]
                                         /\ journals'[m] = journals[m]
           /\ launcher'[l].stage # "running"
           /\ launcher'[l].stage \in {"locking", "locked", "publishing"} =>
                 \/ Aggregate(l, code) /\ launcher'[l].run = AggregatedRun(l, code)
                 \/ /\ launcher[l].stage \in {"locking", "locked", "publishing"}
                    /\ launcher'[l].run = launcher[l].run
           /\ \A run \in Published' :
                 \/ run \in Published
                 \/ launcher[l].stage = "publishing" /\ run = launcher[l].run
<1> DEFINE Goes == /\ launcher'[l].stage # "running"
                   /\ launcher'[l].stage \in {"locking", "locked", "publishing"} =>
                         \/ /\ Aggregate(l, code)
                            /\ launcher'[l].run = AggregatedRun(l, code)
                         \/ /\ launcher[l].stage \in {"locking", "locked", "publishing"}
                            /\ launcher'[l].run = launcher[l].run
                   /\ \A m \in Launchers \ {l} : launcher'[m] = launcher[m]
           Writes == /\ DOMAIN journals' = Launchers
                     /\ \A m \in Launchers \ {l} : journals'[m] = journals[m]
           Adds == \A run \in Published' :
                     \/ run \in Published
                     \/ launcher[l].stage = "publishing" /\ run = launcher[l].run
<1>0. LauncherShape
  BY DEF PublicationInv
<1>1. Writes
  <2>1. CASE CleanupRun(l)
    BY <2>1 DEF CleanupRun
  <2>2. CASE journals' = journals
    BY <2>2
  <2>3. CleanupRun(l) \/ journals' = journals
    BY DEF Aggregate, Persist, PersistFails, AcquireManifestLock, ReadExisting,
           PublishRun, ReleaseManifestLock, GiveUpManifest, PublishFails,
           CleanupFails, KillLauncher
  <2> QED
    BY <2>1, <2>2, <2>3
<1>2. Adds
  <2>1. CASE PublishRun(l)
    <3>1. launcher[l].stage = "publishing" /\ launcher[l].existing = Published
      BY <2>1 DEF PublicationInv, PublishRun, At, SnapshotCurrent
    <3>2. Published' \subseteq Published \union {launcher[l].run}
      BY <2>1, <3>1 DEF PublishRun, Published, Manifest
    <3> QED
      BY <3>1, <3>2
  <2>2. CASE manifest' = manifest
    BY <2>2 DEF Published
  <2>3. PublishRun(l) \/ manifest' = manifest
    BY DEF Aggregate, Persist, PersistFails, AcquireManifestLock, ReadExisting,
           CleanupRun, ReleaseManifestLock, GiveUpManifest, PublishFails,
           CleanupFails, KillLauncher
  <2> QED
    BY <2>1, <2>2, <2>3
<1>3. Goes
  <2>1. CASE Aggregate(l, code)
    <3>1. launcher' = [launcher EXCEPT ![l].stage = "locking",
                                      ![l].run = AggregatedRun(l, code)]
      BY <2>1 DEF Aggregate
    <3>2. /\ launcher'[l].stage = "locking"
          /\ launcher'[l].run = AggregatedRun(l, code)
          /\ \A m \in Launchers \ {l} : launcher'[m] = launcher[m]
      BY <1>0, <3>1 DEF LauncherShape, Fields
    <3> QED
      BY <2>1, <3>2
  <2>2. ASSUME NEW stage \in {"done", "dead", "cleaning", "reporting"},
               Moves(l, stage)
        PROVE  Goes
    <3>1. /\ launcher'[l].stage = stage
          /\ \A m \in Launchers \ {l} : launcher'[m] = launcher[m]
      BY <1>0, <2>2, MovesOne
    <3> QED
      BY <2>2, <3>1
  <2>3. ASSUME NEW ok, launcher' = [launcher EXCEPT ![l].stage = "releasing",
                                                   ![l].ok = ok]
        PROVE  Goes
    <3>1. /\ launcher'[l].stage = "releasing"
          /\ \A m \in Launchers \ {l} : launcher'[m] = launcher[m]
      BY <1>0, <2>3, EndsOne
    <3> QED
      BY <3>1
  <2>4. CASE AcquireManifestLock(l)
    <3>1. /\ launcher'[l].stage = "locked" /\ launcher'[l].run = launcher[l].run
          /\ \A m \in Launchers \ {l} : launcher'[m] = launcher[m]
      BY <1>0, <2>4, MovesOne DEF AcquireManifestLock
    <3> QED
      BY <2>4, <3>1 DEF AcquireManifestLock, At
  <2>5. CASE /\ launcher[l].stage = "locked"
             /\ launcher' = [launcher EXCEPT ![l].stage = "publishing",
                                            ![l].existing = Published]
    <3>1. /\ launcher'[l].stage = "publishing"
          /\ launcher'[l].run = launcher[l].run
          /\ \A m \in Launchers \ {l} : launcher'[m] = launcher[m]
      BY <1>0, <2>5 DEF LauncherShape, Fields
    <3> QED
      BY <2>5, <3>1
  <2>6. CASE Persist(l)
    <3>1. CASE ReadExisting(l)
      BY <2>3, <2>5, <3>1 DEF ReadExisting, Fails, At
    <3>2. CASE PublishRun(l)
      BY <2>2, <3>2 DEF PublishRun
    <3>3. CASE CleanupRun(l)
      BY <2>3, <3>3 DEF CleanupRun
    <3>4. CASE ReleaseManifestLock(l)
      <4> DEFINE next == IF launcher[l].ok THEN "reporting" ELSE "done"
      <4>1. Moves(l, next) /\ next \in {"reporting", "done"}
        BY <3>4 DEF ReleaseManifestLock
      <4> HIDE DEF next
      <4> QED
        BY <2>2, <4>1
    <3> HIDE DEF Goes
    <3> QED
      BY <2>4, <2>6, <3>1, <3>2, <3>3, <3>4 DEF Persist
  <2>7. CASE PersistFails(l)
    <3>1. CASE PublishFails(l) \/ CleanupFails(l)
      BY <2>3, <3>1 DEF PublishFails, CleanupFails, Fails
    <3>2. CASE GiveUpManifest(l) \/ KillLauncher(l)
      BY <2>2, <3>2 DEF GiveUpManifest, KillLauncher
    <3> HIDE DEF Goes
    <3> QED
      BY <2>7, <3>1, <3>2 DEF PersistFails
  <2>8. CASE Moves(l, "done")
    BY <2>2, <2>8
  <2> HIDE DEF Goes
  <2> QED
    BY <2>1, <2>6, <2>7, <2>8
<1> QED
  BY <1>1, <1>2, <1>3

\* The launcher of the run goes on: what it says of the run it said before.
LEMMA OurStepKeeps ==
    ASSUME RecordedInv, PublicationInv, Us \in Launchers, NEW code,
           \/ process = NoWorker /\ Aggregate(Us, code)
           \/ Persist(Us)
           \/ process = NoWorker /\ PersistFails(Us)
           \/ /\ At(Us, "reporting") /\ Moves(Us, "done")
              /\ UNCHANGED <<journals, manifest, lock>>,
           UNCHANGED <<process, nextId, recorded>>,
           faults' \in {faults, faults + 1}
    PROVE  RecordedInv'
<1> USE DEF RecordedInv
<1>1. /\ DOMAIN journals' = Launchers
      /\ launcher'[Us].stage # "running"
      /\ launcher'[Us].stage \in {"locking", "locked", "publishing"} =>
            \/ Aggregate(Us, code) /\ launcher'[Us].run = AggregatedRun(Us, code)
            \/ /\ launcher[Us].stage \in {"locking", "locked", "publishing"}
               /\ launcher'[Us].run = launcher[Us].run
      /\ \A run \in Published' :
            \/ run \in Published
            \/ launcher[Us].stage = "publishing" /\ run = launcher[Us].run
  BY LauncherSteps DEF WorkerInv
<1>2. process = NoWorker
  BY DEF WorkerInv, Persist, AcquireManifestLock, ReadExisting, PublishRun,
         CleanupRun, ReleaseManifestLock, At
<1>3. JournalsInv'
  BY <1>1 DEF JournalsInv
<1>4. WorkerInv'
  BY <1>1, <1>2 DEF WorkerInv
<1>5. \A run : LossTold(run) => LossTold(run)'
  BY ToldStays DEF WorkerInv
<1>6. launcher'[Us].stage \in {"locking", "locked", "publishing"} =>
         LossTold(launcher'[Us].run)
  <2>1. Aggregate(Us, code) => At(Us, "running")
    BY DEF Aggregate
  <2> QED
    BY <1>1, <2>1, AggregateTells DEF ToldInv
<1>7. \A run \in Published' : run.id = Us => LossTold(run)
  BY <1>1 DEF ToldInv
<1>8. ToldInv'
  <2>1. PICK run : run = launcher'[Us].run
    OBVIOUS
  <2>2. launcher'[Us].stage \in {"locking", "locked", "publishing"} => LossTold(run)'
    BY <1>5, <1>6, <2>1
  <2>3. \A r \in Published' : r.id = Us => LossTold(r)'
    BY <1>5, <1>7
  <2> QED
    BY <2>1, <2>2, <2>3 DEF ToldInv
<1> QED
  BY <1>3, <1>4, <1>8

\* The others have runs and journals of their own.
LEMMA OtherStepKeeps ==
    ASSUME RecordedInv, PublicationInv, Us \in Launchers, NEW l \in Others,
           \/ Aggregate(l, 0) \/ Persist(l) \/ PersistFails(l)
           \/ /\ At(l, "reporting") /\ Moves(l, "done")
              /\ UNCHANGED <<journals, manifest, lock>>,
           UNCHANGED <<process, nextId, recorded>>,
           faults' \in {faults, faults + 1}
    PROVE  RecordedInv'
<1> USE DEF RecordedInv
<1>0. l \in Launchers /\ Us \in Launchers \ {l}
  BY DEF Others
<1>1. /\ DOMAIN journals' = Launchers
      /\ launcher'[Us] = launcher[Us] /\ journals'[Us] = journals[Us]
      /\ \A run \in Published' :
            \/ run \in Published
            \/ launcher[l].stage = "publishing" /\ run = launcher[l].run
  BY <1>0, LauncherSteps DEF WorkerInv
<1>2. JournalsInv'
  BY <1>1, JournalsStay DEF WorkerInv
<1>3. WorkerInv'
  <2>1. PICK pid : process.pid = pid
    OBVIOUS
  <2>2. OwnIds(pid) = OwnIds(pid)'
    BY <1>1 DEF OwnIds
  <2>3. process # NoWorker => Holds(process, OwnIds(pid)', {})
    BY <2>1, <2>2 DEF WorkerInv
  <2>4. process' # NoWorker => Holds(process', OwnIds(process.pid)', {})
    BY <2>1, <2>3 DEF OwnIds
  <2> QED
    BY <1>1, <2>4 DEF WorkerInv
<1>4. \A run : LossTold(run) => LossTold(run)'
  BY ToldStays DEF WorkerInv
<1>5. \A run \in Published' : run.id = Us => LossTold(run)
  <2>1. launcher[l].stage = "publishing" => launcher[l].run.id = l
    BY <1>0 DEF PublicationInv, RunsNamed, Holding
  <2> QED
    BY <1>0, <1>1, <2>1 DEF ToldInv
<1>6. ToldInv'
  <2>1. PICK run : run = launcher[Us].run
    OBVIOUS
  <2>2. launcher[Us].stage \in {"locking", "locked", "publishing"} => LossTold(run)'
    BY <1>4, <2>1 DEF ToldInv
  <2>3. \A r \in Published' : r.id = Us => LossTold(r)'
    BY <1>4, <1>5
  <2> QED
    BY <1>1, <2>1, <2>2, <2>3 DEF ToldInv
<1> QED
  BY <1>2, <1>3, <1>6

LEMMA InitRecorded ==
    ASSUME Init, Us \in Launchers
    PROVE  RecordedInv
<1>1. /\ DOMAIN journals = Launchers /\ journals[Us] = NoJournals
      /\ Published = {} /\ launcher[Us].stage = "running"
  BY DEF Init, InitManifest, Published, NoManifest, InvalidManifest, Manifest
<1>2. DOMAIN NoJournals = {}
  BY DEF NoJournals
<1>3. process = NoWorker /\ nextId = 1 /\ recorded = {} /\ faults = 0
  BY DEF Init, InitWorkers
<1>4. /\ BadIn(NoJournals) = {} /\ OpenIn(NoJournals) = {}
      /\ EntriesIn(NoJournals) = {} /\ LostIds({}, NoJournals) = {}
  BY <1>2 DEF BadIn, OpenIn, EntriesIn, LostIds
<1>5. FilesOK(NoJournals)
  BY <1>2, <1>4, FS_EmptySet DEF FilesOK, OneFile, IdsGiven
<1>6. LossBounded(NoJournals, {}, 0)
  BY <1>4, FS_EmptySet DEF LossBounded
<1>7. JournalsInv
  BY <1>1, <1>3, <1>5, <1>6 DEF JournalsInv
<1>8. WorkerInv
  BY <1>1, <1>3, FS_EmptySet DEF WorkerInv
<1>9. ToldInv
  BY <1>1 DEF ToldInv
<1> QED
  BY <1>7, <1>8, <1>9 DEF RecordedInv

LEMMA RecordedStutters ==
    ASSUME RecordedInv, UNCHANGED vars
    PROVE  RecordedInv'
<1> USE DEF vars, manifestVars, workerVars
<1>1. JournalsInv'
  BY DEF RecordedInv, JournalsInv, FilesOK, IdsGiven
<1>2. WorkerInv'
  BY DEF RecordedInv, WorkerInv, OwnIds
<1>3. ToldInv'
  BY DEF RecordedInv, ToldInv, LossTold, Published
<1> QED
  BY <1>1, <1>2, <1>3 DEF RecordedInv

\* Every step keeps count of what is lost.
LEMMA RecordedKeeps ==
    ASSUME RecordedInv, PublicationInv, Us \in Launchers, [Next]_vars
    PROVE  RecordedInv'
<1>1. CASE WorkerActs
  BY <1>1, WorkerActsKeep
<1>2. CASE WorkerWrites
  BY <1>2, WorkerWritesKeep
<1>3. CASE CompleteRun
  <2>1. PICK code : Aggregate(Us, code)
    BY <1>3 DEF CompleteRun
  <2> QED
    BY <1>3, <2>1, OurStepKeeps DEF CompleteRun, workerVars
<1>4. CASE PersistRun
  BY <1>4, OurStepKeeps DEF PersistRun, workerVars
<1>5. CASE PersistRunFails
  BY <1>5, OurStepKeeps DEF PersistRunFails, Fault
<1>6. CASE GenerateReport
  BY <1>6, OurStepKeeps DEF GenerateReport, workerVars
<1>7. CASE ReportFails
  BY <1>7, OurStepKeeps DEF ReportFails, Fault
<1>8. ASSUME NEW l \in Others, OtherCompletes(l) PROVE RecordedInv'
  BY <1>8, OtherStepKeeps DEF OtherCompletes, workerVars
<1>9. ASSUME NEW l \in Others, OtherFails(l) PROVE RecordedInv'
  BY <1>9, OtherStepKeeps DEF OtherFails, Fault
<1>10. CASE UNCHANGED vars
  BY <1>10, RecordedStutters
<1> QED
  BY <1>1, <1>2, <1>3, <1>4, <1>5, <1>6, <1>7, <1>8, <1>9, <1>10 DEF Next

\* The journals of a run, and the run its launcher makes of them, keep to the
\* bound of NothingForgotten at every step.
THEOREM RecordedInvariant == Spec => [](PublicationInv /\ RecordedInv)
<1> USE UsAssumption, LauncherAssumption
<1>1. Init => PublicationInv /\ RecordedInv
  BY InitPublication, InitRecorded
<1>2. PublicationInv /\ RecordedInv /\ [Next]_vars => (PublicationInv /\ RecordedInv)'
  BY StepKeeps, RecordedKeeps
<1> QED
  BY <1>1, <1>2, PTL DEF Spec

\* Whatever was wholly written to a journal is in the published run as it was
\* written last, unless the run names unusable lines; and then no more entries
\* are lost than there are such lines and faults.  For any tests, launchers,
\* workers started again and faults.
THEOREM NothingForgottenHolds == Spec => []NothingForgotten
<1>1. RecordedInv => NothingForgotten
  BY DEF RecordedInv, ToldInv, LossTold, NothingForgotten, OurRuns
<1> QED
  BY <1>1, RecordedInvariant, PTL

----------------------------------------------------------------------------
(* What the report joins an outcome to.                                    *)

\* A set of natural numbers has a least element.
LEMMA LeastOf ==
    ASSUME NEW T \in SUBSET Nat, T # {}
    PROVE  Min(T) \in T /\ \A n \in T : Min(T) <= n
<1>1. PICK m \in T : \A n \in T : ~(<<n, m>> \in OpToRel(<, Nat))
  BY NatLessThanWellFounded, WFMin
<1>2. ASSUME NEW n \in T PROVE m <= n
  <2>1. n \in Nat /\ m \in Nat
    OBVIOUS
  <2>2. CASE n < m
    <3> DEFINE pair == <<n, m>>
    <3>1. pair \in Nat \X Nat /\ pair[1] < pair[2]
      BY <2>1, <2>2
    <3>2. pair \in {ss \in Nat \X Nat : ss[1] < ss[2]}
      BY <3>1
    <3> QED
      BY <3>2, <1>1 DEF OpToRel
  <2> QED
    BY <2>1, <2>2
<1> QED
  BY <1>2 DEF Min

\* What the matcher looks an outcome up by.
IdentityOf(outcome) ==
    IF outcome.test.container = None THEN outcome.test
    ELSE [name |-> outcome.test.container, fullName |-> outcome.test.container]

\* A name of the one is spelled like one of the other, but for its case and
\* the like; and so are the full ones if both have one.
NamedAs(test, identity) ==
    /\ \E x \in {test.name, test.fullName} : \E y \in IdentityNames(identity) :
          x[1] = y[1]
    /\ HasFullerIdentity(test) /\ HasFullerIdentity(identity) =>
          test.fullName[1] = identity.fullName[1]

\* The entry is of the run, session, attempt and spec file of the outcome, and
\* of that spec file as a whole or of a test that is called like it.
Fits(entry, outcome) ==
    /\ SameGroup(entry, outcome)
    /\ entry.spec[1] = outcome.spec[1]
    /\ \/ entry.scope = "spec"
       \/ /\ entry.scope = "test" /\ entry.test # None
          /\ NamedAs(entry.test, IdentityOf(outcome))

Ids(entries) == \A e \in entries : e.id \in Nat

LEMMA SpellingsFacts ==
    ASSUME NEW name, NEW known, NEW k \in Spellings(name, known)
    PROVE  k \in known /\ k[1] = name[1]
BY DEF Spellings

LEMMA FirstStartedFacts ==
    ASSUME NEW among, Ids(among), FirstStarted(among).kind = "matched"
    PROVE  /\ FirstStarted(among).entry \in among
           /\ FirstStarted(among) = Matched(FirstStarted(among).entry)
<1>1. among # {}
  BY DEF FirstStarted, Missing
<1> DEFINE ids == {e.id : e \in among}
<1>2. Min(ids) \in ids /\ \A n \in ids : Min(ids) <= n
  <2>1. ids \in SUBSET Nat /\ ids # {}
    BY <1>1 DEF Ids
  <2> HIDE DEF ids
  <2> QED
    BY <2>1, LeastOf
<1>3. \E x \in among : \A f \in among : x.id <= f.id
  BY <1>2
<1>4. PICK e : e = CHOOSE x \in among : \A f \in among : x.id <= f.id
  OBVIOUS
<1>5. e \in among
  BY <1>3, <1>4
<1>6. FirstStarted(among) = Matched(e)
  BY <1>1, <1>4 DEF FirstStarted
<1> QED
  BY <1>5, <1>6 DEF Matched

LEMMA OnlyFacts ==
    ASSUME NEW among, Only(among).kind = "matched"
    PROVE  /\ Only(among).entry \in among
           /\ Only(among) = Matched(Only(among).entry)
<1>1. CASE among = {}
  <2>1. Cardinality(among) = 0
    BY <1>1, FS_EmptySet
  <2> QED
    BY <1>1, <2>1 DEF Only, Missing
<1>2. CASE among # {} /\ Cardinality(among) = 1
  <2>1. Only(among) = Matched(CHOOSE e \in among : TRUE)
    BY <1>2 DEF Only
  <2>2. (CHOOSE e \in among : TRUE) \in among
    BY <1>2
  <2> QED
    BY <2>1, <2>2 DEF Matched
<1>3. CASE among # {} /\ Cardinality(among) # 1
  BY <1>3 DEF Only, Ambiguous
<1> QED
  BY <1>1, <1>2, <1>3

LEMMA QueuedFacts ==
    ASSUME NEW group, Ids(group), NEW name, NEW matched, NEW match,
           match = Queued(group, name, matched), match.kind = "matched"
    PROVE  /\ match.entry \in Tests(group) /\ match.entry.id \notin matched
           /\ match.entry.test.fullName = name
           /\ match = Matched(match.entry)
<1> DEFINE among == {e \in Tests(group) : e.test.fullName = name /\ e.id \notin matched}
<1>1. Ids(among)
  BY DEF Ids, Tests
<1>2. match = FirstStarted(among)
  BY DEF Queued
<1>3. match.entry \in among /\ match = Matched(match.entry)
  <2> HIDE DEF among
  <2> QED
    BY <1>1, <1>2, FirstStartedFacts
<1> QED
  BY <1>3

LEMMA FullNameFacts ==
    ASSUME NEW group, Ids(group), NEW identity, NEW pass \in {"exact", "normalized"},
           NEW matched, NEW match,
           match = FindFullName(group, identity, pass, matched),
           match.kind = "matched"
    PROVE  /\ match.entry \in Tests(group) /\ match.entry.id \notin matched
           /\ NamedAs(match.entry.test, identity)
           /\ match = Matched(match.entry)
<1> DEFINE spellings == Spellings(identity.fullName, FullNames(group))
           e == match.entry
<1>1. identity.fullName # None
  BY DEF FindFullName, Missing
<1>2. ASSUME e \in Tests(group), e.test.fullName[1] = identity.fullName[1]
      PROVE  NamedAs(e.test, identity)
  BY <1>1, <1>2 DEF NamedAs, IdentityNames
<1>3. CASE pass = "exact"
  <2>1. match = Queued(group, identity.fullName, matched)
    BY <1>1, <1>3 DEF FindFullName
  <2>2. /\ e \in Tests(group) /\ e.id \notin matched
        /\ e.test.fullName = identity.fullName
        /\ match = Matched(e)
    BY <2>1, QueuedFacts
  <2> QED
    BY <1>2, <2>2
<1>4. CASE pass = "normalized"
  <2>1. match = IF spellings = {} \/ identity.fullName \in spellings THEN Missing
                ELSE IF Cardinality(spellings) > 1 THEN Ambiguous
                ELSE Queued(group, CHOOSE name \in spellings : TRUE, matched)
    BY <1>1, <1>4 DEF FindFullName
  <2>2. PICK name : name = CHOOSE x \in spellings : TRUE
    OBVIOUS
  <2>3. spellings # {} /\ match = Queued(group, name, matched)
    BY <2>1, <2>2 DEF Missing, Ambiguous
  <2>4. name \in spellings
    BY <2>2, <2>3
  <2>5. name[1] = identity.fullName[1]
    BY <2>4, SpellingsFacts
  <2>6. /\ e \in Tests(group) /\ e.id \notin matched /\ e.test.fullName = name
        /\ match = Matched(e)
    BY <2>3, QueuedFacts
  <2> QED
    BY <1>2, <2>5, <2>6
<1> QED
  BY <1>3, <1>4

LEMMA AliasFacts ==
    ASSUME NEW aliases, NEW name, NEW matched, NEW match,
           match = FindAlias(aliases, name, matched), match.kind = "matched"
    PROVE  /\ match = Matched(match.entry)
           /\ \E a \in aliases :
              /\ match.entry = a.entry /\ a.entry.id \notin matched
              /\ \E x \in a.names : x[1] = name[1]
<1> DEFINE spellings == Spellings(name, UNION {a.names : a \in aliases})
           among == {a.entry : a \in {a \in aliases :
                        /\ a.entry.id \notin matched
                        /\ a.names \cap spellings # {}}}
<1>1. match = Only(among)
  BY DEF FindAlias, Ambiguous
<1>2. match.entry \in among /\ match = Matched(match.entry)
  <2> HIDE DEF among
  <2> QED
    BY <1>1, OnlyFacts
<1>3. PICK a \in aliases : /\ match.entry = a.entry /\ a.entry.id \notin matched
                           /\ a.names \cap spellings # {}
  BY <1>2
<1>4. PICK x \in a.names : x \in spellings
  BY <1>3
<1>5. x[1] = name[1]
  BY <1>4, SpellingsFacts
<1> QED
  BY <1>2, <1>3, <1>4, <1>5

LEMMA FallbackFacts ==
    ASSUME NEW group, NEW identity, NEW matched, NEW match,
           match = FindFallback(group, identity, matched),
           match.kind = "matched"
    PROVE  /\ match.entry \in Tests(group) /\ match.entry.id \notin matched
           /\ NamedAs(match.entry.test, identity)
           /\ match = Matched(match.entry)
<1> DEFINE aliases == Aliases(group, HasFullerIdentity(identity))
           found == {FindAlias(aliases, name, matched) :
                        name \in IdentityNames(identity)} \ {Missing}
           e == match.entry
<1>1. match \in found
  <2>1. CASE found = {}
    <3>1. Cardinality(found) = 0
      BY <2>1, FS_EmptySet
    <3>2. match = Missing
      BY <2>1, <3>1 DEF FindFallback
    <3> QED
      BY <3>2 DEF Missing
  <2>2. CASE found # {} /\ Cardinality(found) = 1
    <3>1. match = CHOOSE m \in found : TRUE
      BY <2>2 DEF FindFallback
    <3> QED
      BY <2>2, <3>1
  <2>3. CASE found # {} /\ Cardinality(found) # 1
    <3>1. match = Ambiguous
      BY <2>3 DEF FindFallback
    <3> QED
      BY <3>1 DEF Ambiguous
  <2> QED
    BY <2>1, <2>2, <2>3
<1>2. PICK name \in IdentityNames(identity) : match = FindAlias(aliases, name, matched)
  BY <1>1
<1>3. PICK a \in aliases : /\ e = a.entry /\ a.entry.id \notin matched
                           /\ \E x \in a.names : x[1] = name[1]
                           /\ match = Matched(e)
  <2> HIDE DEF aliases
  <2> QED
    BY <1>2, AliasFacts
<1>4. PICK x \in a.names : x[1] = name[1]
  BY <1>3
<1>5. /\ a.entry \in Tests(group)
      /\ HasFullerIdentity(identity) => ~HasFullerIdentity(a.entry.test)
      /\ a.names \subseteq {a.entry.test.name, a.entry.test.fullName}
  BY DEF Aliases, IdentityNames
<1>6. NamedAs(e.test, identity)
  BY <1>2, <1>3, <1>4, <1>5 DEF NamedAs
<1> QED
  BY <1>3, <1>5, <1>6

Passes == {"exact", "normalized", "fallback"}

LEMMA FoundFacts ==
    ASSUME NEW group, Ids(group), NEW outcome, NEW pass \in Passes, NEW matched,
           NEW match, match = FindEntry(group, outcome, pass, matched),
           match.kind = "matched"
    PROVE  /\ match.entry \in group /\ match = Matched(match.entry)
           /\ \/ match.entry.scope = "spec"
              \/ /\ match.entry.scope = "test" /\ match.entry.test # None
                 /\ match.entry.id \notin matched
                 /\ NamedAs(match.entry.test, IdentityOf(outcome))
<1> DEFINE identity == IdentityOf(outcome)
           found == IF pass = "fallback" THEN FindFallback(group, identity, matched)
                    ELSE FindFullName(group, identity, pass, matched)
           specs == {e \in group : e.scope = "spec"}
<1>1. match = IF pass = "fallback" /\ found = Missing THEN FirstStarted(specs)
              ELSE found
  BY DEF FindEntry, IdentityOf
<1>2. CASE pass = "fallback" /\ found = Missing
  <2>1. match = FirstStarted(specs)
    BY <1>1, <1>2
  <2>2. Ids(specs)
    BY DEF Ids
  <2>3. match.entry \in specs /\ match = Matched(match.entry)
    <3> HIDE DEF specs
    <3> QED
      BY <2>1, <2>2, FirstStartedFacts
  <2> QED
    BY <2>3
<1>3. CASE ~(pass = "fallback" /\ found = Missing)
  <2>1. match = found
    BY <1>1, <1>3
  <2>2. /\ match.entry \in Tests(group) /\ match.entry.id \notin matched
        /\ NamedAs(match.entry.test, identity)
        /\ match = Matched(match.entry)
    <3>1. CASE pass = "fallback"
      <4>1. match = FindFallback(group, identity, matched)
        BY <2>1, <3>1
      <4> HIDE DEF identity
      <4> QED
        BY <4>1, FallbackFacts
    <3>2. CASE pass \in {"exact", "normalized"}
      <4>1. match = FindFullName(group, identity, pass, matched)
        BY <2>1, <3>2
      <4> HIDE DEF identity
      <4> QED
        BY <3>2, <4>1, FullNameFacts
    <3> QED
      BY <3>1, <3>2 DEF Passes
  <2> QED
    BY <2>2 DEF Tests
<1> QED
  BY <1>2, <1>3

\* Scenarios keep their entry: what is known of them so far.
Assigned(s, joined, outcomes) ==
    \E i \in DOMAIN outcomes :
        /\ outcomes[i].test.container # None
        /\ s.key = ScenarioKey(outcomes[i])
        /\ s.entry.scope = "test"
        /\ joined.matches[i] = Matched(s.entry)

\* What holds of the joined outcomes after any number of them.
Joined(joined, entries, outcomes) ==
    /\ DOMAIN joined.matches = DOMAIN outcomes
    /\ \A i \in DOMAIN outcomes : joined.matches[i].kind = "matched" =>
          LET e == joined.matches[i].entry IN
          /\ e \in Range(entries) /\ Fits(e, outcomes[i])
          /\ e.id \in joined.state.matched
    /\ \A id \in joined.state.matched : \E i \in DOMAIN outcomes :
          joined.matches[i].kind = "matched" /\ joined.matches[i].entry.id = id
    /\ \A s \in joined.state.scenarios : Assigned(s, joined, outcomes)
    /\ \A i, j \in DOMAIN outcomes :
          LET a == joined.matches[i]
              b == joined.matches[j]
          IN
          /\ i # j /\ a.kind = "matched" /\ b.kind = "matched"
          /\ a.entry.scope = "test" /\ b.entry.scope = "test"
          /\ a.entry.id = b.entry.id
          => /\ outcomes[i].test.container # None
             /\ outcomes[j].test.container # None
             /\ ScenarioKey(outcomes[i]) = ScenarioKey(outcomes[j])

LEMMA SpecSpelled ==
    ASSUME NEW entries, NEW outcome, NEW spec \in SpecSpellings(entries, outcome)
    PROVE  spec[1] = outcome.spec[1]
BY SpellingsFacts DEF SpecSpellings

\* Outcomes of one scenario are looked up alike.
LEMMA SameScenario ==
    ASSUME NEW x, NEW y, ScenarioKey(x) = ScenarioKey(y),
           NEW e, Fits(e, x), x.test.container # None, y.test.container # None
    PROVE  Fits(e, y)
<1>1. /\ x.run = y.run /\ x.cid = y.cid /\ x.spec = y.spec
      /\ x.attempt = y.attempt /\ x.test.container = y.test.container
  BY DEF ScenarioKey
<1>2. IdentityOf(x) = IdentityOf(y)
  BY <1>1 DEF IdentityOf
<1> QED
  BY <1>1, <1>2 DEF Fits, SameGroup

\* One outcome in one pass: it is given an entry that fits, and one of a test
\* only if no other outcome has it, or one of the same scenario.
LEMMA MatchFacts ==
    ASSUME NEW joined, NEW entries, NEW outcomes, Joined(joined, entries, outcomes),
           Ids(Range(entries)), NEW n \in DOMAIN outcomes, NEW pass \in Passes,
           NEW step, step = MatchOutcome(joined.state, entries, outcomes[n], pass),
           step.match.kind = "matched"
    PROVE  LET e == step.match.entry IN
           /\ e \in Range(entries) /\ Fits(e, outcomes[n])
           /\ step.match = Matched(e)
           /\ \/ e.scope = "spec"
              \/ e.scope = "test" /\ e.id \notin joined.state.matched
              \/ /\ e.scope = "test" /\ outcomes[n].test.container # None
                 /\ \E i \in DOMAIN outcomes :
                       /\ outcomes[i].test.container # None
                       /\ ScenarioKey(outcomes[i]) = ScenarioKey(outcomes[n])
                       /\ joined.matches[i] = Matched(e)
           /\ step.state.matched = joined.state.matched \union {e.id}
           /\ step.state.scenarios \subseteq joined.state.scenarios \union
                 {s \in {[key |-> ScenarioKey(outcomes[n]), entry |-> e]} :
                    outcomes[n].test.container # None /\ e.scope = "test"}
<1> DEFINE o == outcomes[n]
           specs == SpecSpellings(entries, o)
           group == {e \in Range(entries) : SameGroup(e, o) /\ e.spec \in specs}
           key == ScenarioKey(o)
           assigned == {s \in joined.state.scenarios : s.key = key}
           found == IF o.test.container # None /\ assigned # {}
                    THEN Matched((CHOOSE s \in assigned : TRUE).entry)
                    ELSE FindEntry(group, o, pass, joined.state.matched)
           given == IF found.kind # "matched" THEN joined.state
                    ELSE [matched |-> joined.state.matched \cup {found.entry.id},
                          scenarios |->
                             IF o.test.container # None /\ found.entry.scope = "test"
                             THEN joined.state.scenarios \cup
                                     {[key |-> key, entry |-> found.entry]}
                             ELSE joined.state.scenarios]
<1>1. step = CASE specs = {} -> [match |-> Missing, state |-> joined.state]
               [] Cardinality(specs) > 1 -> [match |-> Ambiguous, state |-> joined.state]
               [] OTHER -> [match |-> found, state |-> given]
  BY SMTT(20) DEF MatchOutcome
<1>2. step = [match |-> found, state |-> given]
  <2>1. CASE specs = {}
    <3>1. Cardinality(specs) = 0
      BY <2>1, FS_EmptySet
    <3>2. step = [match |-> Missing, state |-> joined.state]
      <4> HIDE DEF specs, found, given
      <4> QED
        BY <1>1, <2>1, <3>1, SMTT(20)
    <3> QED
      BY <3>2 DEF Missing
  <2>2. CASE specs # {} /\ Cardinality(specs) > 1
    <3>1. step = [match |-> Ambiguous, state |-> joined.state]
      <4> HIDE DEF specs, found, given
      <4> QED
        BY <1>1, <2>2
    <3> QED
      BY <3>1 DEF Ambiguous
  <2>3. CASE specs # {} /\ ~(Cardinality(specs) > 1)
    <3> HIDE DEF specs, found, given
    <3> QED
      BY <1>1, <2>3
  <2> QED
    BY <2>1, <2>2, <2>3
<1>3. PICK m : m = found
  OBVIOUS
<1> DEFINE e == m.entry
<1>4. /\ m.kind = "matched" /\ step.match = m
      /\ step.state.matched = joined.state.matched \union {e.id}
      /\ step.state.scenarios \subseteq joined.state.scenarios \union
            {s \in {[key |-> key, entry |-> e]} :
               o.test.container # None /\ e.scope = "test"}
  <2>1. step.match = m /\ step.state = given /\ m.kind = "matched"
    BY <1>2, <1>3
  <2>2. given.matched = joined.state.matched \union {e.id}
    <3> HIDE DEF found, key, specs, group, assigned
    <3> QED
      BY <1>3, <2>1
  <2>3. given.scenarios = IF o.test.container # None /\ e.scope = "test"
                          THEN joined.state.scenarios \cup {[key |-> key, entry |-> e]}
                          ELSE joined.state.scenarios
    <3> HIDE DEF found, key, specs, group, assigned
    <3> QED
      BY <1>3, <2>1
  <2> HIDE DEF given, found
  <2> QED
    BY <2>1, <2>2, <2>3
<1> HIDE DEF given
<1>5. CASE o.test.container # None /\ assigned # {}
  <2>1. PICK s : s = CHOOSE x \in assigned : TRUE
    OBVIOUS
  <2>2. s \in assigned /\ m = Matched(s.entry)
    BY <1>3, <1>5, <2>1
  <2>3. PICK i \in DOMAIN outcomes :
           /\ outcomes[i].test.container # None
           /\ s.key = ScenarioKey(outcomes[i])
           /\ s.entry.scope = "test"
           /\ joined.matches[i] = Matched(s.entry)
    BY <2>2 DEF Joined, Assigned
  <2>4. e = s.entry /\ m = Matched(e)
    BY <2>2 DEF Matched
  <2>5. /\ joined.matches[i].kind = "matched" /\ joined.matches[i].entry = e
        /\ joined.matches[i] = Matched(e)
    BY <2>3, <2>4 DEF Matched
  <2>6. e \in Range(entries) /\ Fits(e, outcomes[i])
    BY <2>5 DEF Joined
  <2>7. ScenarioKey(outcomes[i]) = ScenarioKey(o)
    BY <2>2, <2>3
  <2>8. Fits(e, o)
    <3> HIDE DEF o
    <3> QED
      BY <1>5, <2>3, <2>6, <2>7, SameScenario
  <2> HIDE DEF found
  <2> QED
    BY <1>4, <1>5, <2>3, <2>4, <2>5, <2>6, <2>7, <2>8
<1>6. CASE ~(o.test.container # None /\ assigned # {})
  <2>1. m = FindEntry(group, o, pass, joined.state.matched)
    BY <1>3, <1>6
  <2>2. Ids(group)
    BY DEF Ids
  <2> HIDE DEF found
  <2>3. /\ e \in group /\ m = Matched(e)
        /\ \/ e.scope = "spec"
           \/ /\ e.scope = "test" /\ e.test # None
              /\ e.id \notin joined.state.matched
              /\ NamedAs(e.test, IdentityOf(o))
    <3>1. m.kind = "matched"
      BY <1>4
    <3>2. PICK g, matched : g = group /\ matched = joined.state.matched
      OBVIOUS
    <3> HIDE DEF group, o
    <3>3. m = FindEntry(g, o, pass, matched) /\ Ids(g)
      BY <2>1, <2>2, <3>2
    <3>4. /\ m.entry \in g /\ m = Matched(m.entry)
          /\ \/ m.entry.scope = "spec"
             \/ /\ m.entry.scope = "test" /\ m.entry.test # None
                /\ m.entry.id \notin matched
                /\ NamedAs(m.entry.test, IdentityOf(o))
      BY <3>1, <3>3, FoundFacts
    <3> QED
      BY <3>2, <3>4
  <2>4. e \in Range(entries) /\ SameGroup(e, o) /\ e.spec \in specs
    BY <2>3
  <2>5. e.spec[1] = o.spec[1]
    <3> HIDE DEF o
    <3> QED
      BY <2>4, SpecSpelled
  <2>6. Fits(e, o) /\ e \in Range(entries)
    BY <2>3, <2>4, <2>5 DEF Fits
  <2> QED
    BY <1>4, <2>3, <2>6
<1> QED
  BY <1>5, <1>6

\* An outcome that is joined, or not, leaves the joined outcomes in order.
LEMMA JoinKeeps ==
    ASSUME NEW joined, NEW entries, NEW outcomes, Joined(joined, entries, outcomes),
           Ids(Range(entries)), NEW n \in DOMAIN outcomes, NEW pass \in Passes
    PROVE  Joined(JoinOutcome(joined, entries, outcomes, n, pass), entries, outcomes)
<1>0. PICK after : after = JoinOutcome(joined, entries, outcomes, n, pass)
  OBVIOUS
<1>1. PICK step : step = MatchOutcome(joined.state, entries, outcomes[n], pass)
  OBVIOUS
<1>2. CASE joined.matches[n].kind # "missing"
  BY <1>0, <1>2 DEF JoinOutcome
<1>3. CASE joined.matches[n].kind = "missing"
  <2>1. /\ after.matches = [joined.matches EXCEPT ![n] = step.match]
        /\ after.state = step.state
    BY <1>0, <1>1, <1>3 DEF JoinOutcome
  <2>2. /\ DOMAIN after.matches = DOMAIN outcomes
        /\ after.matches[n] = step.match
        /\ \A i \in DOMAIN outcomes : i # n => after.matches[i] = joined.matches[i]
    BY <2>1 DEF Joined
  <2>3. CASE step.match.kind # "matched"
    <3>1. step.state = joined.state
      <4>1. step.state = joined.state \/ step.match.kind = "matched"
        <5> DEFINE o == outcomes[n]
                   specs == SpecSpellings(entries, o)
        <5>1. PICK found, given :
                 /\ step = CASE specs = {} -> [match |-> Missing, state |-> joined.state]
                             [] Cardinality(specs) > 1 ->
                                   [match |-> Ambiguous, state |-> joined.state]
                             [] OTHER -> [match |-> found, state |-> given]
                 /\ found.kind # "matched" => given = joined.state
          BY <1>1 DEF MatchOutcome
        <5> HIDE DEF specs
        <5>2. CASE specs = {}
          <6>1. Cardinality(specs) = 0
            BY <5>2, FS_EmptySet
          <6> QED
            BY <5>1, <5>2, <6>1
        <5>3. CASE specs # {} /\ Cardinality(specs) > 1
          BY <5>1, <5>3
        <5>4. CASE specs # {} /\ ~(Cardinality(specs) > 1)
          <6>1. step = [match |-> found, state |-> given]
            BY <5>1, <5>4
          <6> QED
            BY <5>1, <6>1
        <5> QED
          BY <5>2, <5>3, <5>4
      <4> QED
        BY <2>3, <4>1
    <3>2. \A i \in DOMAIN outcomes : after.matches[i].kind = "matched" =>
             after.matches[i] = joined.matches[i] /\ i # n
      BY <2>2, <2>3
    <3>3. after.state = joined.state
      BY <2>1, <3>1
    <3>4. \A i \in DOMAIN outcomes : joined.matches[i].kind = "matched" =>
             after.matches[i] = joined.matches[i]
      BY <1>3, <2>2
    <3>5. ASSUME NEW s, Assigned(s, joined, outcomes)
          PROVE  Assigned(s, after, outcomes)
      BY <3>4, <3>5 DEF Assigned, Matched
    <3>6. \A id \in after.state.matched : \E i \in DOMAIN outcomes :
             after.matches[i].kind = "matched" /\ after.matches[i].entry.id = id
      BY <3>3, <3>4 DEF Joined
    <3> QED
      BY <1>0, <2>2, <3>2, <3>3, <3>5, <3>6 DEF Joined
  <2>4. CASE step.match.kind = "matched"
    <3> DEFINE e == step.match.entry
    <3>1. /\ e \in Range(entries) /\ Fits(e, outcomes[n])
          /\ step.match = Matched(e)
          /\ \/ e.scope = "spec"
             \/ e.scope = "test" /\ e.id \notin joined.state.matched
             \/ /\ e.scope = "test" /\ outcomes[n].test.container # None
                /\ \E i \in DOMAIN outcomes :
                      /\ outcomes[i].test.container # None
                      /\ ScenarioKey(outcomes[i]) = ScenarioKey(outcomes[n])
                      /\ joined.matches[i] = Matched(e)
          /\ step.state.matched = joined.state.matched \union {e.id}
          /\ step.state.scenarios \subseteq joined.state.scenarios \union
                {s \in {[key |-> ScenarioKey(outcomes[n]), entry |-> e]} :
                   outcomes[n].test.container # None /\ e.scope = "test"}
      BY <1>1, <2>4, MatchFacts
    <3>2. PICK d : d = e
      OBVIOUS
    <3>3. /\ after.matches[n] = Matched(d) /\ after.matches[n].kind = "matched"
          /\ after.matches[n].entry = d
          /\ after.state.matched = joined.state.matched \union {d.id}
      BY <2>1, <2>2, <2>4, <3>1, <3>2
    <3>4. \A i \in DOMAIN outcomes : joined.matches[i].kind = "matched" =>
             i # n /\ after.matches[i] = joined.matches[i]
      BY <1>3, <2>2
    <3>5. ASSUME NEW s \in after.state.scenarios
          PROVE  Assigned(s, after, outcomes)
      <4>1. CASE s \in joined.state.scenarios
        <5>1. PICK i \in DOMAIN outcomes :
                 /\ outcomes[i].test.container # None
                 /\ s.key = ScenarioKey(outcomes[i])
                 /\ s.entry.scope = "test"
                 /\ joined.matches[i] = Matched(s.entry)
          BY <4>1 DEF Joined, Assigned
        <5>2. after.matches[i] = Matched(s.entry)
          BY <3>4, <5>1 DEF Matched
        <5> QED
          BY <5>1, <5>2 DEF Assigned
      <4>2. CASE /\ s = [key |-> ScenarioKey(outcomes[n]), entry |-> d]
                 /\ outcomes[n].test.container # None /\ d.scope = "test"
        <5>1. s.key = ScenarioKey(outcomes[n]) /\ s.entry = d
          BY <4>2
        <5> QED
          BY <3>3, <4>2, <5>1 DEF Assigned
      <4> QED
        BY <2>1, <3>1, <3>2, <3>5, <4>1, <4>2
    <3>6. ASSUME NEW j \in DOMAIN outcomes, j # n,
                 after.matches[j].kind = "matched",
                 after.matches[j].entry.scope = "test", d.scope = "test",
                 after.matches[j].entry.id = d.id
          PROVE  /\ outcomes[n].test.container # None
                 /\ outcomes[j].test.container # None
                 /\ ScenarioKey(outcomes[j]) = ScenarioKey(outcomes[n])
      <4>1. after.matches[j] = joined.matches[j]
        BY <2>2, <3>6
      <4>2. d.id \in joined.state.matched
        BY <3>6, <4>1 DEF Joined
      <4>3. PICK i \in DOMAIN outcomes :
               /\ outcomes[n].test.container # None
               /\ outcomes[i].test.container # None
               /\ ScenarioKey(outcomes[i]) = ScenarioKey(outcomes[n])
               /\ joined.matches[i] = Matched(d)
        BY <3>1, <3>2, <3>6, <4>2
      <4>4. joined.matches[i].kind = "matched" /\ joined.matches[i].entry = d
        BY <4>3 DEF Matched
      <4>5. CASE i = j
        BY <4>3, <4>5
      <4>6. CASE i # j
        <5>1. /\ outcomes[j].test.container # None
              /\ ScenarioKey(outcomes[i]) = ScenarioKey(outcomes[j])
          <6> QED
            BY <3>6, <4>1, <4>4, <4>6 DEF Joined
        <5> QED
          BY <4>3, <5>1
      <4> QED
        BY <4>5, <4>6
    <3>7. Fits(d, outcomes[n]) /\ d \in Range(entries)
      BY <3>1, <3>2
    <3> HIDE DEF e
    <3>8. ASSUME NEW i \in DOMAIN outcomes, after.matches[i].kind = "matched"
          PROVE  /\ after.matches[i].entry \in Range(entries)
                 /\ Fits(after.matches[i].entry, outcomes[i])
                 /\ after.matches[i].entry.id \in after.state.matched
      <4>1. CASE i = n
        BY <3>3, <3>7, <4>1
      <4>2. CASE i # n
        <5>1. after.matches[i] = joined.matches[i]
          BY <2>2, <4>2
        <5> QED
          BY <3>3, <3>8, <5>1 DEF Joined
      <4> QED
        BY <4>1, <4>2
    <3>9. ASSUME NEW i \in DOMAIN outcomes, NEW j \in DOMAIN outcomes,
                 i # j, after.matches[i].kind = "matched",
                 after.matches[j].kind = "matched",
                 after.matches[i].entry.scope = "test",
                 after.matches[j].entry.scope = "test",
                 after.matches[i].entry.id = after.matches[j].entry.id
          PROVE  /\ outcomes[i].test.container # None
                 /\ outcomes[j].test.container # None
                 /\ ScenarioKey(outcomes[i]) = ScenarioKey(outcomes[j])
      <4>1. CASE i = n
        BY <3>3, <3>6, <3>9, <4>1
      <4>2. CASE j = n
        BY <3>3, <3>6, <3>9, <4>2
      <4>3. CASE i # n /\ j # n
        <5>1. after.matches[i] = joined.matches[i] /\ after.matches[j] = joined.matches[j]
          BY <2>2, <4>3
        <5> QED
          BY <3>9, <5>1 DEF Joined
      <4> QED
        BY <4>1, <4>2, <4>3
    <3>10. \A id \in after.state.matched : \E i \in DOMAIN outcomes :
              after.matches[i].kind = "matched" /\ after.matches[i].entry.id = id
      BY <3>3, <3>4 DEF Joined
    <3> QED
      BY <1>0, <2>2, <3>5, <3>8, <3>9, <3>10 DEF Joined
  <2> QED
    BY <2>3, <2>4
<1> QED
  BY <1>2, <1>3

\* A pass goes through the outcomes one by one.
Passed(after, joined, entries, outcomes, pass, n) ==
    after = [i \in 0 .. n |->
               IF i = 0 THEN joined
               ELSE JoinOutcome(after[i - 1], entries, outcomes, i, pass)]

LEMMA PassExists ==
    ASSUME NEW joined, NEW entries, NEW outcomes, NEW pass, NEW N \in Nat
    PROVE  \E after : Passed(after, joined, entries, outcomes, pass, N)
<1> DEFINE P(n) == \E after : Passed(after, joined, entries, outcomes, pass, n)
           wrong == {n \in Nat : ~P(n)}
<1>1. P(0)
  <2> DEFINE after == [i \in 0 .. 0 |-> joined]
  <2>1. Passed(after, joined, entries, outcomes, pass, 0)
    <3>1. \A i \in 0 .. 0 : i = 0
      OBVIOUS
    <3> QED
      BY <3>1 DEF Passed
  <2> QED
    BY <2>1
<1>2. ASSUME NEW n \in Nat, P(n) PROVE P(n + 1)
  <2>1. PICK f : Passed(f, joined, entries, outcomes, pass, n)
    BY <1>2
  <2> DEFINE g == [i \in 0 .. n + 1 |->
                     IF i = n + 1 THEN JoinOutcome(f[n], entries, outcomes, n + 1, pass)
                     ELSE f[i]]
  <2>2. \A i \in 0 .. n : f[i] = IF i = 0 THEN joined
                                 ELSE JoinOutcome(f[i - 1], entries, outcomes, i, pass)
    BY <2>1 DEF Passed
  <2>3. ASSUME NEW i \in 0 .. n + 1
        PROVE  g[i] = IF i = 0 THEN joined
                      ELSE JoinOutcome(g[i - 1], entries, outcomes, i, pass)
    <3>1. CASE i = n + 1
      <4>1. i - 1 = n /\ n \in 0 .. n + 1 /\ n # n + 1 /\ i # 0
        BY <3>1
      <4>2. g[n] = f[n] /\ g[i] = JoinOutcome(f[n], entries, outcomes, n + 1, pass)
        BY <3>1, <4>1
      <4> HIDE DEF g
      <4> QED
        BY <3>1, <4>1, <4>2
    <3>2. CASE i # n + 1
      <4>1. i \in 0 .. n /\ g[i] = f[i]
        BY <3>2
      <4>2. i # 0 => i - 1 \in 0 .. n /\ g[i - 1] = f[i - 1]
        BY <4>1
      <4> HIDE DEF g
      <4> QED
        BY <2>2, <4>1, <4>2
    <3> QED
      BY <3>1, <3>2
  <2>4. g = [i \in 0 .. n + 1 |-> g[i]]
    OBVIOUS
  <2> HIDE DEF g
  <2>5. Passed(g, joined, entries, outcomes, pass, n + 1)
    BY <2>3, <2>4 DEF Passed
  <2> QED
    BY <2>5
<1> HIDE DEF P
<1>3. CASE wrong # {}
  <2>1. wrong \in SUBSET Nat
    OBVIOUS
  <2>2. PICK n : n = Min(wrong)
    OBVIOUS
  <2>3. n \in wrong /\ \A k \in wrong : n <= k
    <3> HIDE DEF wrong
    <3> QED
      BY <1>3, <2>1, <2>2, LeastOf
  <2>4. n # 0 /\ n \in Nat /\ ~P(n)
    BY <1>1, <2>3
  <2>5. n - 1 \in Nat /\ ~(n <= n - 1)
    BY <2>4
  <2>6. P(n - 1)
    BY <2>3, <2>5
  <2>7. P((n - 1) + 1) /\ (n - 1) + 1 = n
    BY <1>2, <2>4, <2>5, <2>6
  <2> QED
    BY <2>4, <2>7
<1>4. CASE wrong = {}
  <2>1. P(N)
    BY <1>4
  <2> QED
    BY <2>1 DEF P
<1> QED
  BY <1>3, <1>4

LEMMA PassKeeps ==
    ASSUME NEW joined, NEW entries, NEW outcomes, Joined(joined, entries, outcomes),
           Ids(Range(entries)), NEW pass \in Passes,
           Len(outcomes) \in Nat, DOMAIN outcomes = 1 .. Len(outcomes)
    PROVE  Joined(RunPass(joined, entries, outcomes, pass), entries, outcomes)
<1> DEFINE N == Len(outcomes)
           after == CHOOSE f : Passed(f, joined, entries, outcomes, pass, N)
<1>1. Passed(after, joined, entries, outcomes, pass, N)
  BY PassExists
<1>2. RunPass(joined, entries, outcomes, pass) = after[N]
  BY DEF RunPass, Passed
<1> HIDE DEF after
<1>3. \A i \in 0 .. N : after[i] =
         IF i = 0 THEN joined
         ELSE JoinOutcome(after[i - 1], entries, outcomes, i, pass)
  BY <1>1 DEF Passed
<1> DEFINE wrong == {n \in 0 .. N : ~Joined(after[n], entries, outcomes)}
<1>4. CASE wrong # {}
  <2>1. wrong \in SUBSET Nat
    OBVIOUS
  <2>2. PICK n : n = Min(wrong)
    OBVIOUS
  <2>3. n \in wrong /\ \A k \in wrong : n <= k
    <3> HIDE DEF wrong
    <3> QED
      BY <1>4, <2>1, <2>2, LeastOf
  <2>4. n \in 0 .. N /\ ~Joined(after[n], entries, outcomes)
    BY <2>3
  <2>5. n # 0
    BY <1>3, <2>4
  <2>6. n - 1 \in 0 .. N /\ ~(n <= n - 1) /\ n \in DOMAIN outcomes
    BY <2>4, <2>5
  <2>7. Joined(after[n - 1], entries, outcomes)
    BY <2>3, <2>6
  <2>8. after[n] = JoinOutcome(after[n - 1], entries, outcomes, n, pass)
    BY <1>3, <2>4, <2>5
  <2> QED
    BY <2>4, <2>6, <2>7, <2>8, JoinKeeps
<1>5. CASE wrong = {}
  BY <1>2, <1>5
<1> QED
  BY <1>4, <1>5

\* Whatever the entries and the outcomes, the three passes join an outcome to
\* an entry that fits it, and no two tests to one entry.
LEMMA MatchAllJoins ==
    ASSUME NEW entries, NEW outcomes, Ids(Range(entries)),
           Len(outcomes) \in Nat, DOMAIN outcomes = 1 .. Len(outcomes)
    PROVE  Joined(MatchAll(entries, outcomes), entries, outcomes)
<1> DEFINE exact == RunPass(Unjoined(outcomes), entries, outcomes, "exact")
           near == RunPass(exact, entries, outcomes, "normalized")
<1>1. Joined(Unjoined(outcomes), entries, outcomes)
  BY DEF Unjoined, Joined, Missing
<1>2. Joined(exact, entries, outcomes)
  BY <1>1, PassKeeps DEF Passes
<1> HIDE DEF exact
<1>3. Joined(near, entries, outcomes)
  BY <1>2, PassKeeps DEF Passes
<1> HIDE DEF near
<1>4. MatchAll(entries, outcomes) = RunPass(near, entries, outcomes, "fallback")
  BY DEF MatchAll, near, exact
<1> QED
  BY <1>3, <1>4, PassKeeps DEF Passes

----------------------------------------------------------------------------
(* What the matcher of the report is sure to find.                         *)

LEMMA ByNumber ==
    ASSUME NEW N \in Nat, NEW good, 0 \in good,
           \A n \in 1 .. N : n - 1 \in good => n \in good
    PROVE  \A n \in 0 .. N : n \in good
<1> DEFINE wrong == {n \in 0 .. N : n \notin good}
<1>1. CASE wrong # {}
  <2>1. PICK n : n = Min(wrong)
    OBVIOUS
  <2>2. n \in wrong /\ \A k \in wrong : n <= k
    <3>1. wrong \in SUBSET Nat
      OBVIOUS
    <3> HIDE DEF wrong
    <3> QED
      BY <1>1, <2>1, <3>1, LeastOf
  <2>3. n \in 1 .. N /\ n - 1 \in 0 .. N /\ ~(n <= n - 1) /\ n \notin good
    BY <2>2
  <2>4. n - 1 \in good
    BY <2>2, <2>3
  <2> QED
    BY <2>3, <2>4
<1>2. CASE wrong = {}
  BY <1>2
<1> QED
  BY <1>1, <1>2

\* The states a pass goes through.
LEMMA PassStates ==
    ASSUME NEW joined, NEW entries, NEW outcomes, NEW pass, Len(outcomes) \in Nat
    PROVE  \E after :
              /\ after[0] = joined
              /\ \A n \in 1 .. Len(outcomes) : after[n] =
                    JoinOutcome(after[n - 1], entries, outcomes, n, pass)
              /\ RunPass(joined, entries, outcomes, pass) = after[Len(outcomes)]
<1> DEFINE N == Len(outcomes)
           after == CHOOSE f : Passed(f, joined, entries, outcomes, pass, N)
<1>1. Passed(after, joined, entries, outcomes, pass, N)
  BY PassExists
<1>2. RunPass(joined, entries, outcomes, pass) = after[N]
  BY DEF RunPass, Passed
<1> HIDE DEF after
<1>3. \A i \in 0 .. N : after[i] =
         IF i = 0 THEN joined
         ELSE JoinOutcome(after[i - 1], entries, outcomes, i, pass)
  BY <1>1 DEF Passed
<1>4. after[0] = joined
  BY <1>3
<1>5. \A n \in 1 .. N : n \in 0 .. N /\ n # 0
  OBVIOUS
<1> QED
  BY <1>2, <1>3, <1>4, <1>5

IsMatched(joined, i) ==
    i \in DOMAIN joined.matches /\ joined.matches[i].kind = "matched"

\* What is joined stays joined.
LEMMA JoinStays ==
    ASSUME NEW joined, NEW entries, NEW outcomes, NEW n, NEW pass,
           NEW i, IsMatched(joined, i)
    PROVE  IsMatched(JoinOutcome(joined, entries, outcomes, n, pass), i)
<1>1. PICK after : after = JoinOutcome(joined, entries, outcomes, n, pass)
  OBVIOUS
<1>2. CASE joined.matches[n].kind # "missing"
  BY <1>1, <1>2 DEF JoinOutcome
<1>3. CASE joined.matches[n].kind = "missing"
  <2>1. PICK match : after.matches = [joined.matches EXCEPT ![n] = match]
    BY <1>1, <1>3 DEF JoinOutcome
  <2>2. i # n
    BY <1>3 DEF IsMatched
  <2> QED
    BY <1>1, <2>1, <2>2 DEF IsMatched
<1> QED
  BY <1>2, <1>3

LEMMA PassStays ==
    ASSUME NEW joined, NEW entries, NEW outcomes, NEW pass, Len(outcomes) \in Nat,
           NEW i, IsMatched(joined, i)
    PROVE  IsMatched(RunPass(joined, entries, outcomes, pass), i)
<1>1. PICK after :
         /\ after[0] = joined
         /\ \A n \in 1 .. Len(outcomes) : after[n] =
               JoinOutcome(after[n - 1], entries, outcomes, n, pass)
         /\ RunPass(joined, entries, outcomes, pass) = after[Len(outcomes)]
  BY PassStates
<1> DEFINE N == Len(outcomes)
           good == {n \in 0 .. N : IsMatched(after[n], i)}
<1>2. 0 \in good
  BY <1>1
<1>3. ASSUME NEW n \in 1 .. N, n - 1 \in good PROVE n \in good
  <2>1. IsMatched(after[n], i)
    BY <1>1, <1>3, JoinStays
  <2> QED
    BY <2>1
<1>4. N \in good
  <2> HIDE DEF good
  <2>1. \A n \in 0 .. N : n \in good
    BY <1>1, <1>2, <1>3, ByNumber
  <2> QED
    BY <1>1, <2>1
<1> QED
  BY <1>1, <1>4

\* A scenario that has an entry of a test is remembered with one.
Remembered(joined, outcomes) ==
    \A i \in DOMAIN outcomes :
        /\ IsMatched(joined, i) /\ joined.matches[i].entry.scope = "test"
        /\ outcomes[i].test.container # None
        => \E s \in joined.state.scenarios : s.key = ScenarioKey(outcomes[i])

LEMMA MatchRemembers ==
    ASSUME NEW state, NEW entries, NEW outcome, NEW pass, NEW step,
           step = MatchOutcome(state, entries, outcome, pass)
    PROVE  /\ state.scenarios \subseteq step.state.scenarios
           /\ /\ step.match.kind = "matched" /\ step.match.entry.scope = "test"
              /\ outcome.test.container # None
              => \E s \in step.state.scenarios : s.key = ScenarioKey(outcome)
<1> DEFINE specs == SpecSpellings(entries, outcome)
           group == {e \in Range(entries) :
                        SameGroup(e, outcome) /\ e.spec \in specs}
           assigned == {s \in state.scenarios : s.key = ScenarioKey(outcome)}
           found == IF outcome.test.container # None /\ assigned # {}
                    THEN Matched((CHOOSE s \in assigned : TRUE).entry)
                    ELSE FindEntry(group, outcome, pass, state.matched)
           given == IF found.kind # "matched" THEN state
                    ELSE [matched |-> state.matched \cup {found.entry.id},
                          scenarios |->
                             IF outcome.test.container # None
                                /\ found.entry.scope = "test"
                             THEN state.scenarios \cup
                                     {[key |-> ScenarioKey(outcome),
                                       entry |-> found.entry]}
                             ELSE state.scenarios]
<1>1. step = CASE specs = {} -> [match |-> Missing, state |-> state]
               [] Cardinality(specs) > 1 -> [match |-> Ambiguous, state |-> state]
               [] OTHER -> [match |-> found, state |-> given]
  BY DEF MatchOutcome
<1> HIDE DEF specs, group, assigned, found
<1>2. \/ step.match.kind # "matched" /\ step.state = state
      \/ step.match = found /\ step.state = given
  <2>1. CASE specs = {}
    <3>1. Cardinality(specs) = 0
      BY <2>1, FS_EmptySet
    <3>2. step = [match |-> Missing, state |-> state]
      BY <1>1, <2>1, <3>1
    <3> QED
      BY <3>2 DEF Missing
  <2>2. CASE specs # {} /\ Cardinality(specs) > 1
    <3>1. step = [match |-> Ambiguous, state |-> state]
      BY <1>1, <2>2
    <3> QED
      BY <3>1 DEF Ambiguous
  <2>3. CASE specs # {} /\ ~(Cardinality(specs) > 1)
    <3>1. step = [match |-> found, state |-> given]
      BY <1>1, <2>3
    <3> QED
      BY <3>1
  <2> QED
    BY <2>1, <2>2, <2>3
<1>3. state.scenarios \subseteq given.scenarios
  OBVIOUS
<1>4. /\ found.kind = "matched" /\ found.entry.scope = "test"
      /\ outcome.test.container # None
      => given.scenarios = state.scenarios \cup
            {[key |-> ScenarioKey(outcome), entry |-> found.entry]}
  OBVIOUS
<1> HIDE DEF given
<1>5. CASE step.match.kind # "matched" /\ step.state = state
  BY <1>5
<1>6. CASE step.match = found /\ step.state = given
  <2>1. state.scenarios \subseteq step.state.scenarios
    BY <1>3, <1>6
  <2>2. ASSUME step.match.kind = "matched", step.match.entry.scope = "test",
               outcome.test.container # None
        PROVE  \E s \in step.state.scenarios : s.key = ScenarioKey(outcome)
    <3>1. PICK s : s = [key |-> ScenarioKey(outcome), entry |-> found.entry]
      OBVIOUS
    <3>2. s \in step.state.scenarios
      BY <1>4, <1>6, <2>2, <3>1
    <3> QED
      BY <3>1, <3>2
  <2> QED
    BY <2>1, <2>2
<1> QED
  BY <1>2, <1>5, <1>6

LEMMA JoinRemembers ==
    ASSUME NEW joined, NEW entries, NEW outcomes, NEW n \in DOMAIN outcomes,
           NEW pass, DOMAIN joined.matches = DOMAIN outcomes,
           Remembered(joined, outcomes)
    PROVE  Remembered(JoinOutcome(joined, entries, outcomes, n, pass), outcomes)
<1>1. PICK after, step :
         /\ after = JoinOutcome(joined, entries, outcomes, n, pass)
         /\ step = MatchOutcome(joined.state, entries, outcomes[n], pass)
  OBVIOUS
<1>2. CASE joined.matches[n].kind # "missing"
  BY <1>1, <1>2 DEF JoinOutcome
<1>3. CASE joined.matches[n].kind = "missing"
  <2>1. /\ after.matches = [joined.matches EXCEPT ![n] = step.match]
        /\ after.state = step.state
    BY <1>1, <1>3 DEF JoinOutcome
  <2>2. /\ joined.state.scenarios \subseteq step.state.scenarios
        /\ /\ step.match.kind = "matched" /\ step.match.entry.scope = "test"
           /\ outcomes[n].test.container # None
           => \E s \in step.state.scenarios : s.key = ScenarioKey(outcomes[n])
    BY <1>1, MatchRemembers
  <2>3. ASSUME NEW i \in DOMAIN outcomes, IsMatched(after, i),
               after.matches[i].entry.scope = "test",
               outcomes[i].test.container # None
        PROVE  \E s \in after.state.scenarios : s.key = ScenarioKey(outcomes[i])
    <3>1. CASE i = n
      <4>1. after.matches[i] = step.match
        BY <2>1, <3>1
      <4> QED
        BY <2>1, <2>2, <2>3, <3>1, <4>1 DEF IsMatched
    <3>2. CASE i # n
      <4>1. after.matches[i] = joined.matches[i]
        BY <2>1, <3>2
      <4>2. IsMatched(joined, i)
        BY <2>3, <4>1 DEF IsMatched
      <4> QED
        BY <2>1, <2>2, <2>3, <4>1, <4>2 DEF Remembered
    <3> QED
      BY <3>1, <3>2
  <2> QED
    BY <1>1, <2>3 DEF Remembered
<1> QED
  BY <1>2, <1>3

\* The entry has the very names of the outcome.
TellsOf(e, outcome) ==
    /\ SameGroup(e, outcome) /\ e.spec = outcome.spec
    /\ e.scope = "test" /\ e.test # None
    /\ IdentityOf(outcome).fullName # None
    /\ e.test.fullName = IdentityOf(outcome).fullName

LEMMA QueuedFinds ==
    ASSUME NEW group, NEW e \in Tests(group), NEW matched, e.id \notin matched
    PROVE  Queued(group, e.test.fullName, matched).kind = "matched"
<1> DEFINE among == {d \in Tests(group) :
                        d.test.fullName = e.test.fullName /\ d.id \notin matched}
<1>1. among # {}
  OBVIOUS
<1>2. Queued(group, e.test.fullName, matched) = FirstStarted(among)
  BY DEF Queued
<1> HIDE DEF among
<1> QED
  BY <1>1, <1>2 DEF FirstStarted, Matched

LEMMA MatchFinds ==
    ASSUME NEW state, NEW entries, NEW outcome, NEW e \in Range(entries),
           TellsOf(e, outcome),
           \/ e.id \notin state.matched
           \/ /\ outcome.test.container # None
              /\ \E s \in state.scenarios : s.key = ScenarioKey(outcome)
    PROVE  MatchOutcome(state, entries, outcome, "exact").match.kind = "matched"
<1> DEFINE known == {d.spec : d \in {d \in Range(entries) : SameGroup(d, outcome)}}
           specs == SpecSpellings(entries, outcome)
           group == {d \in Range(entries) :
                        SameGroup(d, outcome) /\ d.spec \in specs}
           key == ScenarioKey(outcome)
           assigned == {s \in state.scenarios : s.key = key}
           found == IF outcome.test.container # None /\ assigned # {}
                    THEN Matched((CHOOSE s \in assigned : TRUE).entry)
                    ELSE FindEntry(group, outcome, "exact", state.matched)
<1>1. specs = {outcome.spec}
  <2>1. outcome.spec \in known
    BY DEF TellsOf
  <2>2. specs = Spellings(outcome.spec, known)
    BY DEF SpecSpellings
  <2> HIDE DEF known, specs
  <2> QED
    BY <2>1, <2>2 DEF Spellings
<1>2. e \in Tests(group)
  BY <1>1 DEF TellsOf, Tests
<1>3. found.kind = "matched"
  <2>1. CASE outcome.test.container # None /\ assigned # {}
    BY <2>1 DEF Matched
  <2>2. CASE ~(outcome.test.container # None /\ assigned # {})
    <3>1. e.id \notin state.matched
      BY <2>2
    <3>2. found = FindEntry(group, outcome, "exact", state.matched)
      BY <2>2
    <3>3. PICK g, matched : g = group /\ matched = state.matched
      OBVIOUS
    <3> HIDE DEF group
    <3>4. FindEntry(g, outcome, "exact", matched)
             = Queued(g, IdentityOf(outcome).fullName, matched)
      <4>1. IdentityOf(outcome).fullName # None
        BY DEF TellsOf
      <4> QED
        BY <4>1 DEF FindEntry, FindFullName, IdentityOf
    <3>5. Queued(g, IdentityOf(outcome).fullName, matched).kind = "matched"
      BY <1>2, <3>1, <3>3, QueuedFinds DEF TellsOf
    <3> HIDE DEF found
    <3> QED
      BY <3>2, <3>3, <3>4, <3>5
  <2> QED
    BY <2>1, <2>2
<1>4. PICK given : MatchOutcome(state, entries, outcome, "exact") =
         CASE specs = {} -> [match |-> Missing, state |-> state]
           [] Cardinality(specs) > 1 -> [match |-> Ambiguous, state |-> state]
           [] OTHER -> [match |-> found, state |-> given]
  BY DEF MatchOutcome
<1> HIDE DEF found, specs
<1>5. specs # {} /\ ~(Cardinality(specs) > 1)
  <2>1. Cardinality(specs) = 1
    BY <1>1, FS_Singleton
  <2> QED
    BY <1>1, <2>1
<1>6. MatchOutcome(state, entries, outcome, "exact") =
         [match |-> found, state |-> given]
  BY <1>4, <1>5
<1> QED
  BY <1>3, <1>6

\* An outcome is joined if an entry has its very names, and none of the other
\* outcomes, except for those of the same scenario.
OnlyOne(e, outcomes, i) ==
    \A j \in DOMAIN outcomes : Fits(e, outcomes[j]) /\ j # i =>
        /\ outcomes[i].test.container # None
        /\ outcomes[j].test.container # None
        /\ ScenarioKey(outcomes[i]) = ScenarioKey(outcomes[j])

LEMMA ExactFinds ==
    ASSUME NEW entries, NEW outcomes, Numbered(Range(entries)),
           NEW joined, Joined(joined, entries, outcomes),
           Remembered(joined, outcomes),
           NEW i \in DOMAIN outcomes, joined.matches[i].kind = "missing",
           NEW e \in Range(entries), TellsOf(e, outcomes[i]),
           OnlyOne(e, outcomes, i)
    PROVE  IsMatched(JoinOutcome(joined, entries, outcomes, i, "exact"), i)
<1>1. PICK step :
         step = MatchOutcome(joined.state, entries, outcomes[i], "exact")
  OBVIOUS
<1>2. \/ e.id \notin joined.state.matched
      \/ /\ outcomes[i].test.container # None
         /\ \E s \in joined.state.scenarios : s.key = ScenarioKey(outcomes[i])
  <2> SUFFICES ASSUME e.id \in joined.state.matched
               PROVE  /\ outcomes[i].test.container # None
                      /\ \E s \in joined.state.scenarios :
                            s.key = ScenarioKey(outcomes[i])
    OBVIOUS
  <2>1. PICK j \in DOMAIN outcomes :
           joined.matches[j].kind = "matched" /\ joined.matches[j].entry.id = e.id
    BY DEF Joined
  <2>2. /\ joined.matches[j].entry \in Range(entries)
        /\ Fits(joined.matches[j].entry, outcomes[j])
    BY <2>1 DEF Joined
  <2>3. joined.matches[j].entry = e
    BY <2>1, <2>2 DEF Numbered
  <2>4. j # i
    BY <2>1
  <2>5. /\ outcomes[i].test.container # None /\ outcomes[j].test.container # None
        /\ ScenarioKey(outcomes[i]) = ScenarioKey(outcomes[j])
    BY <2>2, <2>3, <2>4 DEF OnlyOne
  <2>6. IsMatched(joined, j) /\ joined.matches[j].entry.scope = "test"
    BY <2>1, <2>3 DEF IsMatched, Joined, TellsOf
  <2>7. \E s \in joined.state.scenarios : s.key = ScenarioKey(outcomes[j])
    BY <2>5, <2>6 DEF Remembered
  <2> QED
    BY <2>5, <2>7
<1>3. step.match.kind = "matched"
  BY <1>1, <1>2, MatchFinds
<1>4. JoinOutcome(joined, entries, outcomes, i, "exact").matches
         = [joined.matches EXCEPT ![i] = step.match]
  BY <1>1 DEF JoinOutcome
<1>5. i \in DOMAIN joined.matches
  BY DEF Joined
<1> QED
  BY <1>3, <1>4, <1>5 DEF IsMatched

\* The state after some outcomes of the first pass, for one outcome.
Awaits(joined, entries, outcomes, i, n) ==
    /\ Joined(joined, entries, outcomes) /\ Remembered(joined, outcomes)
    /\ n < i => joined.matches[i].kind = "missing"
    /\ i <= n => IsMatched(joined, i)

LEMMA ExactStep ==
    ASSUME NEW entries, NEW outcomes, Numbered(Range(entries)),
           DOMAIN outcomes \in SUBSET Nat,
           NEW i \in DOMAIN outcomes, NEW n \in DOMAIN outcomes,
           NEW joined, Awaits(joined, entries, outcomes, i, n - 1),
           NEW e \in Range(entries), TellsOf(e, outcomes[i]),
           OnlyOne(e, outcomes, i)
    PROVE  Awaits(JoinOutcome(joined, entries, outcomes, n, "exact"),
                  entries, outcomes, i, n)
<1>1. PICK after : after = JoinOutcome(joined, entries, outcomes, n, "exact")
  OBVIOUS
<1>2. /\ Joined(joined, entries, outcomes) /\ Remembered(joined, outcomes)
      /\ DOMAIN joined.matches = DOMAIN outcomes
  BY DEF Awaits, Joined
<1>3. Joined(after, entries, outcomes)
  <2>1. Ids(Range(entries)) /\ "exact" \in Passes
    BY DEF Ids, Numbered, Passes
  <2> QED
    BY <1>1, <1>2, <2>1, JoinKeeps
<1>4. Remembered(after, outcomes)
  BY <1>1, <1>2, JoinRemembers
<1>5. i \in Nat /\ n \in Nat
  OBVIOUS
<1>6. ASSUME n < i PROVE after.matches[i].kind = "missing"
  <2>1. joined.matches[i].kind = "missing" /\ i # n
    BY <1>5, <1>6 DEF Awaits
  <2>2. CASE joined.matches[n].kind # "missing"
    BY <1>1, <2>1, <2>2 DEF JoinOutcome
  <2>3. CASE joined.matches[n].kind = "missing"
    <3>1. PICK match : after.matches = [joined.matches EXCEPT ![n] = match]
      BY <1>1, <2>3 DEF JoinOutcome
    <3> QED
      BY <1>2, <2>1, <3>1
  <2> QED
    BY <2>2, <2>3
<1>7. ASSUME i <= n PROVE IsMatched(after, i)
  <2>1. CASE i = n
    <3>1. joined.matches[i].kind = "missing"
      BY <1>5, <2>1 DEF Awaits
    <3> QED
      BY <1>1, <1>2, <2>1, <3>1, ExactFinds
  <2>2. CASE i # n
    <3>1. IsMatched(joined, i)
      BY <1>5, <1>7, <2>2 DEF Awaits
    <3> QED
      BY <1>1, <3>1, JoinStays
  <2> QED
    BY <2>1, <2>2
<1> QED
  BY <1>1, <1>3, <1>4, <1>6, <1>7 DEF Awaits

\* Whatever the entries and the outcomes, an outcome is joined if there is an
\* entry of its run, session, spec file, attempt and exact full name, and the
\* entry fits no other outcome, except for those of the same scenario
\* (matchOutcomes of manifest-matcher.ts).
LEMMA MatchAllFinds ==
    ASSUME NEW entries, NEW outcomes, Numbered(Range(entries)),
           Len(outcomes) \in Nat, DOMAIN outcomes = 1 .. Len(outcomes),
           NEW i \in DOMAIN outcomes,
           NEW e \in Range(entries), TellsOf(e, outcomes[i]),
           OnlyOne(e, outcomes, i)
    PROVE  IsMatched(MatchAll(entries, outcomes), i)
<1>1. PICK after :
         /\ after[0] = Unjoined(outcomes)
         /\ \A n \in 1 .. Len(outcomes) : after[n] =
               JoinOutcome(after[n - 1], entries, outcomes, n, "exact")
         /\ RunPass(Unjoined(outcomes), entries, outcomes, "exact")
               = after[Len(outcomes)]
  BY PassStates
<1> DEFINE N == Len(outcomes)
           good == {n \in 0 .. N : Awaits(after[n], entries, outcomes, i, n)}
<1>2. 0 \in good
  <2>1. Joined(Unjoined(outcomes), entries, outcomes)
    BY DEF Unjoined, Joined, Missing
  <2>2. /\ Unjoined(outcomes).matches[i].kind = "missing"
        /\ \A j : ~IsMatched(Unjoined(outcomes), j)
    BY DEF Unjoined, Missing, IsMatched
  <2>3. Remembered(Unjoined(outcomes), outcomes)
    BY <2>2 DEF Remembered
  <2>4. ~(i <= 0)
    OBVIOUS
  <2>5. Awaits(Unjoined(outcomes), entries, outcomes, i, 0)
    BY <2>1, <2>2, <2>3, <2>4 DEF Awaits
  <2> QED
    BY <1>1, <2>5
<1>3. ASSUME NEW n \in 1 .. N, n - 1 \in good PROVE n \in good
  <2>1. DOMAIN outcomes \in SUBSET Nat /\ n \in DOMAIN outcomes
    OBVIOUS
  <2>2. Awaits(after[n - 1], entries, outcomes, i, n - 1)
    BY <1>3
  <2>3. Awaits(JoinOutcome(after[n - 1], entries, outcomes, n, "exact"),
               entries, outcomes, i, n)
    BY <2>1, <2>2, ExactStep
  <2> QED
    BY <1>1, <2>3
<1>4. N \in good
  <2> HIDE DEF good
  <2>1. \A n \in 0 .. N : n \in good
    BY <1>2, <1>3, ByNumber
  <2> QED
    BY <2>1
<1>5. PICK exact : exact = RunPass(Unjoined(outcomes), entries, outcomes, "exact")
  OBVIOUS
<1>6. IsMatched(exact, i)
  BY <1>1, <1>4, <1>5 DEF Awaits
<1>7. PICK near : near = RunPass(exact, entries, outcomes, "normalized")
  OBVIOUS
<1>8. IsMatched(near, i)
  BY <1>6, <1>7, PassStays
<1>9. IsMatched(RunPass(near, entries, outcomes, "fallback"), i)
  BY <1>8, PassStays
<1> QED
  BY <1>5, <1>7, <1>9 DEF MatchAll

----------------------------------------------------------------------------
(* What the report shows.                                                  *)

\* Fragments are put behind one another.
Flattened(flat, seqs, n) ==
    flat = [i \in 1 .. n |-> IF i = 1 THEN seqs[i] ELSE flat[i - 1] \o seqs[i]]

LEMMA FlattenExists ==
    ASSUME NEW seqs, NEW N \in Nat, N >= 1
    PROVE  \E flat : Flattened(flat, seqs, N)
<1> DEFINE P(n) == \E flat : Flattened(flat, seqs, n)
           wrong == {n \in Nat : n >= 1 /\ ~P(n)}
<1>1. P(1)
  <2> DEFINE flat == [i \in 1 .. 1 |-> seqs[i]]
  <2>1. Flattened(flat, seqs, 1)
    <3>1. \A i \in 1 .. 1 : i = 1
      OBVIOUS
    <3> QED
      BY <3>1 DEF Flattened
  <2> QED
    BY <2>1
<1>2. ASSUME NEW n \in Nat, n >= 1, P(n) PROVE P(n + 1)
  <2>1. PICK f : Flattened(f, seqs, n)
    BY <1>2
  <2> DEFINE g == [i \in 1 .. n + 1 |->
                     IF i = n + 1 THEN f[n] \o seqs[n + 1] ELSE f[i]]
  <2>2. \A i \in 1 .. n : f[i] = IF i = 1 THEN seqs[i] ELSE f[i - 1] \o seqs[i]
    BY <2>1 DEF Flattened
  <2>3. ASSUME NEW i \in 1 .. n + 1
        PROVE  g[i] = IF i = 1 THEN seqs[i] ELSE g[i - 1] \o seqs[i]
    <3>1. CASE i = n + 1
      <4>1. i - 1 = n /\ n \in 1 .. n + 1 /\ n # n + 1 /\ i # 1
        BY <1>2, <3>1
      <4>2. g[n] = f[n] /\ g[i] = f[n] \o seqs[n + 1]
        BY <3>1, <4>1
      <4> HIDE DEF g
      <4> QED
        BY <3>1, <4>1, <4>2
    <3>2. CASE i # n + 1
      <4>1. i \in 1 .. n /\ g[i] = f[i]
        BY <3>2
      <4>2. i # 1 => i - 1 \in 1 .. n /\ g[i - 1] = f[i - 1]
        BY <4>1
      <4> HIDE DEF g
      <4> QED
        BY <2>2, <4>1, <4>2
    <3> QED
      BY <3>1, <3>2
  <2>4. g = [i \in 1 .. n + 1 |-> g[i]]
    OBVIOUS
  <2> HIDE DEF g
  <2>5. Flattened(g, seqs, n + 1)
    BY <2>3, <2>4 DEF Flattened
  <2> QED
    BY <2>5
<1> HIDE DEF P
<1>3. CASE wrong # {}
  <2>1. wrong \in SUBSET Nat
    OBVIOUS
  <2>2. PICK n : n = Min(wrong)
    OBVIOUS
  <2>3. n \in wrong /\ \A k \in wrong : n <= k
    <3> HIDE DEF wrong
    <3> QED
      BY <1>3, <2>1, <2>2, LeastOf
  <2>4. n # 1 /\ n \in Nat /\ n >= 1 /\ ~P(n)
    BY <1>1, <2>3
  <2>5. n - 1 \in Nat /\ n - 1 >= 1 /\ ~(n <= n - 1)
    BY <2>4
  <2>6. P(n - 1)
    BY <2>3, <2>5
  <2>7. P((n - 1) + 1) /\ (n - 1) + 1 = n
    BY <1>2, <2>4, <2>5, <2>6
  <2> QED
    BY <2>4, <2>7
<1>4. CASE wrong = {}
  <2>1. P(N)
    BY <1>4
  <2> QED
    BY <2>1 DEF P
<1> QED
  BY <1>3, <1>4

\* What two fragments hold, their concatenation holds.
LEMMA ConcatHolds ==
    ASSUME NEW s, s \in Seq(Range(s)), NEW t, t \in Seq(Range(t))
    PROVE  /\ s \o t \in Seq(Range(s \o t))
           /\ Range(s \o t) = Range(s) \union Range(t)
<1>1. PICK T : T = Range(s) \union Range(t)
  OBVIOUS
<1>2. s \in Seq(T) /\ t \in Seq(T)
  <2>1. Range(s) \subseteq T /\ Range(t) \subseteq T
    BY <1>1
  <2> QED
    BY <2>1, SeqOfMore
<1>3. PICK u : u = s \o t
  OBVIOUS
<1>4. u \in Seq(T) /\ Len(u) = Len(s) + Len(t)
      /\ Len(s) \in Nat /\ Len(t) \in Nat
      /\ DOMAIN s = 1 .. Len(s) /\ DOMAIN t = 1 .. Len(t)
      /\ DOMAIN u = 1 .. Len(u)
  BY <1>2, <1>3
<1>5. /\ \A i \in DOMAIN s : i \in DOMAIN u /\ u[i] = s[i]
      /\ \A i \in DOMAIN t : i + Len(s) \in DOMAIN u /\ u[i + Len(s)] = t[i]
  BY <1>2, <1>3, <1>4
<1>6. \A i \in DOMAIN u : u[i] \in T
  BY <1>4
<1>7. Range(u) = T
  <2>1. Range(u) \subseteq T
    BY <1>6 DEF Range
  <2>2. T \subseteq Range(u)
    BY <1>1, <1>5 DEF Range
  <2> QED
    BY <2>1, <2>2
<1> QED
  BY <1>1, <1>3, <1>4, <1>7

Lists(seqs) ==
    /\ seqs \in Seq(Range(seqs))
    /\ \A i \in DOMAIN seqs : seqs[i] \in Seq(Range(seqs[i]))
AllOf(seqs) == UNION {Range(seqs[i]) : i \in DOMAIN seqs}

LEMMA FlattenFacts ==
    ASSUME NEW seqs, Lists(seqs), seqs # <<>>
    PROVE  /\ FlattenSeq(seqs) \in Seq(Range(FlattenSeq(seqs)))
           /\ Range(FlattenSeq(seqs)) = AllOf(seqs)
<1> DEFINE N == Len(seqs)
           flat == CHOOSE f : Flattened(f, seqs, N)
<1>1. N \in Nat /\ N >= 1 /\ DOMAIN seqs = 1 .. N
  BY DEF Lists
<1>2. Flattened(flat, seqs, N)
  BY <1>1, FlattenExists
<1>3. FlattenSeq(seqs) = flat[N]
  BY <1>1 DEF FlattenSeq, Flattened
<1> HIDE DEF flat
<1>4. \A i \in 1 .. N :
         flat[i] = IF i = 1 THEN seqs[i] ELSE flat[i - 1] \o seqs[i]
  BY <1>2 DEF Flattened
<1> DEFINE Good(n) ==
             /\ flat[n] \in Seq(Range(flat[n]))
             /\ Range(flat[n]) = UNION {Range(seqs[i]) : i \in 1 .. n}
           wrong == {n \in 1 .. N : ~Good(n)}
<1>5. ASSUME NEW n \in 1 .. N, n # 1 => Good(n - 1)
      PROVE  Good(n)
  <2>0. seqs[n] \in Seq(Range(seqs[n]))
    BY <1>1 DEF Lists
  <2>1. CASE n = 1
    <3>1. flat[n] = seqs[n]
      BY <1>4, <2>1
    <3>2. {Range(seqs[i]) : i \in 1 .. n} = {Range(seqs[n])}
      BY <2>1
    <3> QED
      BY <2>0, <3>1, <3>2
  <2>2. CASE n # 1
    <3>1. flat[n] = flat[n - 1] \o seqs[n]
      BY <1>4, <2>2
    <3>2. PICK before : before = flat[n - 1]
      OBVIOUS
    <3>3. /\ before \in Seq(Range(before))
          /\ Range(before) = UNION {Range(seqs[i]) : i \in 1 .. n - 1}
      BY <1>5, <2>2, <3>2
    <3>4. /\ flat[n] \in Seq(Range(flat[n]))
          /\ Range(flat[n]) = Range(before) \union Range(seqs[n])
      <4>1. PICK piece : piece = seqs[n]
        OBVIOUS
      <4>2. /\ before \o piece \in Seq(Range(before \o piece))
            /\ Range(before \o piece) = Range(before) \union Range(piece)
        BY <2>0, <3>3, <4>1, ConcatHolds
      <4> QED
        BY <3>1, <3>2, <4>1, <4>2
    <3>5. \A i : i \in 1 .. n <=> i \in 1 .. n - 1 \/ i = n
      BY <1>1
    <3>6. UNION {Range(seqs[i]) : i \in 1 .. n} =
             (UNION {Range(seqs[i]) : i \in 1 .. n - 1}) \union Range(seqs[n])
      BY <3>5
    <3> QED
      BY <3>3, <3>4, <3>6
  <2> QED
    BY <2>1, <2>2
<1> HIDE DEF Good
<1>6. CASE wrong # {}
  <2>1. wrong \in SUBSET Nat
    OBVIOUS
  <2>2. PICK n : n = Min(wrong)
    OBVIOUS
  <2>3. n \in wrong /\ \A k \in wrong : n <= k
    <3> HIDE DEF wrong
    <3> QED
      BY <1>6, <2>1, <2>2, LeastOf
  <2>4. n \in 1 .. N /\ ~Good(n)
    BY <2>3
  <2>5. n # 1 => n - 1 \in 1 .. N /\ ~(n <= n - 1)
    BY <2>4
  <2>6. n # 1 => Good(n - 1)
    BY <2>3, <2>5
  <2> QED
    BY <1>5, <2>4, <2>6
<1>7. CASE wrong = {}
  <2>1. Good(N)
    BY <1>1, <1>7
  <2> QED
    BY <1>1, <1>3, <2>1 DEF Good, AllOf
<1> QED
  BY <1>6, <1>7

LEMMA ReverseFacts ==
    ASSUME NEW seqs, Lists(seqs)
    PROVE  /\ Lists(Reverse(seqs)) /\ AllOf(Reverse(seqs)) = AllOf(seqs)
           /\ seqs # <<>> => Reverse(seqs) # <<>>
<1> DEFINE N == Len(seqs)
<1>1. N \in Nat /\ DOMAIN seqs = 1 .. N
  BY DEF Lists
<1>2. PICK r : r = Reverse(seqs)
  OBVIOUS
<1>3. r = [i \in 1 .. N |-> seqs[(N - i) + 1]]
  BY <1>2 DEF Reverse
<1>4. DOMAIN r = DOMAIN seqs
  BY <1>1, <1>3
<1>5. \A i \in DOMAIN r : (N - i) + 1 \in DOMAIN seqs /\ r[i] = seqs[(N - i) + 1]
  BY <1>1, <1>3
<1>6. \A i \in DOMAIN seqs :
         (N - i) + 1 \in DOMAIN r /\ r[(N - i) + 1] = seqs[i]
  <2> SUFFICES ASSUME NEW i \in DOMAIN seqs
               PROVE  (N - i) + 1 \in DOMAIN r /\ r[(N - i) + 1] = seqs[i]
    OBVIOUS
  <2>1. (N - i) + 1 \in DOMAIN r /\ (N - ((N - i) + 1)) + 1 = i
    BY <1>1, <1>4
  <2> QED
    BY <1>5, <2>1
<1>7. r \in Seq(Range(r))
  <2>1. \A i \in 1 .. N : r[i] \in Range(r)
    BY <1>1, <1>4 DEF Range
  <2>2. r \in [1 .. N -> Range(r)]
    BY <1>3, <2>1
  <2> QED
    BY <1>1, <2>2
<1>8. \A i \in DOMAIN r : r[i] \in Seq(Range(r[i]))
  BY <1>5 DEF Lists
<1>9. AllOf(r) = AllOf(seqs)
  BY <1>5, <1>6 DEF AllOf
<1>10. seqs # <<>> => r # <<>>
  <2>1. seqs # <<>> => N >= 1
    BY DEF Lists
  <2>2. Len(r) = N
    BY <1>1, <1>3
  <2> QED
    BY <2>1, <2>2
<1> QED
  BY <1>2, <1>7, <1>8, <1>9, <1>10 DEF Lists

----------------------------------------------------------------------------
(* What each step of a worker does to it.                                  *)

\* The worker as it is once the line it is writing is written.
Settle(p) ==
    IF p.hook = "write" THEN Continue([p EXCEPT !.write = NoEntry], p.then) ELSE p

Now == Settle(process)
Alive == process # NoWorker

Like(a, b, changed) ==
    /\ DOMAIN a = ProcessFields
    /\ \A f \in ProcessFields \ changed : a[f] = b[f]

\* The step q leaves the list of entries alone, or adds e and writes it.
Writes(q, p, e, then) ==
    /\ q.hook = "write" /\ q.then = then /\ q.write = e
    /\ Settle(q).completed = Kept(p.completed, e)
Silent(q, p) ==
    /\ q.hook # "write" /\ q.completed = p.completed

LEMMA AdvanceLike ==
    ASSUME NEW p, DOMAIN p = ProcessFields
    PROVE  /\ Like(Advance(p), p, {"try", "at", "bad", "result", "hook"})
           /\ Advance(p).result = None
           /\ \/ /\ Advance(p).hook = "begin"
                 /\ Advance(p).at = p.at /\ Advance(p).try = p.try + 1
              \/ /\ Advance(p).hook = "begin"
                 /\ Advance(p).at = p.at + 1 /\ Advance(p).try = 0
                 /\ p.at < Len(scene.plan)
              \/ /\ Advance(p).hook = "teardown"
                 /\ Advance(p).at = p.at /\ Advance(p).try = p.try
BY DEF Like, ProcessFields, Advance

LEMMA ResetLike ==
    ASSUME NEW p, DOMAIN p = ProcessFields
    PROVE  /\ Like(ResetWorkerState(p), p,
                   {"seen", "failed", "active", "overlapRecorded", "hook",
                    "resume"})
           /\ ResetWorkerState(p).active = 0 /\ ResetWorkerState(p).hook = p.resume
           /\ ResetWorkerState(p).resume = "exit"
BY DEF Like, ProcessFields, ResetWorkerState

LEMMA ContinueLike ==
    ASSUME NEW p, DOMAIN p = ProcessFields,
           NEW then \in {"eligible", "test", "finalize", "flush"}
    PROVE  Like(Continue(p, then), p, {"hook"}) /\ Continue(p, then).hook = then
BY DEF Like, ProcessFields, Continue

LEMMA SettlesLike ==
    ASSUME NEW p, DOMAIN p = ProcessFields, NEW e,
           NEW then \in {"eligible", "test", "finalize", "flush"}
    PROVE  /\ Like(Settle(Journaled(p, e, then)), p,
                   {"completed", "write", "then", "hook"})
           /\ Settle(Journaled(p, e, then)).hook = then
           /\ Writes(Journaled(p, e, then), p, e, then)
BY DEF Like, ProcessFields, Settle, Continue, Journaled, Writes

LEMMA SettlesNext ==
    ASSUME NEW p, DOMAIN p = ProcessFields, NEW e
    PROVE  /\ Like(Settle(Journaled(p, e, "next")), Advance(p),
                   {"completed", "write", "then"})
           /\ Writes(Journaled(p, e, "next"), p, e, "next")
<1> DEFINE j == [Journaled(p, e, "next") EXCEPT !.write = NoEntry]
<1>1. /\ Settle(Journaled(p, e, "next")) = Advance(j)
      /\ Journaled(p, e, "next").hook = "write"
      /\ Journaled(p, e, "next").then = "next"
      /\ Journaled(p, e, "next").write = e
  BY DEF Settle, Continue, Journaled, ProcessFields
<1>2. /\ Like(j, p, {"completed", "write", "then", "hook"})
      /\ j.completed = Kept(p.completed, e)
  BY DEF Like, ProcessFields, Journaled
<1> HIDE DEF j
<1>3. Like(Advance(j), j, {"try", "at", "bad", "result", "hook"})
  BY <1>2, AdvanceLike DEF Like
<1>4. Advance(j).completed = Kept(p.completed, e)
  BY <1>2, <1>3 DEF Like, ProcessFields
<1>5. Like(Advance(p), p, {"try", "at", "bad", "result", "hook"})
  BY AdvanceLike
<1>6. \A f \in ProcessFields \ {"try", "at", "bad", "result", "hook",
                                "completed", "write", "then"} :
         Advance(j)[f] = Advance(p)[f]
  BY <1>2, <1>3, <1>5 DEF Like
<1>7. /\ j.at = p.at /\ j.try = p.try /\ j.bad = p.bad /\ j.result = p.result
  BY <1>2 DEF Like, ProcessFields
<1>8. /\ Advance(j).at = Advance(p).at /\ Advance(j).try = Advance(p).try
      /\ Advance(j).bad = Advance(p).bad
      /\ Advance(j).result = Advance(p).result
      /\ Advance(j).hook = Advance(p).hook
  BY <1>2, <1>7 DEF Advance, Like, ProcessFields
<1>9. Like(Advance(j), Advance(p), {"completed", "write", "then"})
  BY <1>3, <1>6, <1>8 DEF Like
<1> QED
  BY <1>1, <1>4, <1>9 DEF Writes

\* What completing the current entity comes to.
LEMMA CompletesLike ==
    ASSUME NEW p, DOMAIN p = ProcessFields, p.draft # NoDraft,
           NEW options, NEW result,
           NEW then \in {"test", "flush", "next"}
    PROVE  LET c == CompleteCurrent(p, options, result, then)
               entry == BuildEntry(p.draft, options,
                                   CombineResults({p.draft.result, result}))
           IN
           /\ Writes(c, p, entry, then)
           /\ Settle(c).draft = NoDraft /\ Settle(c).last = p.draft.id
           /\ Like(Settle(c), Continue(p, then),
                   {"completed", "write", "then", "draft", "last"})
<1> DEFINE d == [p EXCEPT !.draft = NoDraft, !.last = p.draft.id]
           entry == BuildEntry(p.draft, options,
                               CombineResults({p.draft.result, result}))
           c == CompleteCurrent(p, options, result, then)
<1>1. c = Journaled(d, entry, then)
  BY DEF CompleteCurrent
<1>2. /\ Like(d, p, {"draft", "last"}) /\ d.draft = NoDraft
      /\ d.last = p.draft.id /\ DOMAIN d = ProcessFields
      /\ d.completed = p.completed
  BY DEF Like, ProcessFields
<1> HIDE DEF d, entry
<1>3. CASE then \in {"test", "flush"}
  <2>1. /\ Like(Settle(c), d, {"completed", "write", "then", "hook"})
        /\ Settle(c).hook = then
        /\ Writes(c, d, entry, then)
    BY <1>1, <1>2, <1>3, SettlesLike
  <2>2. Like(Continue(p, then), p, {"hook"}) /\ Continue(p, then).hook = then
    BY <1>3, ContinueLike
  <2>3. Writes(c, p, entry, then)
    BY <1>2, <2>1 DEF Writes
  <2>4. Settle(c).draft = NoDraft /\ Settle(c).last = p.draft.id
    BY <1>2, <2>1 DEF Like, ProcessFields
  <2>5. Like(Settle(c), Continue(p, then),
             {"completed", "write", "then", "draft", "last"})
    BY <1>2, <2>1, <2>2 DEF Like
  <2> QED
    BY <2>3, <2>4, <2>5 DEF c, entry
<1>4. CASE then = "next"
  <2>1. /\ Like(Settle(c), Advance(d), {"completed", "write", "then"})
        /\ Writes(c, d, entry, then)
    BY <1>1, <1>2, <1>4, SettlesNext
  <2>2. /\ Like(Advance(d), d, {"try", "at", "bad", "result", "hook"})
        /\ Like(Advance(p), p, {"try", "at", "bad", "result", "hook"})
    BY <1>2, AdvanceLike
  <2>3. d.at = p.at /\ d.try = p.try /\ d.bad = p.bad /\ d.result = p.result
    BY <1>2 DEF Like, ProcessFields
  <2>4. /\ Advance(d).at = Advance(p).at /\ Advance(d).try = Advance(p).try
        /\ Advance(d).bad = Advance(p).bad /\ Advance(d).hook = Advance(p).hook
        /\ Advance(d).result = Advance(p).result
    BY <1>2, <2>3 DEF Advance, Like, ProcessFields
  <2>5. Like(Advance(d), Advance(p), {"draft", "last"})
    BY <1>2, <2>2, <2>4 DEF Like
  <2>6. Continue(p, then) = Advance(p)
    BY <1>4 DEF Continue
  <2>7. Writes(c, p, entry, then)
    BY <1>2, <2>1 DEF Writes
  <2>8. Settle(c).draft = NoDraft /\ Settle(c).last = p.draft.id
    BY <1>2, <2>1, <2>2 DEF Like, ProcessFields
  <2>9. Like(Settle(c), Continue(p, then),
             {"completed", "write", "then", "draft", "last"})
    BY <2>1, <2>5, <2>6 DEF Like
  <2> QED
    BY <2>7, <2>8, <2>9 DEF c, entry
<1> QED
  BY <1>3, <1>4

----------------------------------------------------------------------------
(* What each step makes of the worker, once its line is written.           *)

LEMMA ParallelEffect ==
    ASSUME RecordParallelEntity, DOMAIN process = ProcessFields
    PROVE  LET q == Settle(process') IN
           /\ Like(q, process, {"hook", "completed", "write", "then", "begun",
                                "overlapRecorded"})
           /\ process.hook = "begin" /\ q.hook = "test"
           /\ process.reason = Parallel
           /\ \/ Silent(process', process)
              \/ \E d, options :
                    Writes(process', process,
                           BuildEntry(CreateDraft(d, Current), options,
                                      Current.skippedResult), "test")
<1> DEFINE q == Settle(process')
           p == [process EXCEPT !.overlapRecorded = TRUE]
           d == [p EXCEPT !.begun = Append(@, IdentityKey(Current))]
           entry == BuildEntry(CreateDraft(p, Current), Decline(Parallel),
                               Current.skippedResult)
<1>1. process.hook = "begin" /\ process.reason = Parallel
  BY DEF RecordParallelEntity, Overlapping
<1>2. \/ process' = [process EXCEPT !.hook = "test"]
      \/ process' = Journaled(d, entry, "test")
  BY DEF RecordParallelEntity, RecordSkippedEntity
<1>3. CASE process' = [process EXCEPT !.hook = "test"]
  BY <1>1, <1>3 DEF Like, ProcessFields, Silent, Settle
<1>4. CASE process' = Journaled(d, entry, "test")
  <2>1. /\ Like(d, process, {"begun", "overlapRecorded"})
        /\ d.completed = process.completed /\ DOMAIN d = ProcessFields
    BY DEF Like, ProcessFields
  <2> HIDE DEF d
  <2>2. /\ Like(q, d, {"completed", "write", "then", "hook"})
        /\ q.hook = "test"
        /\ Writes(process', d, entry, "test")
    BY <1>4, <2>1, SettlesLike
  <2>3. Writes(process', process, entry, "test")
    BY <2>1, <2>2 DEF Writes
  <2>4. Like(q, process, {"hook", "completed", "write", "then", "begun",
                          "overlapRecorded"})
    BY <2>1, <2>2 DEF Like
  <2> QED
    BY <1>1, <2>2, <2>3, <2>4
<1> QED
  BY <1>2, <1>3, <1>4

LEMMA JoinEffect ==
    ASSUME JoinSpecEntry, DOMAIN process = ProcessFields,
           DOMAIN process.draft = DraftFields
    PROVE  LET q == Settle(process') IN
           /\ Like(q, process, {"hook", "already", "draft"})
           /\ process.hook = "begin" /\ q.hook = "eligible"
           /\ process.reason # Parallel
           /\ scene.scope = "spec" /\ process.draft # NoDraft
           /\ q.already = TRUE
           /\ q.draft = [process.draft EXCEPT !.covers = @ \union {Execution}]
           /\ Silent(process', process)
<1>1. process' = [process EXCEPT
         !.already = TRUE,
         !.draft = [process.draft EXCEPT !.covers = @ \union {Execution}],
         !.hook = "eligible"]
  BY DEF JoinSpecEntry
<1> QED
  BY <1>1 DEF JoinSpecEntry, Overlapping, Like, ProcessFields, Silent, Settle

LEMMA BeginEffect ==
    ASSUME BeginEntity, DOMAIN process = ProcessFields
    PROVE  LET q == Settle(process')
               d == CreateDraft(process, Current) IN
           /\ Like(q, process, {"hook", "completed", "write", "then", "begun",
                                "already", "draft"})
           /\ process.hook = "begin" /\ q.hook = "eligible"
           /\ process.reason # Parallel
           /\ scene.scope = "test" \/ process.draft = NoDraft
           /\ q.already = FALSE /\ q.draft = d
           /\ Writes(process', process, BuildEntry(d, Checkpoint, "unknown"),
                     "eligible")
           /\ nextId' = nextId + 1
<1> DEFINE q == Settle(process')
           d == CreateDraft(process, Current)
           p == [process EXCEPT !.already = FALSE, !.draft = d,
                                !.begun = Append(@, IdentityKey(Current))]
           entry == BuildEntry(d, Checkpoint, "unknown")
<1>1. /\ process' = Journaled(p, entry, "eligible")
      /\ process.hook = "begin" /\ process.reason # Parallel
      /\ scene.scope = "test" \/ process.draft = NoDraft
      /\ nextId' = nextId + 1
  BY DEF BeginEntity, Overlapping
<1> HIDE DEF d, entry
<1>2. /\ Like(p, process, {"begun", "already", "draft"})
      /\ p.already = FALSE /\ p.draft = d
      /\ p.completed = process.completed /\ DOMAIN p = ProcessFields
  BY DEF Like, ProcessFields
<1> HIDE DEF p
<1>3. /\ Like(q, p, {"completed", "write", "then", "hook"})
      /\ q.hook = "eligible" /\ Writes(process', p, entry, "eligible")
  BY <1>1, <1>2, SettlesLike
<1>4. Writes(process', process, entry, "eligible")
  BY <1>2, <1>3 DEF Writes
<1>5. Like(q, process, {"hook", "completed", "write", "then", "begun",
                        "already", "draft"})
  BY <1>2, <1>3 DEF Like
<1>6. q.already = FALSE /\ q.draft = d
  BY <1>2, <1>3 DEF Like, ProcessFields
<1> QED
  BY <1>1, <1>3, <1>4, <1>5, <1>6 DEF d, entry

\* Skipping the entity, for a worker that is like the one there is.
SkipOf(q, p, reason) ==
    /\ Like(Settle(q), p, {"hook", "completed", "write", "then", "draft", "last"})
    /\ Settle(q).hook = "test"
    /\ \/ /\ p.already \/ p.draft = NoDraft
          /\ Settle(q).draft = p.draft /\ Settle(q).last = p.last
          /\ Silent(q, p)
       \/ /\ ~p.already /\ p.draft # NoDraft
          /\ Settle(q).draft = NoDraft /\ Settle(q).last = p.draft.id
          /\ Writes(q, p,
                    BuildEntry(p.draft, Decline(reason),
                               CombineResults({p.draft.result,
                                               Current.skippedResult})),
                    "test")

LEMMA SkippedLike ==
    ASSUME NEW p, DOMAIN p = ProcessFields, NEW reason
    PROVE  SkipOf(Skipped(p, reason), p, reason)
<1> DEFINE q == Skipped(p, reason)
<1>1. CASE p.already \/ p.draft = NoDraft
  <2>1. q = Continue(p, "test")
    BY <1>1 DEF Skipped, CompleteCurrent
  <2>2. Like(q, p, {"hook"}) /\ q.hook = "test"
    BY <2>1, ContinueLike
  <2>3. Settle(q) = q
    BY <2>2 DEF Settle
  <2> HIDE DEF q
  <2>4. Silent(q, p) /\ q.draft = p.draft /\ q.last = p.last
    BY <2>2 DEF Silent, Like, ProcessFields
  <2>5. Like(q, p, {"hook", "completed", "write", "then", "draft", "last"})
    BY <2>2 DEF Like
  <2>6. SkipOf(q, p, reason)
    BY <1>1, <2>2, <2>3, <2>4, <2>5 DEF SkipOf
  <2> QED
    BY <2>6 DEF q
<1>2. CASE ~(p.already \/ p.draft = NoDraft)
  <2>1. q = CompleteCurrent(p, Decline(reason), Current.skippedResult, "test")
    BY <1>2 DEF Skipped
  <2> DEFINE entry == BuildEntry(p.draft, Decline(reason),
                                 CombineResults({p.draft.result,
                                                 Current.skippedResult}))
  <2>2. /\ Writes(q, p, entry, "test")
        /\ Settle(q).draft = NoDraft /\ Settle(q).last = p.draft.id
        /\ Like(Settle(q), Continue(p, "test"),
                {"completed", "write", "then", "draft", "last"})
    BY <1>2, <2>1, CompletesLike
  <2> HIDE DEF q, entry
  <2>3. Like(Continue(p, "test"), p, {"hook"}) /\ Continue(p, "test").hook = "test"
    BY ContinueLike
  <2>4. /\ Settle(q).hook = "test"
        /\ Like(Settle(q), p,
                {"hook", "completed", "write", "then", "draft", "last"})
    BY <2>2, <2>3 DEF Like, ProcessFields
  <2>5. SkipOf(q, p, reason)
    BY <1>2, <2>2, <2>4 DEF SkipOf, entry
  <2> QED
    BY <2>5 DEF q
<1> QED
  BY <1>1, <1>2

LEMMA AttemptedLike ==
    ASSUME DOMAIN process = ProcessFields
    PROVE  /\ Like(Attempted, process, {"seen", "draft"})
           /\ Attempted.seen = Append(process.seen, RetryTrackingKey(Current))
           /\ Attempted.draft = IF process.draft = NoDraft THEN NoDraft
                                ELSE [process.draft EXCEPT !.attempt = Retry + 1]
<1> DEFINE key == RetryTrackingKey(Current)
           d == IF process.draft = NoDraft THEN NoDraft
                ELSE [process.draft EXCEPT !.attempt = Retry + 1]
<1>1. Attempted = [process EXCEPT !.seen = Append(@, key), !.draft = d]
  BY DEF Attempted
<1> HIDE DEF key, d
<1>2. /\ Like(Attempted, process, {"seen", "draft"})
      /\ Attempted.seen = Append(process.seen, key) /\ Attempted.draft = d
  BY <1>1 DEF Like, ProcessFields
<1> QED
  BY <1>2 DEF key, d

LEMMA SkipEffect ==
    ASSUME SkipIneligible, DOMAIN process = ProcessFields
    PROVE  LET reason == IneligibleReason(Current, Available, process.reason,
                                          scene.filters) IN
           /\ process.hook = "eligible" /\ reason # None
           /\ SkipOf(process', process, reason)
BY SkippedLike DEF SkipIneligible

LEMMA FirstEffect ==
    ASSUME SkipFirstAttempt, DOMAIN process = ProcessFields
    PROVE  /\ process.hook = "eligible" /\ Eligible /\ Decision = "skip"
           /\ SkipOf(process', Attempted, "first-attempt")
<1>1. DOMAIN Attempted = ProcessFields
  BY AttemptedLike DEF Like
<1> QED
  BY <1>1, SkippedLike DEF SkipFirstAttempt, Eligible

LEMMA GoOnEffect ==
    ASSUME ContinueSpec, DOMAIN process = ProcessFields
    PROVE  LET q == Settle(process') IN
           /\ Like(q, Attempted, {"hook", "active"})
           /\ process.hook = "eligible" /\ q.hook = "test"
           /\ Eligible /\ Decision = "continue-spec"
           /\ q.active = Max({process.active, Retry})
           /\ Silent(process', process)
<1> DEFINE most == Max({Attempted.active, Retry})
<1>1. /\ process' = [Attempted EXCEPT !.active = most, !.hook = "test"]
      /\ Eligible /\ Decision = "continue-spec" /\ process.hook = "eligible"
  BY DEF ContinueSpec, Eligible
<1>2. Like(Attempted, process, {"seen", "draft"})
  BY AttemptedLike
<1>3. most = Max({process.active, Retry})
  BY <1>2 DEF Like, ProcessFields
<1> HIDE DEF most
<1>4. /\ Like(process', Attempted, {"hook", "active"})
      /\ process'.hook = "test" /\ process'.active = most
      /\ process'.completed = process.completed
  BY <1>1, <1>2 DEF Like, ProcessFields
<1>5. Settle(process') = process'
  BY <1>4 DEF Settle
<1> QED
  BY <1>1, <1>3, <1>4, <1>5 DEF Silent

LEMMA StartEffect ==
    ASSUME StartRecording, DOMAIN process = ProcessFields
    PROVE  LET q == Settle(process') IN
           /\ Like(q, Attempted, {"hook", "active", "recording"})
           /\ process.hook = "eligible" /\ q.hook = "test"
           /\ Eligible /\ Decision = "start"
           /\ q.active = Retry /\ q.recording = Execution
           /\ Silent(process', process)
<1>1. /\ process' = [Attempted EXCEPT !.recording = Execution, !.active = Retry,
                                      !.hook = "test"]
      /\ Eligible /\ Decision = "start" /\ process.hook = "eligible"
  BY DEF StartRecording, Eligible
<1>2. Like(Attempted, process, {"seen", "draft"})
  BY AttemptedLike
<1>4. /\ Like(process', Attempted, {"hook", "active", "recording"})
      /\ process'.hook = "test" /\ process'.active = Retry
      /\ process'.recording = Execution
      /\ process'.completed = process.completed
  BY <1>1, <1>2 DEF Like, ProcessFields
<1>5. Settle(process') = process'
  BY <1>4 DEF Settle
<1> QED
  BY <1>1, <1>4, <1>5 DEF Silent

LEMMA StartFailsEffect ==
    ASSUME NEW disables, StartFails(disables), DOMAIN process = ProcessFields
    PROVE  LET q == Settle(process') IN
           /\ Like(q, Attempted, {"hook", "completed", "write", "then", "draft",
                                  "last", "recording", "active", "reason"})
           /\ process.hook = "eligible" /\ q.hook = "test" /\ Eligible
           /\ q.reason \in {process.reason, "no-connection"}
           /\ q.draft = NoDraft
           /\ \/ Attempted.draft = NoDraft /\ Silent(process', process)
              \/ /\ Attempted.draft # NoDraft /\ q.last = Attempted.draft.id
                 /\ \E options : Writes(process', process,
                        BuildEntry(Attempted.draft, options,
                            CombineResults({Attempted.draft.result, "unknown"})),
                        "test")
           /\ faults' = faults + 1
<1> DEFINE q == Settle(process')
           reason == IF disables THEN "no-connection" ELSE Attempted.reason
           p == [Attempted EXCEPT !.recording = None, !.active = 0,
                                  !.reason = reason]
           options == Failure("recording-start-failed", <<>>, "capture")
<1>1. /\ process' = CompleteCurrent(p, options, "unknown", "test")
      /\ Eligible /\ process.hook = "eligible" /\ faults' = faults + 1
  BY DEF StartFails, Eligible, Fault
<1>2. Like(Attempted, process, {"seen", "draft"})
  BY AttemptedLike
<1>3. reason \in {process.reason, "no-connection"}
  BY <1>2 DEF Like, ProcessFields
<1> HIDE DEF reason, options
<1>4. /\ Like(p, Attempted, {"recording", "active", "reason"})
      /\ p.reason = reason /\ p.completed = process.completed
      /\ p.draft = Attempted.draft /\ DOMAIN p = ProcessFields
  BY <1>2 DEF Like, ProcessFields
<1> HIDE DEF p
<1>5. Like(Continue(p, "test"), p, {"hook"}) /\ Continue(p, "test").hook = "test"
  BY <1>4, ContinueLike
<1>6. CASE p.draft = NoDraft
  <2>1. process' = Continue(p, "test")
    BY <1>1, <1>6 DEF CompleteCurrent
  <2>2. q = process' /\ process'.hook = "test"
    BY <1>5, <2>1 DEF Settle
  <2>3. /\ Silent(process', process) /\ q.draft = NoDraft /\ q.hook = "test"
        /\ q.reason = reason
    BY <1>4, <1>5, <1>6, <2>1, <2>2 DEF Silent, Like, ProcessFields
  <2>4. Like(q, Attempted, {"hook", "completed", "write", "then", "draft",
                            "last", "recording", "active", "reason"})
    BY <1>4, <1>5, <2>1, <2>2 DEF Like
  <2> QED
    BY <1>1, <1>3, <1>4, <1>6, <2>3, <2>4
<1>7. CASE p.draft # NoDraft
  <2> DEFINE entry == BuildEntry(p.draft, options,
                                 CombineResults({p.draft.result, "unknown"}))
  <2>1. /\ Writes(process', p, entry, "test")
        /\ q.draft = NoDraft /\ q.last = p.draft.id
        /\ Like(q, Continue(p, "test"),
                {"completed", "write", "then", "draft", "last"})
    BY <1>1, <1>4, <1>7, CompletesLike
  <2>2. Writes(process', process, entry, "test")
    BY <1>4, <2>1 DEF Writes
  <2>3. q.hook = "test" /\ q.reason = reason
    BY <1>4, <1>5, <2>1 DEF Like, ProcessFields
  <2>4. Like(q, Attempted, {"hook", "completed", "write", "then", "draft",
                            "last", "recording", "active", "reason"})
    BY <1>4, <1>5, <2>1 DEF Like
  <2> QED
    BY <1>1, <1>3, <1>4, <1>7, <2>1, <2>2, <2>3, <2>4
<1> QED
  BY <1>6, <1>7

LEMMA TestEffect ==
    ASSUME NEW result, RunTest(result), DOMAIN process = ProcessFields
    PROVE  LET q == Settle(process') IN
           /\ Like(q, process, {"hook", "result", "outcomes"})
           /\ process.hook = "test" /\ q.hook = "result"
           /\ result \in scene.results /\ q.result = result
           /\ q.outcomes = Captured(process.outcomes, result)
           /\ Silent(process', process)
<1> DEFINE said == Captured(process.outcomes, result)
<1>1. /\ process' = [process EXCEPT !.result = result, !.outcomes = said,
                                    !.hook = "result"]
      /\ process.hook = "test" /\ result \in scene.results
  BY DEF RunTest
<1> HIDE DEF said
<1>2. /\ Like(process', process, {"hook", "result", "outcomes"})
      /\ process'.hook = "result" /\ process'.result = result
      /\ process'.outcomes = said /\ process'.completed = process.completed
  BY <1>1 DEF Like, ProcessFields
<1>3. Settle(process') = process'
  BY <1>2 DEF Settle
<1> QED
  BY <1>1, <1>2, <1>3 DEF Silent, said

LEMMA ReloadEffect ==
    ASSUME NEW chromium, ReloadSession(chromium), DOMAIN process = ProcessFields
    PROVE  LET q == Settle(process') IN
           /\ Like(q, process, {"hook", "resume", "chromium", "reloaded"})
           /\ process.hook = "test" /\ q.hook = "teardown" /\ q.resume = "test"
           /\ Silent(process', process)
           /\ faults' = faults + 1
BY DEF ReloadSession, Fault, Like, ProcessFields, Silent, Settle

\* The result is told to the current entity, or else to the one before.
LEMMA EndEffect ==
    ASSUME EndEntity, DOMAIN process = ProcessFields, process.reason # Parallel,
           process.draft # NoDraft => DOMAIN process.draft = DraftFields
    PROVE  LET q == Settle(process')
               result == TestOutcome.manifestResult
               last == {e \in process.completed : e.id = process.last} IN
           /\ Like(q, process, {"hook", "failed", "draft", "completed", "write",
                                "then"})
           /\ process.hook = "result" /\ q.hook = "finalize"
           /\ q.failed = (process.failed \/
                            (scene.scope = "spec" /\ ~NonFailing(TestOutcome)))
           /\ \/ /\ process.draft # NoDraft
                 /\ q.draft = [process.draft EXCEPT
                                 !.result = CombineResults({@, result})]
                 /\ Silent(process', process)
              \/ /\ process.draft = NoDraft /\ q.draft = NoDraft
                 /\ last = {} /\ Silent(process', process)
              \/ /\ process.draft = NoDraft /\ q.draft = NoDraft
                 /\ \E e \in last :
                       Writes(process', process,
                           [e EXCEPT !.result = CombineResults({@, result}),
                                     !.covers = @ \union {Execution}],
                           "finalize")
<1> DEFINE q == Settle(process')
           result == TestOutcome.manifestResult
           failed == (process.failed \/
                        (scene.scope = "spec" /\ ~NonFailing(TestOutcome)))
           p == [process EXCEPT !.failed = failed]
           last == {e \in process.completed : e.id = process.last}
<1>1. process' = RecordResult(p, result, "finalize") /\ process.hook = "result"
  BY DEF EndEntity, Overlapping
<1> HIDE DEF failed, result
<1>2. /\ Like(p, process, {"failed"}) /\ p.failed = failed
      /\ p.draft = process.draft /\ p.completed = process.completed
      /\ p.last = process.last /\ DOMAIN p = ProcessFields
  BY DEF Like, ProcessFields
<1> HIDE DEF p
<1>3. CASE process.draft # NoDraft
  <2> DEFINE d == [process.draft EXCEPT !.result = CombineResults({@, result})]
             r == [p EXCEPT !.draft = d]
  <2>1. process' = Continue(r, "finalize")
    BY <1>1, <1>2, <1>3 DEF RecordResult
  <2> HIDE DEF d
  <2>2. Like(r, p, {"draft"}) /\ r.draft = d
    BY <1>2 DEF Like, ProcessFields
  <2> HIDE DEF r
  <2>3. Like(process', r, {"hook"}) /\ process'.hook = "finalize"
    BY <2>1, <2>2, ContinueLike DEF Like
  <2>4. q = process'
    BY <2>3 DEF Settle
  <2>5. q.failed = failed /\ q.draft = d /\ Silent(process', process)
    BY <1>2, <2>2, <2>3, <2>4 DEF Like, ProcessFields, Silent
  <2>6. Like(q, process, {"hook", "failed", "draft", "completed", "write",
                          "then"})
    BY <1>2, <2>2, <2>3, <2>4 DEF Like
  <2> QED
    BY <1>1, <1>3, <2>3, <2>4, <2>5, <2>6 DEF failed, d, result
<1>4. CASE process.draft = NoDraft /\ last = {}
  <2>1. process' = Continue(p, "finalize")
    BY <1>1, <1>2, <1>4 DEF RecordResult
  <2>2. Like(process', p, {"hook"}) /\ process'.hook = "finalize"
    BY <1>2, <2>1, ContinueLike
  <2>3. q = process'
    BY <2>2 DEF Settle
  <2>4. q.failed = failed /\ q.draft = NoDraft /\ Silent(process', process)
    BY <1>2, <1>4, <2>2, <2>3 DEF Like, ProcessFields, Silent
  <2>5. Like(q, process, {"hook", "failed", "draft", "completed", "write",
                          "then"})
    BY <1>2, <2>2, <2>3 DEF Like
  <2> QED
    BY <1>1, <1>4, <2>2, <2>3, <2>4, <2>5 DEF failed
<1>5. CASE process.draft = NoDraft /\ last # {}
  <2> DEFINE e == CHOOSE x \in last : TRUE
             entry == [e EXCEPT !.result = CombineResults({@, result}),
                                !.covers = @ \union {Execution}]
  <2>1. e \in last
    BY <1>5
  <2>2. process' = Journaled(p, entry, "finalize")
    BY <1>1, <1>2, <1>5 DEF RecordResult
  <2> HIDE DEF entry
  <2>3. /\ Like(q, p, {"completed", "write", "then", "hook"})
        /\ q.hook = "finalize" /\ Writes(process', p, entry, "finalize")
    BY <1>2, <2>2, SettlesLike
  <2>4. Writes(process', process, entry, "finalize")
    BY <1>2, <2>3 DEF Writes
  <2>5. q.failed = failed /\ q.draft = NoDraft
    BY <1>2, <1>5, <2>3 DEF Like, ProcessFields
  <2>6. Like(q, process, {"hook", "failed", "draft", "completed", "write",
                          "then"})
    BY <1>2, <2>3 DEF Like
  <2> QED
    BY <1>1, <1>5, <2>1, <2>3, <2>4, <2>5, <2>6 DEF failed, entry, result
<1> QED
  BY <1>3, <1>4, <1>5

LEMMA EndParallelEffect ==
    ASSUME EndEntity, DOMAIN process = ProcessFields, process.reason = Parallel
    PROVE  /\ process.hook = "result"
           /\ process' = Advance(process) /\ Settle(process') = process'
           /\ Silent(process', process)
<1>1. process' = Advance(process) /\ process.hook = "result"
  BY DEF EndEntity, Overlapping
<1>2. process'.hook # "write" /\ process'.completed = process.completed
  BY <1>1, AdvanceLike DEF Like, ProcessFields
<1> QED
  BY <1>1, <1>2 DEF Settle, Silent

\* The options of a recording that is finalized without a fault.
FinishedOptions(p, keep, result) ==
    CompletedOptions([captureFailed |-> FALSE,
                      deferred |-> keep /\ scene.deferred,
                      paths |-> IF keep THEN <<p.recording>> ELSE <<>>],
                     keep, result, scene.processing)

FinishOf(q, p, passed, result, media, then) ==
    /\ Like(Settle(q), Continue(p, then),
            {"recording", "active", "tasks", "draft", "last", "completed",
             "write", "then"})
    /\ Settle(q).recording = None /\ Settle(q).active = 0
    /\ Settle(q).draft = NoDraft
    /\ \/ /\ p.draft = NoDraft /\ Silent(q, p)
       \/ /\ p.draft # NoDraft /\ Settle(q).last = p.draft.id
          /\ \E options :
                /\ Writes(q, p,
                          BuildEntry(p.draft, options,
                                     CombineResults({p.draft.result, result})),
                          then)
                /\ media = "done" =>
                      options = FinishedOptions(p,
                          ShouldRetain(scene.retain, passed, p.active), result)
                /\ Settle(q).tasks =
                      IF options.outcome = "pending"
                      THEN Append(p.tasks, p.draft.id) ELSE p.tasks

LEMMA FinalizedLike ==
    ASSUME NEW p, DOMAIN p = ProcessFields, NEW passed, NEW result, NEW media,
           NEW then \in {"flush", "next"}
    PROVE  FinishOf(Finalized(p, passed, result, media, then),
                    p, passed, result, media, then)
<1> DEFINE q == Finalized(p, passed, result, media, then)
           keep == ShouldRetain(scene.retain, passed, p.active)
           options ==
            CASE media = "done" ->
                   CompletedOptions(
                       [captureFailed |-> FALSE,
                        deferred |-> keep /\ scene.deferred,
                        paths |-> IF keep THEN <<p.recording>> ELSE <<>>],
                       keep, result, scene.processing)
              [] media = "capture-failed" ->
                   CompletedOptions(
                       [captureFailed |-> TRUE, deferred |-> FALSE,
                        paths |-> <<p.recording>>],
                       keep, result, scene.processing)
              [] media = "error" -> Failure("media", <<p.recording>>, None)
           deferred == options.outcome = "pending" /\ p.draft # NoDraft
           tasks == IF deferred THEN Append(p.tasks, p.draft.id) ELSE p.tasks
           r == [p EXCEPT !.recording = None, !.active = 0, !.tasks = tasks]
<1>1. q = CompleteCurrent(r, options, result, then)
  BY DEF Finalized
<1>2. media = "done" => options = FinishedOptions(p, keep, result)
  BY DEF FinishedOptions
<1>3. tasks = IF deferred THEN Append(p.tasks, p.draft.id) ELSE p.tasks
  OBVIOUS
<1>4. deferred <=> (options.outcome = "pending" /\ p.draft # NoDraft)
  OBVIOUS
<1> HIDE DEF options, deferred, tasks
<1>5. /\ Like(r, p, {"recording", "active", "tasks"})
      /\ r.recording = None /\ r.active = 0 /\ r.tasks = tasks
      /\ r.draft = p.draft /\ r.completed = p.completed
      /\ DOMAIN r = ProcessFields
  BY DEF Like, ProcessFields
<1> HIDE DEF r
<1>6. Like(Continue(r, then), Continue(p, then),
           {"recording", "active", "tasks"})
      /\ Continue(r, then).recording = None /\ Continue(r, then).active = 0
      /\ Continue(r, then).tasks = tasks /\ Continue(r, then).draft = p.draft
      /\ Continue(r, then).hook # "write"
      /\ Continue(r, then).completed = p.completed
  <2>1. CASE then = "flush"
    <3>1. /\ Like(Continue(r, then), r, {"hook"}) /\ Continue(r, then).hook = then
          /\ Like(Continue(p, then), p, {"hook"}) /\ Continue(p, then).hook = then
      BY <1>5, <2>1, ContinueLike
    <3>2. Continue(r, then).recording = None /\ Continue(r, then).active = 0
          /\ Continue(r, then).tasks = tasks /\ Continue(r, then).draft = p.draft
          /\ Continue(r, then).hook # "write"
          /\ Continue(r, then).completed = p.completed
      BY <1>5, <2>1, <3>1 DEF Like, ProcessFields
    <3>3. Like(Continue(r, then), Continue(p, then),
           {"recording", "active", "tasks"})
      BY <1>5, <3>1 DEF Like
    <3> QED
      BY <3>2, <3>3
  <2>2. CASE then = "next"
    <3>1. /\ Like(Advance(r), r, {"try", "at", "bad", "result", "hook"})
          /\ Like(Advance(p), p, {"try", "at", "bad", "result", "hook"})
          /\ Advance(r).hook # "write"
      BY <1>5, AdvanceLike
    <3>2. r.at = p.at /\ r.try = p.try /\ r.bad = p.bad /\ r.result = p.result
      BY <1>5 DEF Like, ProcessFields
    <3>3. /\ Advance(r).at = Advance(p).at /\ Advance(r).try = Advance(p).try
          /\ Advance(r).bad = Advance(p).bad /\ Advance(r).hook = Advance(p).hook
          /\ Advance(r).result = Advance(p).result
      BY <1>5, <3>2 DEF Advance, Like, ProcessFields
    <3>4. Continue(r, then) = Advance(r) /\ Continue(p, then) = Advance(p)
      BY <2>2 DEF Continue
    <3>5. Advance(r).recording = None /\ Advance(r).active = 0
          /\ Advance(r).tasks = tasks /\ Advance(r).draft = p.draft
          /\ Advance(r).completed = p.completed
      BY <1>5, <3>1 DEF Like, ProcessFields
    <3>6. Like(Advance(r), Advance(p), {"recording", "active", "tasks"})
      BY <1>5, <3>1, <3>3 DEF Like
    <3> QED
      BY <3>1, <3>4, <3>5, <3>6
  <2> QED
    BY <2>1, <2>2
<1>7. CASE p.draft = NoDraft
  <2>1. q = Continue(r, then)
    BY <1>1, <1>5, <1>7 DEF CompleteCurrent
  <2> HIDE DEF q
  <2>2. Settle(q) = q
    BY <1>6, <2>1 DEF Settle
  <2>3. /\ Silent(q, p) /\ q.recording = None /\ q.active = 0
        /\ q.draft = NoDraft
    BY <1>6, <1>7, <2>1 DEF Silent
  <2>4. Like(q, Continue(p, then),
             {"recording", "active", "tasks", "draft", "last", "completed",
              "write", "then"})
    BY <1>6, <2>1 DEF Like
  <2>5. FinishOf(q, p, passed, result, media, then)
    BY <1>7, <2>2, <2>3, <2>4 DEF FinishOf
  <2> QED
    BY <2>5 DEF q
<1>8. CASE p.draft # NoDraft
  <2> DEFINE entry == BuildEntry(p.draft, options,
                                 CombineResults({p.draft.result, result}))
  <2>1. /\ Writes(q, r, entry, then)
        /\ Settle(q).draft = NoDraft /\ Settle(q).last = p.draft.id
        /\ Like(Settle(q), Continue(r, then),
                {"completed", "write", "then", "draft", "last"})
    BY <1>1, <1>5, <1>8, CompletesLike
  <2> HIDE DEF q
  <2>2. Writes(q, p, entry, then)
    BY <1>5, <2>1 DEF Writes
  <2>3. /\ Settle(q).recording = None /\ Settle(q).active = 0
        /\ Settle(q).tasks = tasks
    BY <1>6, <2>1 DEF Like, ProcessFields
  <2>4. Like(Settle(q), Continue(p, then),
             {"recording", "active", "tasks", "draft", "last", "completed",
              "write", "then"})
    BY <1>6, <2>1 DEF Like
  <2>5. Settle(q).tasks = IF options.outcome = "pending"
                          THEN Append(p.tasks, p.draft.id) ELSE p.tasks
    BY <1>3, <1>4, <1>8, <2>3
  <2>6. FinishOf(q, p, passed, result, media, then)
    BY <1>2, <1>8, <2>1, <2>2, <2>3, <2>4, <2>5 DEF FinishOf
  <2> QED
    BY <2>6 DEF q
<1> QED
  BY <1>7, <1>8

LEMMA FinalizeEffect ==
    ASSUME NEW media, FinalizeTest(media), DOMAIN process = ProcessFields
    PROVE  /\ process.hook = "finalize"
           /\ \/ /\ scene.scope = "test" /\ process.recording # None
                 /\ FinishOf(process', process, NonFailing(TestOutcome),
                             TestOutcome.manifestResult, media, "next")
              \/ /\ scene.scope # "test" \/ process.recording = None
                 /\ process' = Advance(process) /\ Settle(process') = process'
                 /\ Silent(process', process)
           /\ faults' = faults => media = "done" \/ faults \notin Nat
<1>1. process.hook = "finalize" /\ (faults' = faults => media = "done" \/ faults \notin Nat)
  BY DEF FinalizeTest, Fault
<1>2. CASE scene.scope = "test" /\ process.recording # None
  <2>1. process' = Finalized(process, NonFailing(TestOutcome),
                             TestOutcome.manifestResult, media, "next")
    BY <1>2 DEF FinalizeTest
  <2> QED
    BY <1>1, <1>2, <2>1, FinalizedLike
<1>3. CASE ~(scene.scope = "test" /\ process.recording # None)
  <2>1. process' = Advance(process)
    BY <1>3 DEF FinalizeTest
  <2>2. process'.hook # "write" /\ process'.completed = process.completed
    BY <2>1, AdvanceLike DEF Like, ProcessFields
  <2> QED
    BY <1>1, <1>3, <2>1, <2>2 DEF Settle, Silent
<1> QED
  BY <1>2, <1>3

LEMMA TeardownEffect ==
    ASSUME NEW media, Teardown(media), DOMAIN process = ProcessFields
    PROVE  LET q == Settle(process') IN
           /\ process.hook = "teardown"
           /\ \/ /\ scene.scope = "spec" /\ process.recording # None
                 /\ FinishOf(process', process, ~process.failed, "unknown",
                             media, "flush")
              \/ /\ scene.scope # "spec" \/ process.recording = None
                 /\ Like(q, process, {"hook", "recording", "active"})
                 /\ q.hook = "flush" /\ q.recording = None /\ q.active = 0
                 /\ Silent(process', process)
           /\ faults' = faults => media = "done" \/ faults \notin Nat
<1>1. process.hook = "teardown" /\ (faults' = faults => media = "done" \/ faults \notin Nat)
  BY DEF Teardown, Fault
<1>2. CASE process.recording # None /\ scene.scope = "spec"
  <2>1. process' = Finalized(process, ~process.failed, "unknown", media, "flush")
    BY <1>2 DEF Teardown
  <2> QED
    BY <1>1, <1>2, <2>1, FinalizedLike
<1>3. CASE ~(process.recording # None /\ scene.scope = "spec")
  <2>1. process' = [process EXCEPT !.recording = None, !.active = 0,
                                   !.hook = "flush"]
    BY <1>3 DEF Teardown
  <2> QED
    BY <1>1, <1>3, <2>1 DEF Settle, Silent, Like, ProcessFields
<1> QED
  BY <1>2, <1>3

LEMMA DeferredEffect ==
    ASSUME NEW whole, CompleteDeferred(whole), DOMAIN process = ProcessFields,
           NEW e, e = CHOOSE x \in process.completed : x.id = Head(process.tasks)
    PROVE  LET q == Settle(process') IN
           /\ Like(q, process, {"tasks", "completed", "write", "then"})
           /\ process.hook = "flush" /\ process.tasks # <<>>
           /\ q.tasks = Tail(process.tasks)
           /\ \E outcome, decision, operation, reason :
                 /\ Writes(process', process,
                       [e EXCEPT !.timing = "after-worker",
                                 !.outcome = outcome, !.decision = decision,
                                 !.operation = operation, !.reason = reason],
                       "flush")
                 /\ operation = Operation(scene.processing)
                 /\ faults' = faults /\ faults \in Nat =>
                       /\ outcome = "completed" /\ decision = "recorded"
                       /\ reason = None
<1> DEFINE q == Settle(process')
           p == [process EXCEPT !.tasks = Tail(@)]
           outcome == IF whole THEN "completed" ELSE "failed"
           decision == IF whole THEN "recorded" ELSE "failed"
           reason == IF whole THEN None ELSE "ffmpeg"
           operation == Operation(scene.processing)
           entry == [e EXCEPT !.timing = "after-worker",
                              !.outcome = outcome, !.decision = decision,
                              !.operation = operation, !.reason = reason]
<1>1. /\ process' = Journaled(p, entry, "flush")
      /\ process.hook = "flush" /\ process.tasks # <<>>
      /\ faults' = faults => whole \/ faults \notin Nat
  BY DEF CompleteDeferred, Fault
<1>2. /\ Like(p, process, {"tasks"}) /\ p.tasks = Tail(process.tasks)
      /\ p.completed = process.completed /\ DOMAIN p = ProcessFields
  BY DEF Like, ProcessFields
<1>3. faults' = faults /\ faults \in Nat =>
         outcome = "completed" /\ decision = "recorded" /\ reason = None
  BY <1>1
<1> HIDE DEF entry, p
<1>4. /\ Like(q, p, {"completed", "write", "then", "hook"})
      /\ q.hook = "flush" /\ Writes(process', p, entry, "flush")
  BY <1>1, <1>2, SettlesLike
<1>5. Writes(process', process, entry, "flush")
  BY <1>2, <1>4 DEF Writes
<1>6. q.tasks = Tail(process.tasks) /\ q.hook = process.hook
  BY <1>1, <1>2, <1>4 DEF Like, ProcessFields
<1>7. Like(q, process, {"tasks", "completed", "write", "then"})
  BY <1>2, <1>4, <1>6 DEF Like
<1> HIDE DEF q, outcome, decision, reason
<1> QED
  BY <1>1, <1>3, <1>5, <1>6, <1>7 DEF entry, operation, q

LEMMA FlushedEffect ==
    ASSUME EndTeardown, DOMAIN process = ProcessFields, process.resume # "write"
    PROVE  LET q == Settle(process') IN
           /\ Like(q, process, {"seen", "failed", "active", "overlapRecorded",
                                "hook", "resume"})
           /\ process.hook = "flush" /\ q.hook = process.resume
           /\ q.resume = "exit" /\ Silent(process', process)
<1>1. process' = ResetWorkerState(process) /\ process.hook = "flush"
  BY DEF EndTeardown
<1>2. /\ Like(process', process, {"seen", "failed", "active", "overlapRecorded",
                                  "hook", "resume"})
      /\ process'.hook = process.resume /\ process'.resume = "exit"
  BY <1>1, ResetLike
<1>3. Settle(process') = process' /\ Silent(process', process)
  BY <1>2 DEF Settle, Silent, Like, ProcessFields
<1> QED
  BY <1>1, <1>2, <1>3

----------------------------------------------------------------------------
(* Executions in the order they run, and results that are theirs.          *)

Place(s) == <<s.retry, s.at, s.try>>
Executions == Nat \X Nat \X Nat
Level(x) == Max({x[1], x[3]})

\* The execution of the worker is still to run; all of them have.
Ahead(s) == s.hook \in {"begin", "eligible", "test"} \/ s.resume = "test"
Over(s) == s.hook \in {"teardown", "flush", "exit"} /\ s.resume = "exit"

Earlier(x, y) ==
    \/ x[1] < y[1]
    \/ x[1] = y[1] /\ x[2] < y[2]
    \/ x[1] = y[1] /\ x[2] = y[2] /\ x[3] < y[3]

\* The executions that have run.
ElapsedOf(s) ==
    {x \in Executions : Earlier(x, Place(s)) \/ (x = Place(s) /\ ~Ahead(s))}
Elapsed ==
    IF Alive THEN ElapsedOf(Now) ELSE {x \in Executions : x[1] < Len(starts)}

\* The outcomes that were, or still can be, reported.
HeardOf(s) == Reported \union Range(s.outcomes)
Heard == IF Alive THEN HeardOf(Now) ELSE Reported

\* An outcome of an execution that has run, of that retry.
GoodOutcome(o, past) == o.execution \in past /\ o.retry = Level(o.execution)

\* The result is that of an execution the entry stands for.
SoundBy(e, past, heard) ==
    \/ e.result = "unknown"
    \/ \E x \in e.covers \intersect past :
          \A o \in heard : o.execution = x => o.result = e.result

Sound(e) == SoundBy(e, Elapsed, Heard)

Hooks == {"begin", "eligible", "test", "result", "finalize", "teardown",
          "flush", "exit"}
Thens == {"eligible", "test", "finalize", "next", "flush"}

TheKey == SpecRetryKey(Cid, scene.specs, <<[browserName |-> "chrome"]>>)

\* A worker where its hooks may have brought it.
Posed(s) ==
    /\ DOMAIN s = ProcessFields
    /\ s.retry \in Nat /\ s.retry = Len(starts) - 1
    /\ s.at \in 1 .. Len(scene.plan) /\ s.try \in Nat
    /\ s.hook \in Hooks /\ s.resume \in {"exit", "test"}
    /\ s.resume = "test" => s.hook \in {"teardown", "flush"}
    /\ s.outcomes \in Seq(Range(s.outcomes))
    /\ \A o \in Range(s.outcomes) : o.execution[1] = s.retry
    /\ s.hook \in {"result", "finalize"} =>
          /\ s.result \in scene.results
          /\ \A o \in Range(s.outcomes) :
                o.execution = Place(s) => o.result = s.result
    /\ s.draft # NoDraft =>
          /\ s.reason # Parallel /\ DOMAIN s.draft = DraftFields
          /\ s.hook \in {"eligible", "test", "result", "finalize"}
                \/ s.resume = "test" => Place(s) \in s.draft.covers

\* The place of a worker moves on.
Later(s, q) ==
    /\ q.retry = s.retry
    /\ \/ Place(q) = Place(s) /\ (Ahead(q) => Ahead(s))
       \/ Earlier(Place(s), Place(q))
    /\ Over(s) => Over(q)

LEMMA PlaceFacts ==
    ASSUME NEW s
    PROVE  Place(s)[1] = s.retry /\ Place(s)[2] = s.at /\ Place(s)[3] = s.try
BY DEF Place

LEMMA LaterElapsed ==
    ASSUME NEW s, NEW q, Posed(s), Posed(q), Later(s, q)
    PROVE  ElapsedOf(s) \subseteq ElapsedOf(q)
<1> SUFFICES ASSUME NEW x \in ElapsedOf(s) PROVE x \in ElapsedOf(q)
  OBVIOUS
<1>1. /\ x \in Executions
      /\ Earlier(x, Place(s)) \/ (x = Place(s) /\ ~Ahead(s))
  BY DEF ElapsedOf
<1>2. x[1] \in Nat /\ x[2] \in Nat /\ x[3] \in Nat
  BY <1>1 DEF Executions
<1>3. /\ s.retry \in Nat /\ s.at \in Nat /\ s.try \in Nat
      /\ q.retry \in Nat /\ q.at \in Nat /\ q.try \in Nat
  BY DEF Posed
<1>4. Earlier(x, Place(q)) \/ (x = Place(q) /\ ~Ahead(q))
  <2>1. CASE Place(q) = Place(s) /\ (Ahead(q) => Ahead(s))
    BY <1>1, <2>1
  <2>2. CASE Earlier(Place(s), Place(q))
    BY <1>1, <1>2, <1>3, <2>2, PlaceFacts DEF Earlier
  <2> QED
    BY <2>1, <2>2 DEF Later
<1> QED
  BY <1>1, <1>4 DEF ElapsedOf

LEMMA SoundStays ==
    ASSUME NEW e, NEW past, NEW heard, SoundBy(e, past, heard),
           NEW after, past \subseteq after,
           NEW more, \A o \in more : o \in heard \/ o.execution \notin past
    PROVE  SoundBy(e, after, more)
BY DEF SoundBy

\* The same result, of executions among others.
LEMMA SoundSame ==
    ASSUME NEW e, NEW past, NEW heard, SoundBy(e, past, heard),
           NEW d, d.result \in {e.result, "unknown"}, e.covers \subseteq d.covers
    PROVE  SoundBy(d, past, heard)
BY DEF SoundBy

LEMMA Combines ==
    ASSUME NEW a, NEW b
    PROVE  CombineResults({a, b}) \in {a, b, "unknown"}
BY DEF CombineResults

\* Two results together are sound when one is, and the other is that of an
\* execution the entry stands for.
LEMMA SoundTogether ==
    ASSUME NEW e, NEW past, NEW heard, SoundBy(e, past, heard),
           NEW x \in past, NEW result,
           \A o \in heard : o.execution = x => o.result = result,
           NEW d, d.result = CombineResults({e.result, result}),
           e.covers \subseteq d.covers, x \in d.covers
    PROVE  SoundBy(d, past, heard)
<1>1. d.result \in {e.result, result, "unknown"}
  BY Combines
<1>2. CASE d.result \in {e.result, "unknown"}
  BY <1>2, SoundSame
<1>3. CASE d.result = result
  BY <1>3 DEF SoundBy
<1> QED
  BY <1>1, <1>2, <1>3

----------------------------------------------------------------------------
(* The tests of a scene, and what the reporter takes down of them.         *)

LEMMA SceneFacts ==
    ASSUME scene \in Scenes
    PROVE  /\ scene.framework \in {"mocha", "cucumber"}
           /\ scene.scope \in {"test", "spec"}
           /\ scene.attempts \in {"all", "retries"}
           /\ scene.retain \in {"all", "on-failure", "retries"}
           /\ scene.chromium \in BOOLEAN /\ scene.deferred \in BOOLEAN
           /\ scene.reason \in {None, Parallel}
           /\ scene.results \subseteq {"passed", "failed", "skipped"}
           /\ scene.framework = "cucumber" => "skipped" \notin scene.results
           /\ scene.specs # <<>>
           /\ scene.specs \in Seq(Range(scene.specs) \ {None})
           /\ scene.plan # <<>> /\ scene.plan \in Seq(Range(scene.plan))
BY SceneAssumption

LEMMA PlanFacts ==
    ASSUME scene \in Scenes, NEW i \in 1 .. Len(scene.plan)
    PROVE  /\ scene.plan[i].retries \in Nat
           /\ DOMAIN scene.plan[i].test =
                    {"kind", "id", "name", "fullName", "retryCounters",
                     "specCandidates", "file", "tagSources", "pending"}
           /\ scene.plan[i].test.name # None
           /\ scene.plan[i].test.kind =
                 IF scene.framework = "mocha" THEN "test" ELSE "scenario"
           /\ scene.plan[i].test.pending = FALSE
<1>1. i \in DOMAIN scene.plan
  BY SceneFacts
<1> QED
  BY <1>1, SceneAssumption

LEMMA PlanLength ==
    ASSUME scene \in Scenes
    PROVE  Len(scene.plan) \in Nat \ {0}
BY SceneFacts

\* The test the worker is at, with its own retry.
LEMMA TestFacts ==
    ASSUME scene \in Scenes, process.at \in 1 .. Len(scene.plan)
    PROVE  /\ Test.kind = IF scene.framework = "mocha" THEN "test" ELSE "scenario"
           /\ Test.pending = FALSE /\ Test.name # None
           /\ Test.id = scene.plan[process.at].test.id
           /\ Test.name = scene.plan[process.at].test.name
           /\ Test.fullName = scene.plan[process.at].test.fullName
           /\ Test.specCandidates = scene.plan[process.at].test.specCandidates
           /\ Test.tagSources = scene.plan[process.at].test.tagSources
           /\ Test.file = scene.plan[process.at].test.file
           /\ Test.retryCounters = IF scene.framework = "mocha"
                                   THEN <<process.try>> ELSE <<None>>
BY PlanFacts DEF Test, Planned

LEMMA NotSkipped ==
    ASSUME scene \in Scenes, process.at \in 1 .. Len(scene.plan)
    PROVE  Current.skippedResult = "unknown"
BY TestFacts DEF Current, Entity

\* What the framework says of a test is its result.
LEMMA OutcomeFacts ==
    ASSUME scene \in Scenes, process.at \in 1 .. Len(scene.plan),
           process.result \in scene.results
    PROVE  /\ TestOutcome.manifestResult = process.result
           /\ process.result \in {"passed", "failed", "skipped"}
           /\ NonFailing(TestOutcome) <=> process.result # "failed"
<1>1. /\ process.result \in {"passed", "failed", "skipped"}
      /\ process.result = "skipped" => scene.framework = "mocha"
  BY SceneFacts
<1>2. TestOutcome.manifestResult = process.result
  BY <1>1, TestFacts DEF TestOutcome, Outcome
<1>3. TestOutcome.passed = (process.result = "passed")
  BY DEF TestOutcome, Outcome
<1> QED
  BY <1>1, <1>2, <1>3 DEF NonFailing

----------------------------------------------------------------------------
(* The reporter.                                                           *)

\* An outcome is taken down, or was before.
LEMMA CaptureAdds ==
    ASSUME NEW s, s \in Seq(Range(s)), NEW o
    PROVE  LET t == CaptureOutcome(s, o) IN
           /\ t \in Seq(Range(t))
           /\ Range(s) \subseteq Range(t) /\ Range(t) \subseteq Range(s) \union {o}
           /\ \/ o \in Range(t)
              \/ \E x \in Range(s) : /\ x.uid = o.uid /\ x.attempt = o.attempt
                                     /\ x.status = o.status
<1>1. CASE \E i \in DOMAIN s : /\ s[i].uid = o.uid /\ s[i].attempt = o.attempt
                               /\ s[i].status = o.status
  BY <1>1 DEF CaptureOutcome, Range
<1>2. CASE ~\E i \in DOMAIN s : /\ s[i].uid = o.uid /\ s[i].attempt = o.attempt
                                /\ s[i].status = o.status
  <2>1. CaptureOutcome(s, o) = Append(s, o)
    BY <1>2 DEF CaptureOutcome
  <2>2. /\ Len(s) \in Nat /\ DOMAIN s = 1 .. Len(s)
        /\ DOMAIN Append(s, o) = 1 .. Len(s) + 1
        /\ \A i \in 1 .. Len(s) : Append(s, o)[i] = s[i]
        /\ Append(s, o)[Len(s) + 1] = o
    OBVIOUS
  <2>3. Range(Append(s, o)) = Range(s) \union {o}
    <3>1. Range(Append(s, o)) \subseteq Range(s) \union {o}
      BY <2>2 DEF Range
    <3>2. Range(s) \subseteq Range(Append(s, o)) /\ o \in Range(Append(s, o))
      <4>1. Len(s) + 1 \in 1 .. Len(s) + 1 /\ 1 .. Len(s) \subseteq 1 .. Len(s) + 1
        BY <2>2
      <4> QED
        BY <2>2, <4>1 DEF Range
    <3> QED
      BY <3>1, <3>2
  <2>4. Append(s, o) \in Seq(Range(s) \union {o})
    <3>1. s \in Seq(Range(s) \union {o})
      BY SeqOfMore
    <3> QED
      BY <3>1
  <2> QED
    BY <2>1, <2>3, <2>4
<1> QED
  BY <1>1, <1>2

LEMMA SaidFacts ==
    ASSUME NEW uid, NEW test, NEW retries, NEW scenarioRetries, NEW status,
           NEW result
    PROVE  LET o == Said(uid, test, retries, scenarioRetries, status, result) IN
           /\ o.execution = Execution /\ o.result = result
           /\ o.retry = Max({process.retry, process.try})
           /\ o.uid = uid /\ o.status = status
           /\ o.attempt =
                 ReporterAttempt(process.retry, retries, scenarioRetries)
BY DEF Said

\* Outcomes are only added of the execution that runs.
LEMMA CapturedFacts ==
    ASSUME NEW s, s \in Seq(Range(s)), NEW result
    PROVE  LET t == Captured(s, result) IN
           /\ t \in Seq(Range(t)) /\ Range(s) \subseteq Range(t)
           /\ \A o \in Range(t) : o \in Range(s) \/
                 /\ o.execution = Execution /\ o.result = result
                 /\ o.retry = Max({process.retry, process.try})
                 /\ \/ scene.framework = "mocha" /\ o = TestSaid(result)
                    \/ /\ scene.framework # "mocha"
                       /\ \/ o = StepSaid(1, "passed", result)
                          \/ o = StepSaid(2, result, result)
           /\ LET last == IF scene.framework = "mocha" THEN TestSaid(result)
                          ELSE StepSaid(2, result, result) IN
              \/ last \in Range(t)
              \/ \E x \in Range(t) :
                    /\ x.uid = last.uid /\ x.attempt = last.attempt
                    /\ x.status = last.status
                    /\ \/ x \in Range(s)
                       \/ scene.framework # "mocha" /\ x = StepSaid(1, "passed", result)
<1> DEFINE said == TestSaid(result)
           one == StepSaid(1, "passed", result)
           two == StepSaid(2, result, result)
           Means(o) == /\ o.execution = Execution /\ o.result = result
                       /\ o.retry = Max({process.retry, process.try})
<1>1. Means(said) /\ Means(one) /\ Means(two)
  BY DEF TestSaid, StepSaid, Said
<1> HIDE DEF said, one, two
<1>2. CASE scene.framework = "mocha"
  <2> DEFINE t == CaptureOutcome(s, said)
  <2>1. Captured(s, result) = t
    BY <1>2 DEF Captured, said
  <2>2. /\ t \in Seq(Range(t)) /\ Range(s) \subseteq Range(t)
        /\ Range(t) \subseteq Range(s) \union {said}
        /\ \/ said \in Range(t)
           \/ \E x \in Range(s) : /\ x.uid = said.uid /\ x.attempt = said.attempt
                                  /\ x.status = said.status
    BY CaptureAdds
  <2> HIDE DEF t
  <2>3. \A o \in Range(t) : o \in Range(s) \/ (Means(o) /\ o = said)
    BY <1>1, <2>2
  <2>4. \/ said \in Range(t)
        \/ \E x \in Range(t) :
              /\ x.uid = said.uid /\ x.attempt = said.attempt
              /\ x.status = said.status /\ x \in Range(s)
    BY <2>2
  <2> HIDE DEF Means
  <2>5. t \in Seq(Range(t)) /\ Range(s) \subseteq Range(t)
    BY <2>2
  <2> QED
    BY <1>2, <2>1, <2>3, <2>4, <2>5 DEF said, Means
<1>3. CASE scene.framework # "mocha"
  <2> DEFINE r == CaptureOutcome(s, one)
             t == CaptureOutcome(r, two)
  <2>1. Captured(s, result) = t
    BY <1>3 DEF Captured, one, two
  <2>2. /\ r \in Seq(Range(r)) /\ Range(s) \subseteq Range(r)
        /\ Range(r) \subseteq Range(s) \union {one}
    BY CaptureAdds
  <2> HIDE DEF r
  <2>3. /\ t \in Seq(Range(t)) /\ Range(r) \subseteq Range(t)
        /\ Range(t) \subseteq Range(r) \union {two}
        /\ \/ two \in Range(t)
           \/ \E x \in Range(r) : /\ x.uid = two.uid /\ x.attempt = two.attempt
                                  /\ x.status = two.status
    BY <2>2, CaptureAdds
  <2> HIDE DEF t
  <2>4. \A o \in Range(t) : o \in Range(s) \/ o \in {one, two}
    BY <2>2, <2>3
  <2>5. Range(s) \subseteq Range(t)
    BY <2>2, <2>3
  <2>6. \/ two \in Range(t)
        \/ \E x \in Range(t) :
              /\ x.uid = two.uid /\ x.attempt = two.attempt
              /\ x.status = two.status /\ (x \in Range(s) \/ x = one)
    BY <2>2, <2>3
  <2> QED
    BY <1>1, <1>3, <2>1, <2>3, <2>4, <2>5, <2>6 DEF one, two
<1> QED
  BY <1>2, <1>3

LEMMA CapturedAdds ==
    ASSUME NEW s, s \in Seq(Range(s)), NEW result
    PROVE  /\ Captured(s, result) \in Seq(Range(Captured(s, result)))
           /\ Range(s) \subseteq Range(Captured(s, result))
           /\ \A o \in Range(Captured(s, result)) : o \in Range(s) \/
                 /\ o.execution = Execution /\ o.result = result
                 /\ o.retry = Max({process.retry, process.try})
<1>1. PICK t : t = Captured(s, result)
  OBVIOUS
<1>2. t \in Seq(Range(t)) /\ Range(s) \subseteq Range(t)
  BY <1>1, CapturedFacts
<1>3. \A o \in Range(t) : o \in Range(s) \/
         /\ o.execution = Execution /\ o.result = result
         /\ o.retry = Max({process.retry, process.try})
         /\ \/ scene.framework = "mocha" /\ o = TestSaid(result)
            \/ /\ scene.framework # "mocha"
               /\ \/ o = StepSaid(1, "passed", result)
                  \/ o = StepSaid(2, result, result)
  BY <1>1, CapturedFacts
<1> QED
  BY <1>1, <1>2, <1>3

----------------------------------------------------------------------------
(* The results a worker holds stay those of executions.                    *)

SoundWorker(s, past, heard) ==
    /\ s.draft # NoDraft => SoundBy(s.draft, past, heard)
    /\ \A e \in s.completed : SoundBy(e, past, heard)

\* A worker that is not writing, before its next step.
Ready ==
    /\ scene \in Scenes /\ Posed(process)
    /\ SoundWorker(process, ElapsedOf(process), HeardOf(process))
    /\ \A o \in Reported : o.execution[1] # process.retry
    /\ \A o \in HeardOf(process) : o.execution \in ElapsedOf(process)
    /\ \E ids : Holds(process, ids, {})

Onward(q) ==
    /\ Posed(q) /\ Later(process, q)
    /\ SoundWorker(q, ElapsedOf(q), HeardOf(q))

LEMMA PosedAgain ==
    ASSUME NEW p, Posed(p), NEW q, DOMAIN q = ProcessFields,
           q.retry = p.retry, q.at = p.at, q.try = p.try,
           q.outcomes = p.outcomes, q.hook \in Hooks,
           q.resume \in {"exit", "test"},
           q.resume = "test" => q.hook \in {"teardown", "flush"},
           q.hook \in {"result", "finalize"} =>
              p.hook \in {"result", "finalize"} /\ q.result = p.result,
           q.draft # NoDraft =>
              /\ q.reason # Parallel /\ DOMAIN q.draft = DraftFields
              /\ q.hook \in {"eligible", "test", "result", "finalize"}
                    \/ q.resume = "test" => Place(p) \in q.draft.covers
    PROVE  Posed(q) /\ Place(q) = Place(p)
<1>1. Place(q) = Place(p)
  BY DEF Place
<1> QED
  BY <1>1 DEF Posed

LEMMA Stays ==
    ASSUME NEW p, NEW q, Posed(p), Posed(q), Place(q) = Place(p),
           Ahead(q) => Ahead(p), Over(p) => Over(q)
    PROVE  Later(p, q)
BY DEF Later, Place

\* The worker as it was is sound for what it comes to know.
LEMMA SoundLater ==
    ASSUME NEW p, NEW q, Posed(p), Posed(q), Later(p, q),
           q.outcomes = p.outcomes,
           SoundWorker(p, ElapsedOf(p), HeardOf(p))
    PROVE  SoundWorker(p, ElapsedOf(q), HeardOf(q))
<1>1. ElapsedOf(p) \subseteq ElapsedOf(q)
  BY LaterElapsed
<1>2. HeardOf(q) = HeardOf(p)
  BY DEF HeardOf
<1> QED
  BY <1>1, <1>2, SoundStays DEF SoundWorker

LEMMA KeptSound ==
    ASSUME NEW s, NEW q, NEW past, NEW heard, SoundWorker(s, past, heard),
           NEW e, SoundBy(e, past, heard), q.completed = Kept(s.completed, e)
    PROVE  \A x \in q.completed : SoundBy(x, past, heard)
BY DEF SoundWorker, Kept

\* A step that changes neither the draft nor the list of entries.
LEMMA QuietOnward ==
    ASSUME Ready, NEW q, Posed(q), Later(process, q),
           q.outcomes = process.outcomes, q.completed = process.completed,
           q.draft \in {process.draft, NoDraft}
    PROVE  Onward(q)
<1>1. SoundWorker(process, ElapsedOf(q), HeardOf(q))
  BY SoundLater DEF Ready
<1> QED
  BY <1>1 DEF Onward, SoundWorker

LEMMA JoinOnward ==
    ASSUME Ready, JoinSpecEntry
    PROVE  Onward(Settle(process'))
<1> DEFINE q == Settle(process')
<1>1. DOMAIN process = ProcessFields /\ Posed(process)
  BY DEF Ready, Posed
<1>2. process.draft # NoDraft => DOMAIN process.draft = DraftFields
  BY DEF Ready, Holds
<1>3. process.draft # NoDraft
  BY DEF JoinSpecEntry
<1>4. /\ Like(q, process, {"hook", "already", "draft"})
      /\ process.hook = "begin" /\ q.hook = "eligible"
      /\ process.reason # Parallel
      /\ q.draft = [process.draft EXCEPT !.covers = @ \union {Execution}]
      /\ Silent(process', process)
  BY <1>1, <1>2, <1>3, JoinEffect
<1> HIDE DEF q
<1>5. /\ q.draft.result = process.draft.result
      /\ q.draft.covers = process.draft.covers \union {Execution}
      /\ DOMAIN q.draft = DraftFields
  BY <1>2, <1>3, <1>4 DEF DraftFields
<1>6. /\ DOMAIN q = ProcessFields /\ q.retry = process.retry
      /\ q.at = process.at /\ q.try = process.try /\ q.resume = process.resume
      /\ q.outcomes = process.outcomes /\ q.completed = process.completed
      /\ q.reason = process.reason
  BY <1>4 DEF Like, ProcessFields
<1>7. Posed(q) /\ Place(q) = Place(process)
  BY <1>1, <1>4, <1>5, <1>6, PosedAgain DEF Posed, Hooks, Execution, Place
<1>8. Later(process, q)
  BY <1>1, <1>4, <1>7, Stays DEF Ahead, Over
<1>9. SoundWorker(process, ElapsedOf(q), HeardOf(q))
  BY <1>1, <1>6, <1>7, <1>8, SoundLater DEF Ready
<1>10. SoundWorker(q, ElapsedOf(q), HeardOf(q))
  BY <1>3, <1>5, <1>6, <1>9, SoundSame DEF SoundWorker
<1> QED
  BY <1>7, <1>8, <1>10 DEF Onward, q

LEMMA BeginOnward ==
    ASSUME Ready, BeginEntity
    PROVE  Onward(Settle(process'))
<1> DEFINE q == Settle(process')
           d == CreateDraft(process, Current)
           entry == BuildEntry(d, Checkpoint, "unknown")
<1>1. DOMAIN process = ProcessFields /\ Posed(process)
  BY DEF Ready, Posed
<1>2. /\ Like(q, process, {"hook", "completed", "write", "then", "begun",
                           "already", "draft"})
      /\ process.hook = "begin" /\ q.hook = "eligible"
      /\ process.reason # Parallel /\ q.draft = d
      /\ Writes(process', process, entry, "eligible")
  BY <1>1, BeginEffect
<1>3. /\ d.result = "unknown" /\ d.covers = {Execution}
      /\ DOMAIN d = DraftFields
      /\ entry.result = "unknown"
  BY DEF CreateDraft, BuildEntry, DraftFields
<1> HIDE DEF d, entry, q
<1>4. q.completed = Kept(process.completed, entry)
  BY <1>2 DEF Writes, q
<1>5. /\ DOMAIN q = ProcessFields /\ q.retry = process.retry
      /\ q.at = process.at /\ q.try = process.try /\ q.resume = process.resume
      /\ q.outcomes = process.outcomes /\ q.reason = process.reason
  BY <1>2 DEF Like, ProcessFields
<1>6. Posed(q) /\ Place(q) = Place(process)
  BY <1>1, <1>2, <1>3, <1>5, PosedAgain DEF Posed, Hooks, Execution, Place
<1>7. Later(process, q)
  BY <1>1, <1>2, <1>6, Stays DEF Ahead, Over
<1>8. SoundWorker(process, ElapsedOf(q), HeardOf(q))
  BY <1>1, <1>5, <1>6, <1>7, SoundLater DEF Ready
<1>9. SoundWorker(q, ElapsedOf(q), HeardOf(q))
  <2>1. SoundBy(entry, ElapsedOf(q), HeardOf(q))
    BY <1>3 DEF SoundBy
  <2>2. SoundBy(q.draft, ElapsedOf(q), HeardOf(q))
    BY <1>2, <1>3 DEF SoundBy
  <2> QED
    BY <1>4, <1>8, <2>1, <2>2, KeptSound DEF SoundWorker
<1> QED
  BY <1>6, <1>7, <1>9 DEF Onward, q

LEMMA ParallelOnward ==
    ASSUME Ready, RecordParallelEntity
    PROVE  Onward(Settle(process'))
<1> DEFINE q == Settle(process')
<1>1. DOMAIN process = ProcessFields /\ Posed(process)
  BY DEF Ready, Posed
<1>2. /\ Like(q, process, {"hook", "completed", "write", "then", "begun",
                           "overlapRecorded"})
      /\ process.hook = "begin" /\ q.hook = "test"
      /\ process.reason = Parallel
      /\ \/ Silent(process', process)
         \/ \E d, options :
               Writes(process', process,
                      BuildEntry(CreateDraft(d, Current), options,
                                 Current.skippedResult), "test")
  BY <1>1, ParallelEffect
<1>3. /\ DOMAIN q = ProcessFields /\ q.retry = process.retry
      /\ q.at = process.at /\ q.try = process.try /\ q.resume = process.resume
      /\ q.outcomes = process.outcomes /\ q.draft = process.draft
      /\ q.reason = process.reason
  BY <1>2 DEF Like, ProcessFields
<1>4. q = process' \/ process'.hook = "write"
  BY DEF Settle
<1> HIDE DEF q
<1>5. Posed(q) /\ Place(q) = Place(process)
  BY <1>1, <1>2, <1>3, PosedAgain DEF Posed, Hooks
<1>6. Later(process, q)
  BY <1>1, <1>2, <1>3, <1>5, Stays DEF Ahead, Over
<1>7. CASE Silent(process', process)
  <2>1. q.completed = process.completed
    BY <1>4, <1>7 DEF Silent
  <2> QED
    BY <1>3, <1>5, <1>6, <2>1, QuietOnward DEF q
<1>8. CASE \E d, options :
               Writes(process', process,
                      BuildEntry(CreateDraft(d, Current), options,
                                 Current.skippedResult), "test")
  <2>1. PICK entry : /\ entry.result = Current.skippedResult
                     /\ Writes(process', process, entry, "test")
    BY <1>8 DEF BuildEntry
  <2>2. entry.result = "unknown"
    BY <1>1, <2>1, NotSkipped DEF Ready, Posed
  <2>3. SoundWorker(process, ElapsedOf(q), HeardOf(q))
    BY <1>1, <1>3, <1>5, <1>6, SoundLater DEF Ready
  <2>4. q.completed = Kept(process.completed, entry)
    BY <2>1 DEF Writes, q
  <2>5. SoundBy(entry, ElapsedOf(q), HeardOf(q))
    BY <2>2 DEF SoundBy
  <2>6. SoundWorker(q, ElapsedOf(q), HeardOf(q))
    BY <1>3, <2>3, <2>4, <2>5, KeptSound DEF SoundWorker
  <2> QED
    BY <1>5, <1>6, <2>6 DEF Onward, q
<1> QED
  BY <1>2, <1>7, <1>8

\* The worker with its attempt settled.
LEMMA AttemptedPosed ==
    ASSUME Ready, process.hook = "eligible"
    PROVE  /\ Posed(Attempted) /\ Place(Attempted) = Place(process)
           /\ Attempted.hook = "eligible" /\ Attempted.resume = process.resume
           /\ Attempted.outcomes = process.outcomes
           /\ Attempted.completed = process.completed
           /\ Attempted.reason = process.reason
           /\ Attempted.already = process.already
           /\ Attempted.draft = NoDraft <=> process.draft = NoDraft
           /\ process.draft # NoDraft =>
                 /\ DOMAIN Attempted.draft = DraftFields
                 /\ Attempted.draft.result = process.draft.result
                 /\ Attempted.draft.covers = process.draft.covers
                 /\ Attempted.draft.id = process.draft.id
                 /\ Attempted.draft.attempt = Retry + 1
           /\ SoundWorker(Attempted, ElapsedOf(process), HeardOf(process))
<1> DEFINE p == Attempted
<1>1. /\ DOMAIN process = ProcessFields /\ Posed(process)
      /\ SoundWorker(process, ElapsedOf(process), HeardOf(process))
      /\ process.draft # NoDraft => DOMAIN process.draft = DraftFields
  BY DEF Ready, Posed, Holds
<1>2. /\ Like(p, process, {"seen", "draft"})
      /\ p.draft = IF process.draft = NoDraft THEN NoDraft
                   ELSE [process.draft EXCEPT !.attempt = Retry + 1]
  BY <1>1, AttemptedLike
<1> HIDE DEF p
<1>3. process.draft # NoDraft =>
         /\ DOMAIN p.draft = DraftFields
         /\ p.draft.result = process.draft.result
         /\ p.draft.covers = process.draft.covers
         /\ p.draft.id = process.draft.id /\ p.draft.attempt = Retry + 1
  BY <1>1, <1>2 DEF DraftFields
<1>4. p.draft = NoDraft <=> process.draft = NoDraft
  <2>1. DOMAIN NoDraft = {"id"} /\ "attempt" \in DraftFields
    BY DEF NoDraft, DraftFields
  <2> QED
    BY <1>2, <1>3, <2>1
<1>5. /\ DOMAIN p = ProcessFields /\ p.retry = process.retry
      /\ p.at = process.at /\ p.try = process.try /\ p.resume = process.resume
      /\ p.outcomes = process.outcomes /\ p.completed = process.completed
      /\ p.reason = process.reason /\ p.already = process.already
      /\ p.hook = process.hook
  BY <1>2 DEF Like, ProcessFields
<1>6. Posed(p) /\ Place(p) = Place(process)
  BY <1>1, <1>3, <1>4, <1>5, PosedAgain DEF Posed, Hooks
<1>7. SoundWorker(p, ElapsedOf(process), HeardOf(process))
  BY <1>1, <1>3, <1>4, <1>5, SoundSame DEF SoundWorker
<1> QED
  BY <1>3, <1>4, <1>5, <1>6, <1>7 DEF p

LEMMA SkipOfOnward ==
    ASSUME Ready, NEW p, Posed(p), Place(p) = Place(process),
           p.hook = "eligible", process.hook = "eligible",
           p.resume = process.resume, p.outcomes = process.outcomes,
           p.completed = process.completed,
           SoundWorker(p, ElapsedOf(process), HeardOf(process)),
           NEW reason, SkipOf(process', p, reason)
    PROVE  Onward(Settle(process'))
<1> DEFINE q == Settle(process')
           entry == BuildEntry(p.draft, Decline(reason),
                               CombineResults({p.draft.result,
                                               Current.skippedResult}))
<1>1. /\ Like(q, p, {"hook", "completed", "write", "then", "draft", "last"})
      /\ q.hook = "test"
      /\ \/ q.draft = p.draft /\ Silent(process', p)
         \/ /\ p.draft # NoDraft /\ q.draft = NoDraft
            /\ Writes(process', p, entry, "test")
  BY DEF SkipOf
<1>2. q = process' \/ process'.hook = "write"
  BY DEF Settle
<1>3. /\ entry.covers = p.draft.covers
      /\ entry.result = CombineResults({p.draft.result, Current.skippedResult})
  BY DEF BuildEntry
<1>4. Current.skippedResult = "unknown"
  BY NotSkipped DEF Ready, Posed
<1>5. entry.result \in {p.draft.result, "unknown"}
  BY <1>3, <1>4, Combines
<1> HIDE DEF q, entry
<1>6. /\ DOMAIN q = ProcessFields /\ q.retry = p.retry
      /\ q.at = p.at /\ q.try = p.try /\ q.resume = p.resume
      /\ q.outcomes = p.outcomes /\ q.reason = p.reason
  BY <1>1 DEF Like, ProcessFields
<1>7. Posed(q) /\ Place(q) = Place(p)
  BY <1>1, <1>6, PosedAgain DEF Posed, Hooks
<1>8. Later(p, q) /\ Later(process, q)
  BY <1>1, <1>6, <1>7, Stays DEF Ahead, Over, Ready, Posed
<1>9. ElapsedOf(p) = ElapsedOf(process) /\ HeardOf(p) = HeardOf(process)
  BY DEF ElapsedOf, HeardOf, Ahead
<1>10. SoundWorker(p, ElapsedOf(q), HeardOf(q))
  BY <1>6, <1>7, <1>8, <1>9, SoundLater
<1>11. SoundWorker(q, ElapsedOf(q), HeardOf(q))
  <2>1. CASE q.draft = p.draft /\ Silent(process', p)
    <3>1. q.completed = p.completed
      BY <1>2, <2>1 DEF Silent
    <3> QED
      BY <1>10, <2>1, <3>1 DEF SoundWorker
  <2>2. CASE /\ p.draft # NoDraft /\ q.draft = NoDraft
             /\ Writes(process', p, entry, "test")
    <3>1. q.completed = Kept(p.completed, entry)
      BY <2>2 DEF Writes, q
    <3>2. SoundBy(entry, ElapsedOf(q), HeardOf(q))
      BY <1>3, <1>5, <1>10, <2>2, SoundSame DEF SoundWorker
    <3> QED
      BY <1>10, <2>2, <3>1, <3>2, KeptSound DEF SoundWorker
  <2> QED
    BY <1>1, <2>1, <2>2
<1> QED
  BY <1>7, <1>8, <1>11 DEF Onward, q

LEMMA SkipOnward ==
    ASSUME Ready, SkipIneligible \/ SkipFirstAttempt
    PROVE  Onward(Settle(process'))
<1>1. DOMAIN process = ProcessFields /\ Posed(process)
  BY DEF Ready, Posed
<1>2. CASE SkipIneligible
  <2>1. /\ process.hook = "eligible"
        /\ \E reason : SkipOf(process', process, reason)
    BY <1>1, <1>2, SkipEffect
  <2> QED
    BY <1>1, <2>1, SkipOfOnward DEF Ready
<1>3. CASE SkipFirstAttempt
  <2>1. /\ process.hook = "eligible"
        /\ SkipOf(process', Attempted, "first-attempt")
    BY <1>1, <1>3, FirstEffect
  <2> QED
    BY <1>1, <2>1, AttemptedPosed, SkipOfOnward
<1> QED
  BY <1>2, <1>3

LEMMA FilmOnward ==
    ASSUME Ready, ContinueSpec \/ StartRecording
    PROVE  Onward(Settle(process'))
<1> DEFINE q == Settle(process')
<1>1. DOMAIN process = ProcessFields /\ Posed(process)
  BY DEF Ready, Posed
<1>2. /\ Like(q, Attempted, {"hook", "active", "recording"})
      /\ process.hook = "eligible" /\ q.hook = "test"
  BY <1>1, GoOnEffect, StartEffect DEF Like
<1> HIDE DEF q
<1>3. /\ Posed(Attempted) /\ Place(Attempted) = Place(process)
      /\ Attempted.hook = "eligible" /\ Attempted.resume = process.resume
      /\ Attempted.outcomes = process.outcomes
      /\ SoundWorker(Attempted, ElapsedOf(process), HeardOf(process))
  BY <1>2, AttemptedPosed
<1>4. /\ DOMAIN q = ProcessFields /\ q.retry = Attempted.retry
      /\ q.at = Attempted.at /\ q.try = Attempted.try
      /\ q.resume = Attempted.resume
      /\ q.outcomes = Attempted.outcomes /\ q.reason = Attempted.reason
      /\ q.draft = Attempted.draft /\ q.completed = Attempted.completed
  BY <1>2 DEF Like, ProcessFields
<1>5. Posed(q) /\ Place(q) = Place(Attempted)
  BY <1>2, <1>3, <1>4, PosedAgain DEF Posed, Hooks
<1>6. Later(Attempted, q) /\ Later(process, q)
  BY <1>1, <1>2, <1>3, <1>4, <1>5, Stays DEF Ahead, Over
<1>7. /\ ElapsedOf(Attempted) = ElapsedOf(process)
      /\ HeardOf(Attempted) = HeardOf(process)
  BY <1>2, <1>3 DEF ElapsedOf, HeardOf, Ahead
<1>8. SoundWorker(Attempted, ElapsedOf(q), HeardOf(q))
  BY <1>3, <1>4, <1>5, <1>6, <1>7, SoundLater
<1>9. SoundWorker(q, ElapsedOf(q), HeardOf(q))
  BY <1>4, <1>8 DEF SoundWorker
<1> QED
  BY <1>5, <1>6, <1>9 DEF Onward, q

LEMMA StartFailsOnward ==
    ASSUME Ready, NEW disables, StartFails(disables)
    PROVE  Onward(Settle(process'))
<1> DEFINE q == Settle(process')
           p == Attempted
<1>1. DOMAIN process = ProcessFields /\ Posed(process)
  BY DEF Ready, Posed
<1>2. /\ Like(q, p, {"hook", "completed", "write", "then", "draft",
                     "last", "recording", "active", "reason"})
      /\ process.hook = "eligible" /\ q.hook = "test" /\ q.draft = NoDraft
      /\ \/ Silent(process', process)
         \/ \E options :
               /\ p.draft # NoDraft
               /\ Writes(process', process,
                         BuildEntry(p.draft, options,
                                    CombineResults({p.draft.result, "unknown"})),
                         "test")
  BY <1>1, StartFailsEffect
<1>3. /\ Posed(p) /\ Place(p) = Place(process)
      /\ p.hook = "eligible" /\ p.resume = process.resume
      /\ p.outcomes = process.outcomes /\ p.completed = process.completed
      /\ SoundWorker(p, ElapsedOf(process), HeardOf(process))
  BY <1>2, AttemptedPosed
<1>4. q = process' \/ process'.hook = "write"
  BY DEF Settle
<1> HIDE DEF q, p
<1>5. /\ DOMAIN q = ProcessFields /\ q.retry = p.retry
      /\ q.at = p.at /\ q.try = p.try /\ q.resume = p.resume
      /\ q.outcomes = p.outcomes
  BY <1>2 DEF Like, ProcessFields
<1>6. Posed(q) /\ Place(q) = Place(p)
  BY <1>2, <1>3, <1>5, PosedAgain DEF Posed, Hooks
<1>7. Later(p, q) /\ Later(process, q)
  BY <1>1, <1>2, <1>3, <1>5, <1>6, Stays DEF Ahead, Over
<1>8. ElapsedOf(p) = ElapsedOf(process) /\ HeardOf(p) = HeardOf(process)
  BY <1>2, <1>3 DEF ElapsedOf, HeardOf, Ahead
<1>9. SoundWorker(p, ElapsedOf(q), HeardOf(q))
  BY <1>3, <1>5, <1>6, <1>7, <1>8, SoundLater
<1>10. CASE Silent(process', process)
  <2>1. q.completed = p.completed
    BY <1>3, <1>4, <1>10 DEF Silent
  <2>2. SoundWorker(q, ElapsedOf(q), HeardOf(q))
    BY <1>2, <1>9, <2>1 DEF SoundWorker
  <2> QED
    BY <1>6, <1>7, <2>2 DEF Onward, q
<1>11. CASE \E options :
               /\ p.draft # NoDraft
               /\ Writes(process', process,
                         BuildEntry(p.draft, options,
                                    CombineResults({p.draft.result, "unknown"})),
                         "test")
  <2>1. PICK entry :
           /\ p.draft # NoDraft /\ entry.covers = p.draft.covers
           /\ entry.result = CombineResults({p.draft.result, "unknown"})
           /\ Writes(process', process, entry, "test")
    BY <1>11 DEF BuildEntry
  <2>2. entry.result \in {p.draft.result, "unknown"}
    BY <2>1, Combines
  <2>3. SoundBy(entry, ElapsedOf(q), HeardOf(q))
    BY <1>9, <2>1, <2>2, SoundSame DEF SoundWorker
  <2>4. q.completed = Kept(p.completed, entry)
    BY <1>3, <2>1 DEF Writes, q
  <2>5. SoundWorker(q, ElapsedOf(q), HeardOf(q))
    BY <1>2, <1>9, <2>3, <2>4, KeptSound DEF SoundWorker
  <2> QED
    BY <1>6, <1>7, <2>5 DEF Onward, q
<1> QED
  BY <1>2, <1>10, <1>11

\* Only the test itself adds outcomes, of the execution that was to run.
LEMMA TestOnward ==
    ASSUME Ready, NEW result, RunTest(result)
    PROVE  /\ Onward(Settle(process'))
           /\ \A o \in Range(Settle(process').outcomes) :
                 \/ o \in Range(process.outcomes)
                 \/ o.execution = Place(process) /\ o.retry = Level(o.execution)
<1> DEFINE q == Settle(process')
<1>1. DOMAIN process = ProcessFields /\ Posed(process)
  BY DEF Ready, Posed
<1>2. /\ Like(q, process, {"hook", "result", "outcomes"})
      /\ process.hook = "test" /\ q.hook = "result"
      /\ result \in scene.results /\ q.result = result
      /\ q.outcomes = Captured(process.outcomes, result)
      /\ Silent(process', process)
  BY <1>1, TestEffect
<1>3. q = process' \/ process'.hook = "write"
  BY DEF Settle
<1> HIDE DEF q
<1>4. /\ DOMAIN q = ProcessFields /\ q.retry = process.retry
      /\ q.at = process.at /\ q.try = process.try /\ q.resume = process.resume
      /\ q.draft = process.draft /\ q.reason = process.reason
      /\ q.completed = process.completed
  BY <1>2, <1>3 DEF Like, ProcessFields, Silent
<1>5. process.outcomes \in Seq(Range(process.outcomes))
  BY <1>1 DEF Posed
<1>6. /\ q.outcomes \in Seq(Range(q.outcomes))
      /\ Range(process.outcomes) \subseteq Range(q.outcomes)
      /\ \A o \in Range(q.outcomes) : o \in Range(process.outcomes) \/
            /\ o.execution = Place(process) /\ o.result = result
            /\ o.retry = Max({process.retry, process.try})
  <2>1. Execution = Place(process)
    BY DEF Execution, Place
  <2> DEFINE t == Captured(process.outcomes, result)
  <2>2. /\ t \in Seq(Range(t)) /\ Range(process.outcomes) \subseteq Range(t)
        /\ \A o \in Range(t) : o \in Range(process.outcomes) \/
              /\ o.execution = Execution /\ o.result = result
              /\ o.retry = Max({process.retry, process.try})
    <3> HIDE DEF t
    <3>1. process.outcomes \in Seq(Range(process.outcomes))
      BY <1>5
    <3> QED
      BY <3>1, CapturedAdds DEF t
  <2> HIDE DEF t
  <2>3. q.outcomes = t
    BY <1>2 DEF t
  <2> QED
    BY <2>1, <2>2, <2>3
<1>7. Place(q) = Place(process) /\ Ahead(process) /\ ~Ahead(q)
  BY <1>1, <1>2, <1>4 DEF Place, Ahead, Posed
<1>8. \A o \in Range(process.outcomes) : o.execution # Place(process)
  <2>1. Place(process) \notin ElapsedOf(process)
    BY <1>1, <1>7, PlaceFacts DEF ElapsedOf, Earlier, Posed
  <2> QED
    BY <2>1 DEF Ready, HeardOf
<1>9. \A o \in Range(q.outcomes) :
         /\ o.execution[1] = q.retry
         /\ o.execution = Place(q) => o.result = q.result
  BY <1>1, <1>2, <1>4, <1>6, <1>7, <1>8, PlaceFacts DEF Posed
<1>10. Posed(q)
  BY <1>1, <1>2, <1>4, <1>6, <1>7, <1>9 DEF Posed, Hooks
<1>11. Later(process, q)
  BY <1>1, <1>2, <1>7, <1>10, Stays DEF Over
<1>12. SoundWorker(q, ElapsedOf(q), HeardOf(q))
  <2>1. ElapsedOf(process) \subseteq ElapsedOf(q)
    BY <1>1, <1>10, <1>11, LaterElapsed
  <2>2. \A o \in HeardOf(q) :
           o \in HeardOf(process) \/ o.execution \notin ElapsedOf(process)
    <3>1. Place(process) \notin ElapsedOf(process)
      BY <1>1, <1>7, PlaceFacts DEF ElapsedOf, Earlier, Posed
    <3> QED
      BY <1>6, <3>1 DEF HeardOf
  <2> QED
    BY <1>4, <2>1, <2>2, SoundStays DEF SoundWorker, Ready
<1>13. \A o \in Range(q.outcomes) :
          \/ o \in Range(process.outcomes)
          \/ o.execution = Place(process) /\ o.retry = Level(o.execution)
  BY <1>6, PlaceFacts DEF Level
<1> QED
  BY <1>10, <1>11, <1>12, <1>13 DEF Onward, q

LEMMA ReloadOnward ==
    ASSUME Ready, NEW chromium, ReloadSession(chromium)
    PROVE  Onward(Settle(process'))
<1> DEFINE q == Settle(process')
<1>1. DOMAIN process = ProcessFields /\ Posed(process)
  BY DEF Ready, Posed
<1>2. /\ Like(q, process, {"hook", "resume", "chromium", "reloaded"})
      /\ process.hook = "test" /\ q.hook = "teardown" /\ q.resume = "test"
  BY <1>1, ReloadEffect
<1> HIDE DEF q
<1>3. /\ DOMAIN q = ProcessFields /\ q.retry = process.retry
      /\ q.at = process.at /\ q.try = process.try
      /\ q.outcomes = process.outcomes /\ q.completed = process.completed
      /\ q.draft = process.draft /\ q.reason = process.reason
  BY <1>2 DEF Like, ProcessFields
<1>4. Posed(q) /\ Place(q) = Place(process)
  BY <1>1, <1>2, <1>3, PosedAgain DEF Posed, Hooks
<1>5. Later(process, q)
  BY <1>1, <1>2, <1>4, Stays DEF Ahead, Over
<1>6. Onward(q)
  BY <1>3, <1>4, <1>5, QuietOnward
<1> QED
  BY <1>6 DEF q

\* On to the next execution, or to the end of the worker.
LEMMA AdvancePosed ==
    ASSUME scene \in Scenes, NEW p, Posed(p), p.hook \in {"result", "finalize"},
           NEW q, q.draft \in {p.draft, NoDraft},
           Like(q, Advance(p), {"recording", "active", "tasks", "draft", "last",
                                "completed", "write", "then"})
    PROVE  Posed(q) /\ Later(p, q) /\ q.outcomes = p.outcomes
<1>1. /\ DOMAIN p = ProcessFields
      /\ p.retry \in Nat /\ p.at \in 1 .. Len(scene.plan) /\ p.try \in Nat
      /\ p.resume = "exit" /\ Len(scene.plan) \in Nat
  BY PlanLength DEF Posed
<1>2. /\ Like(Advance(p), p, {"try", "at", "bad", "result", "hook"})
      /\ \/ /\ Advance(p).hook = "begin"
            /\ Advance(p).at = p.at /\ Advance(p).try = p.try + 1
         \/ /\ Advance(p).hook = "begin"
            /\ Advance(p).at = p.at + 1 /\ Advance(p).try = 0
            /\ p.at < Len(scene.plan)
         \/ /\ Advance(p).hook = "teardown"
            /\ Advance(p).at = p.at /\ Advance(p).try = p.try
  BY <1>1, AdvanceLike
<1>3. /\ DOMAIN q = ProcessFields /\ q.retry = p.retry
      /\ q.outcomes = p.outcomes /\ q.reason = p.reason /\ q.resume = "exit"
      /\ q.hook = Advance(p).hook /\ q.at = Advance(p).at
      /\ q.try = Advance(p).try
  BY <1>1, <1>2 DEF Like, ProcessFields
<1>4. q.at \in 1 .. Len(scene.plan) /\ q.try \in Nat
  BY <1>1, <1>2, <1>3
<1>5. q.hook \in {"begin", "teardown"}
  BY <1>2, <1>3
<1>6. Posed(q)
  BY <1>3, <1>4, <1>5 DEF Posed, Hooks
<1>7. Later(p, q)
  <2>1. ~Over(p)
    BY DEF Over
  <2>2. CASE q.hook = "begin"
    <3>1. \/ q.at = p.at /\ q.try = p.try + 1
          \/ q.at = p.at + 1
      BY <1>2, <1>3, <2>2
    <3>2. Earlier(Place(p), Place(q))
      BY <1>1, <1>3, <3>1, PlaceFacts DEF Earlier
    <3> QED
      BY <1>3, <2>1, <3>2 DEF Later
  <2>3. CASE q.hook = "teardown"
    <3>1. Place(q) = Place(p) /\ ~Ahead(q)
      BY <1>2, <1>3, <2>3 DEF Place, Ahead
    <3> QED
      BY <1>3, <2>1, <3>1 DEF Later
  <2> QED
    BY <1>5, <2>2, <2>3
<1> QED
  BY <1>3, <1>6, <1>7

LEMMA LikeItself ==
    ASSUME NEW p, DOMAIN p = ProcessFields, NEW changed
    PROVE  Like(p, p, changed)
BY DEF Like

\* What the worker has run has the result of the worker, nothing else has.
LEMMA OwnResult ==
    ASSUME Ready, process.hook \in {"result", "finalize"}
    PROVE  /\ Place(process) \in ElapsedOf(process)
           /\ \A o \in HeardOf(process) :
                 o.execution = Place(process) => o.result = process.result
           /\ TestOutcome.manifestResult = process.result
<1>1. Posed(process) /\ scene \in Scenes
  BY DEF Ready
<1>2. Place(process) \in ElapsedOf(process)
  BY <1>1, PlanLength DEF ElapsedOf, Ahead, Posed, Place, Executions
<1>3. \A o \in HeardOf(process) :
         o.execution = Place(process) => o.result = process.result
  BY <1>1, PlaceFacts DEF Ready, HeardOf, Posed
<1>4. TestOutcome.manifestResult = process.result
  BY <1>1, OutcomeFacts DEF Posed
<1> QED
  BY <1>2, <1>3, <1>4

LEMMA EndOnward ==
    ASSUME Ready, EndEntity
    PROVE  Onward(Settle(process'))
<1> DEFINE q == Settle(process')
           last == {e \in process.completed : e.id = process.last}
<1>1. /\ DOMAIN process = ProcessFields /\ Posed(process) /\ scene \in Scenes
      /\ process.draft # NoDraft => DOMAIN process.draft = DraftFields
      /\ \A e \in process.completed : DOMAIN e = EntryFields
  BY DEF Ready, Posed, Holds, OneOf
<1>2. CASE process.reason = Parallel
  <2>1. /\ process.hook = "result" /\ process' = Advance(process)
        /\ Settle(process') = process' /\ Silent(process', process)
    BY <1>1, <1>2, EndParallelEffect
  <2>2. Like(q, Advance(process), {}) /\ q.completed = process.completed
    BY <1>1, <2>1, AdvanceLike, LikeItself DEF Like, Silent
  <2>3. q.draft = process.draft
    BY <1>1, <2>1, AdvanceLike DEF Like, ProcessFields
  <2>4. Like(q, Advance(process), {"recording", "active", "tasks", "draft",
                                   "last", "completed", "write", "then"})
    BY <2>2 DEF Like
  <2> HIDE DEF q
  <2>5. Posed(q) /\ Later(process, q) /\ q.outcomes = process.outcomes
    BY <1>1, <2>1, <2>3, <2>4, AdvancePosed
  <2>6. Onward(q)
    BY <2>2, <2>3, <2>5, QuietOnward
  <2> QED
    BY <2>6 DEF q
<1>3. CASE process.reason # Parallel
  <2>1. /\ Like(q, process, {"hook", "failed", "draft", "completed", "write",
                             "then"})
        /\ process.hook = "result" /\ q.hook = "finalize"
        /\ \/ /\ process.draft # NoDraft
              /\ q.draft = [process.draft EXCEPT !.result =
                               CombineResults({@, TestOutcome.manifestResult})]
              /\ Silent(process', process)
           \/ /\ process.draft = NoDraft /\ q.draft = NoDraft
              /\ last = {} /\ Silent(process', process)
           \/ /\ process.draft = NoDraft /\ q.draft = NoDraft
              /\ \E e \in last :
                    Writes(process', process,
                        [e EXCEPT !.result = CombineResults(
                                      {@, TestOutcome.manifestResult}),
                                  !.covers = @ \union {Execution}],
                        "finalize")
    BY <1>1, <1>3, EndEffect
  <2>2. q = process' \/ process'.hook = "write"
    BY DEF Settle
  <2>3. \A e : Writes(process', process, e, "finalize") =>
                  q.completed = Kept(process.completed, e)
    BY DEF Writes
  <2> HIDE DEF q
  <2>4. /\ DOMAIN q = ProcessFields /\ q.retry = process.retry
        /\ q.at = process.at /\ q.try = process.try
        /\ q.resume = process.resume /\ q.result = process.result
        /\ q.outcomes = process.outcomes /\ q.reason = process.reason
    BY <2>1 DEF Like, ProcessFields
  <2>5. process.draft # NoDraft =>
           /\ Place(process) \in process.draft.covers
           /\ q.draft # NoDraft => /\ DOMAIN q.draft = DraftFields
                                   /\ q.draft.covers = process.draft.covers
    BY <1>1, <1>3, <2>1 DEF Posed, DraftFields
  <2>6. Posed(q) /\ Place(q) = Place(process)
    BY <1>1, <1>3, <2>1, <2>4, <2>5, PosedAgain DEF Posed, Hooks
  <2>7. Later(process, q)
    BY <1>1, <2>1, <2>4, <2>6, Stays DEF Ahead, Over
  <2>8. SoundWorker(process, ElapsedOf(q), HeardOf(q))
    BY <1>1, <2>4, <2>6, <2>7, SoundLater DEF Ready
  <2>9. /\ Place(process) \in ElapsedOf(q)
        /\ \A o \in HeardOf(q) :
              o.execution = Place(process) => o.result = process.result
        /\ TestOutcome.manifestResult = process.result
    <3>1. HeardOf(q) = HeardOf(process)
      BY <2>4 DEF HeardOf
    <3>2. ElapsedOf(process) \subseteq ElapsedOf(q)
      BY <1>1, <2>6, <2>7, LaterElapsed
    <3> QED
      BY <2>1, <3>1, <3>2, OwnResult
  <2>10. Execution = Place(process)
    BY DEF Execution, Place
  <2>11. SoundWorker(q, ElapsedOf(q), HeardOf(q))
    <3>1. CASE /\ process.draft # NoDraft
               /\ q.draft = [process.draft EXCEPT !.result =
                               CombineResults({@, TestOutcome.manifestResult})]
               /\ Silent(process', process)
      <4>1. q.draft.result = CombineResults({process.draft.result, process.result})
        BY <1>1, <2>9, <3>1 DEF DraftFields
      <4>2. q.draft.covers = process.draft.covers
        BY <1>1, <3>1 DEF DraftFields
      <4>3. q.completed = process.completed
        BY <2>2, <3>1 DEF Silent
      <4>4. SoundBy(q.draft, ElapsedOf(q), HeardOf(q))
        BY <2>5, <2>8, <2>9, <3>1, <4>1, <4>2, SoundTogether DEF SoundWorker
      <4> QED
        BY <2>8, <4>3, <4>4 DEF SoundWorker
    <3>2. CASE /\ process.draft = NoDraft /\ q.draft = NoDraft
               /\ last = {} /\ Silent(process', process)
      <4>1. q.completed = process.completed
        BY <2>2, <3>2 DEF Silent
      <4> QED
        BY <2>8, <3>2, <4>1 DEF SoundWorker
    <3>3. CASE /\ process.draft = NoDraft /\ q.draft = NoDraft
               /\ \E e \in last :
                     Writes(process', process,
                         [e EXCEPT !.result = CombineResults(
                                       {@, TestOutcome.manifestResult}),
                                   !.covers = @ \union {Execution}],
                         "finalize")
      <4>1. PICK e \in last :
                     Writes(process', process,
                         [e EXCEPT !.result = CombineResults(
                                       {@, TestOutcome.manifestResult}),
                                   !.covers = @ \union {Execution}],
                         "finalize")
        BY <3>3
      <4> DEFINE d == [e EXCEPT !.result = CombineResults(
                                       {@, TestOutcome.manifestResult}),
                                !.covers = @ \union {Execution}]
      <4>2. /\ d.result = CombineResults({e.result, process.result})
            /\ d.covers = e.covers \union {Place(process)}
        BY <1>1, <2>9, <2>10 DEF EntryFields
      <4>3. q.completed = Kept(process.completed, d)
        BY <2>3, <4>1
      <4> HIDE DEF d
      <4>4. SoundBy(e, ElapsedOf(q), HeardOf(q))
        BY <2>8 DEF SoundWorker
      <4>5. SoundBy(d, ElapsedOf(q), HeardOf(q))
        BY <2>9, <4>2, <4>4, SoundTogether
      <4> QED
        BY <2>8, <3>3, <4>3, <4>5, KeptSound DEF SoundWorker
    <3> QED
      BY <2>1, <3>1, <3>2, <3>3
  <2> QED
    BY <2>6, <2>7, <2>11 DEF Onward, q
<1> QED
  BY <1>2, <1>3

----------------------------------------------------------------------------
(* So do they when recordings are finalized and deferred tasks end.        *)

\* A recording is finalized, and the entry of it completed.
LEMMA FinishSound ==
    ASSUME NEW p, NEW q, NEW passed, NEW result, NEW media, NEW then,
           FinishOf(q, p, passed, result, media, then),
           NEW past, NEW heard, SoundWorker(p, past, heard),
           \/ result = "unknown"
           \/ /\ p.draft # NoDraft
              /\ \E x \in past \intersect p.draft.covers :
                    \A o \in heard : o.execution = x => o.result = result
           \/ p.draft = NoDraft
    PROVE  SoundWorker(Settle(q), past, heard)
<1>1. Settle(q).draft = NoDraft
  BY DEF FinishOf
<1>2. CASE p.draft = NoDraft /\ Silent(q, p)
  <2>1. Settle(q) = q
    BY <1>2 DEF Silent, Settle
  <2> QED
    BY <1>1, <1>2, <2>1 DEF Silent, SoundWorker
<1>3. CASE p.draft # NoDraft
  <2>1. PICK options :
           Writes(q, p, BuildEntry(p.draft, options,
                                   CombineResults({p.draft.result, result})), then)
    BY <1>3 DEF FinishOf
  <2> DEFINE e == BuildEntry(p.draft, options,
                             CombineResults({p.draft.result, result}))
  <2>2. /\ e.covers = p.draft.covers
        /\ e.result = CombineResults({p.draft.result, result})
    BY DEF BuildEntry
  <2>3. Settle(q).completed = Kept(p.completed, e)
    BY <2>1 DEF Writes
  <2> HIDE DEF e
  <2>4. SoundBy(p.draft, past, heard)
    BY <1>3 DEF SoundWorker
  <2>5. SoundBy(e, past, heard)
    <3>1. CASE result = "unknown"
      <4>1. e.result \in {p.draft.result, "unknown"}
        BY <2>2, <3>1, Combines
      <4> QED
        BY <2>2, <2>4, <4>1, SoundSame
    <3>2. CASE \E x \in past \intersect p.draft.covers :
                  \A o \in heard : o.execution = x => o.result = result
      BY <2>2, <2>4, <3>2, SoundTogether
    <3> QED
      BY <1>3, <3>1, <3>2
  <2>6. \A x \in Settle(q).completed : SoundBy(x, past, heard)
    BY <2>3, <2>5, KeptSound
  <2> QED
    BY <1>1, <2>6 DEF SoundWorker
<1> QED
  BY <1>2, <1>3 DEF FinishOf

LEMMA FinalizeOnward ==
    ASSUME Ready, NEW media, FinalizeTest(media)
    PROVE  Onward(Settle(process'))
<1> DEFINE q == Settle(process')
           more == {"recording", "active", "tasks", "draft", "last",
                    "completed", "write", "then"}
<1>1. /\ DOMAIN process = ProcessFields /\ Posed(process) /\ scene \in Scenes
      /\ SoundWorker(process, ElapsedOf(process), HeardOf(process))
  BY DEF Ready, Posed
<1>2. /\ process.hook = "finalize"
      /\ \/ FinishOf(process', process, NonFailing(TestOutcome),
                     TestOutcome.manifestResult, media, "next")
         \/ /\ process' = Advance(process) /\ Settle(process') = process'
            /\ Silent(process', process)
  BY <1>1, FinalizeEffect
<1>3. CASE process' = Advance(process) /\ Settle(process') = process'
           /\ Silent(process', process)
  <2>1. /\ Like(q, Advance(process), more) /\ q.completed = process.completed
        /\ q.draft = process.draft
    BY <1>1, <1>3, AdvanceLike DEF Like, Silent, ProcessFields
  <2> HIDE DEF q
  <2>2. Posed(q) /\ Later(process, q) /\ q.outcomes = process.outcomes
    BY <1>1, <1>2, <2>1, AdvancePosed
  <2>3. Onward(q)
    BY <2>1, <2>2, QuietOnward
  <2> QED
    BY <2>3 DEF q
<1>4. CASE FinishOf(process', process, NonFailing(TestOutcome),
                    TestOutcome.manifestResult, media, "next")
  <2>1. Continue(process, "next") = Advance(process)
    BY DEF Continue
  <2>2. Like(q, Advance(process), more) /\ q.draft = NoDraft
    BY <1>4, <2>1 DEF FinishOf
  <2> HIDE DEF q
  <2>3. Posed(q) /\ Later(process, q) /\ q.outcomes = process.outcomes
    BY <1>1, <1>2, <2>2, AdvancePosed
  <2>4. SoundWorker(process, ElapsedOf(q), HeardOf(q))
    BY <1>1, <2>3, SoundLater
  <2>5. /\ Place(process) \in ElapsedOf(q)
        /\ \A o \in HeardOf(q) :
              o.execution = Place(process) => o.result = process.result
        /\ TestOutcome.manifestResult = process.result
    <3>1. HeardOf(q) = HeardOf(process)
      BY <2>3 DEF HeardOf
    <3>2. ElapsedOf(process) \subseteq ElapsedOf(q)
      BY <1>1, <2>3, LaterElapsed
    <3> QED
      BY <1>2, <3>1, <3>2, OwnResult
  <2>6. process.draft # NoDraft => Place(process) \in process.draft.covers
    BY <1>1, <1>2 DEF Posed
  <2>7. SoundWorker(Settle(process'), ElapsedOf(q), HeardOf(q))
    BY <1>4, <2>4, <2>5, <2>6, FinishSound
  <2> QED
    BY <2>3, <2>7 DEF Onward, q
<1> QED
  BY <1>2, <1>3, <1>4

LEMMA TeardownOnward ==
    ASSUME Ready, NEW media, Teardown(media)
    PROVE  Onward(Settle(process'))
<1> DEFINE q == Settle(process')
<1>1. /\ DOMAIN process = ProcessFields /\ Posed(process) /\ scene \in Scenes
      /\ SoundWorker(process, ElapsedOf(process), HeardOf(process))
  BY DEF Ready, Posed
<1>2. /\ process.hook = "teardown"
      /\ \/ FinishOf(process', process, ~process.failed, "unknown", media, "flush")
         \/ /\ Like(q, process, {"hook", "recording", "active"})
            /\ q.hook = "flush" /\ Silent(process', process)
  BY <1>1, TeardownEffect
<1>3. q = process' \/ process'.hook = "write"
  BY DEF Settle
<1>4. /\ DOMAIN q = ProcessFields /\ q.retry = process.retry
      /\ q.at = process.at /\ q.try = process.try /\ q.hook = "flush"
      /\ q.outcomes = process.outcomes /\ q.resume = process.resume
      /\ q.draft \in {process.draft, NoDraft} /\ q.reason = process.reason
  <2>1. CASE Like(q, process, {"hook", "recording", "active"}) /\ q.hook = "flush"
    <3> HIDE DEF q
    <3> QED
      BY <1>1, <2>1 DEF Like, ProcessFields
  <2>2. CASE FinishOf(process', process, ~process.failed, "unknown", media, "flush")
    <3> DEFINE p == Continue(process, "flush")
    <3>1. /\ Like(q, p, {"recording", "active", "tasks", "draft", "last",
                         "completed", "write", "then"})
          /\ q.draft = NoDraft
      BY <2>2 DEF FinishOf
    <3>2. Like(p, process, {"hook"}) /\ p.hook = "flush"
      BY <1>1, ContinueLike
    <3> HIDE DEF p, q
    <3> QED
      BY <3>1, <3>2 DEF Like, ProcessFields
  <2> QED
    BY <1>2, <2>1, <2>2
<1> HIDE DEF q
<1>5. Posed(q) /\ Place(q) = Place(process)
  BY <1>1, <1>2, <1>4, PosedAgain DEF Posed, Hooks
<1>6. Later(process, q)
  BY <1>1, <1>2, <1>4, <1>5, Stays DEF Ahead, Over
<1>7. CASE Silent(process', process)
  <2>1. q.completed = process.completed
    BY <1>3, <1>7 DEF Silent
  <2> QED
    BY <1>4, <1>5, <1>6, <2>1, QuietOnward DEF q
<1>8. CASE FinishOf(process', process, ~process.failed, "unknown", media, "flush")
  <2>1. SoundWorker(process, ElapsedOf(q), HeardOf(q))
    BY <1>1, <1>4, <1>5, <1>6, SoundLater
  <2>2. SoundWorker(Settle(process'), ElapsedOf(q), HeardOf(q))
    BY <1>8, <2>1, FinishSound
  <2> QED
    BY <1>5, <1>6, <2>2 DEF Onward, q
<1> QED
  BY <1>2, <1>7, <1>8

\* The entry of a deferred task is one of those that were completed.
LEMMA TaskEntry ==
    ASSUME NEW p, NEW ids, Holds(p, ids, {}), p.tasks # <<>>,
           NEW e, e = CHOOSE x \in p.completed : x.id = Head(p.tasks)
    PROVE  /\ e \in p.completed /\ e.id = Head(p.tasks) /\ DOMAIN e = EntryFields
           /\ Head(p.tasks) \in Range(p.tasks)
           /\ Range(Tail(p.tasks)) \subseteq Range(p.tasks)
           /\ Range(p.tasks) \subseteq {x.id : x \in p.completed}
<1> DEFINE S == {x.id : x \in p.completed}
<1>1. p.tasks \in Seq(S)
  BY DEF Holds
<1> HIDE DEF S
<1>2. /\ Head(p.tasks) \in S /\ Head(p.tasks) = p.tasks[1]
      /\ Len(p.tasks) \in Nat \ {0} /\ DOMAIN p.tasks = 1 .. Len(p.tasks)
      /\ \A i \in 1 .. Len(p.tasks) : p.tasks[i] \in S
      /\ Tail(p.tasks) \in Seq(S) /\ Len(Tail(p.tasks)) = Len(p.tasks) - 1
      /\ DOMAIN Tail(p.tasks) = 1 .. Len(p.tasks) - 1
      /\ \A i \in 1 .. Len(p.tasks) - 1 : Tail(p.tasks)[i] = p.tasks[i + 1]
  BY <1>1, HeadTailProperties, LenProperties, ElementOfSeq
<1>3. Head(p.tasks) \in Range(p.tasks)
  BY <1>2 DEF Range
<1>4. Range(Tail(p.tasks)) \subseteq Range(p.tasks)
  <2> SUFFICES ASSUME NEW i \in 1 .. Len(p.tasks) - 1
               PROVE  Tail(p.tasks)[i] \in Range(p.tasks)
    BY <1>2 DEF Range
  <2>1. i + 1 \in 1 .. Len(p.tasks)
    BY <1>2
  <2> QED
    BY <1>2, <2>1 DEF Range
<1>5. Range(p.tasks) \subseteq S
  BY <1>2 DEF Range
<1>6. e \in p.completed /\ e.id = Head(p.tasks)
  BY <1>2 DEF S
<1>7. DOMAIN e = EntryFields
  BY <1>6 DEF Holds, OneOf
<1> QED
  BY <1>3, <1>4, <1>5, <1>6, <1>7 DEF S

LEMMA DeferredOnward ==
    ASSUME Ready, NEW whole, CompleteDeferred(whole)
    PROVE  Onward(Settle(process'))
<1> DEFINE q == Settle(process')
<1>1. /\ DOMAIN process = ProcessFields /\ Posed(process)
      /\ SoundWorker(process, ElapsedOf(process), HeardOf(process))
  BY DEF Ready, Posed
<1>0. PICK e : e = CHOOSE x \in process.completed : x.id = Head(process.tasks)
  OBVIOUS
<1>2. PICK outcome, decision, operation, reason :
      /\ Like(q, process, {"tasks", "completed", "write", "then"})
      /\ process.hook = "flush" /\ process.tasks # <<>>
      /\ Writes(process', process,
             [e EXCEPT !.timing = "after-worker",
                       !.outcome = outcome, !.decision = decision,
                       !.operation = operation, !.reason = reason],
             "flush")
  BY <1>1, <1>0, DeferredEffect
<1> DEFINE d == [e EXCEPT !.timing = "after-worker",
                          !.outcome = outcome, !.decision = decision,
                          !.operation = operation, !.reason = reason]
<1>3. e \in process.completed /\ DOMAIN e = EntryFields
  <2> HIDE DEF d, q
  <2>1. PICK ids : Holds(process, ids, {})
    BY DEF Ready
  <2> QED
    BY <1>0, <1>2, <2>1, TaskEntry
<1>4. d.result = e.result /\ d.covers = e.covers
  BY <1>3 DEF EntryFields
<1>5. q.completed = Kept(process.completed, d)
  BY <1>2 DEF Writes
<1> HIDE DEF q, d
<1>6. /\ DOMAIN q = ProcessFields /\ q.retry = process.retry
      /\ q.at = process.at /\ q.try = process.try /\ q.hook = process.hook
      /\ q.outcomes = process.outcomes /\ q.resume = process.resume
      /\ q.draft = process.draft /\ q.reason = process.reason
      /\ q.result = process.result
  BY <1>2 DEF Like, ProcessFields
<1>7. Posed(q) /\ Place(q) = Place(process)
  BY <1>1, <1>2, <1>6, PosedAgain DEF Posed, Hooks
<1>8. Later(process, q)
  BY <1>1, <1>2, <1>6, <1>7, Stays DEF Ahead, Over
<1>9. SoundWorker(process, ElapsedOf(q), HeardOf(q))
  BY <1>1, <1>6, <1>7, <1>8, SoundLater
<1>10. SoundBy(d, ElapsedOf(q), HeardOf(q))
  BY <1>3, <1>4, <1>9, SoundSame DEF SoundWorker
<1>11. SoundWorker(q, ElapsedOf(q), HeardOf(q))
  BY <1>5, <1>6, <1>9, <1>10, KeptSound DEF SoundWorker
<1> QED
  BY <1>7, <1>8, <1>11 DEF Onward, q

LEMMA FlushedOnward ==
    ASSUME Ready, EndTeardown
    PROVE  Onward(Settle(process'))
<1> DEFINE q == Settle(process')
<1>1. /\ DOMAIN process = ProcessFields /\ Posed(process)
      /\ process.resume \in {"exit", "test"}
  BY DEF Ready, Posed
<1>2. /\ Like(q, process, {"seen", "failed", "active", "overlapRecorded",
                           "hook", "resume"})
      /\ process.hook = "flush" /\ q.hook = process.resume
      /\ q.resume = "exit" /\ Silent(process', process)
  BY <1>1, FlushedEffect
<1> HIDE DEF q
<1>3. /\ DOMAIN q = ProcessFields /\ q.retry = process.retry
      /\ q.at = process.at /\ q.try = process.try
      /\ q.outcomes = process.outcomes /\ q.completed = process.completed
      /\ q.draft = process.draft /\ q.reason = process.reason
  BY <1>2 DEF Like, ProcessFields
<1>4. Posed(q) /\ Place(q) = Place(process)
  BY <1>1, <1>2, <1>3, PosedAgain DEF Posed, Hooks
<1>5. Later(process, q)
  BY <1>1, <1>2, <1>3, <1>4, Stays DEF Ahead, Over
<1>6. Onward(q)
  BY <1>3, <1>4, <1>5, QuietOnward
<1> QED
  BY <1>6 DEF q

----------------------------------------------------------------------------
(* Workers are told apart by one key, and whichever step one takes.        *)

\* The capabilities that may differ do not tell workers apart.
LEMMA OneKey ==
    SpecRetryKey(Cid, scene.specs, <<Capabilities>>) = TheKey
<1> DEFINE a == <<Capabilities>>
           b == <<[browserName |-> "chrome"]>>
           Of(s, k) == [i \in DOMAIN s |-> IF k \in DOMAIN s[i] THEN s[i][k] ELSE None]
<1>1. \A k \in StaticKeys : Of(a, k) = Of(b, k)
  <2>1. DOMAIN a = 1 .. 1 /\ DOMAIN b = 1 .. 1
    OBVIOUS
  <2>2. /\ DOMAIN a[1] = {"browserName", "debuggerPort"}
        /\ a[1]["browserName"] = "chrome"
        /\ DOMAIN b[1] = {"browserName"} /\ b[1]["browserName"] = "chrome"
    BY DEF Capabilities
  <2> HIDE DEF a, b
  <2> SUFFICES ASSUME NEW k \in StaticKeys, NEW i \in 1 .. 1
               PROVE  (IF k \in DOMAIN a[i] THEN a[i][k] ELSE None) =
                      (IF k \in DOMAIN b[i] THEN b[i][k] ELSE None)
    BY <2>1
  <2>3. i = 1 /\ k \in {"browserName", "deviceName"}
    BY DEF StaticKeys
  <2> QED
    BY <2>2, <2>3
<1>2. Fingerprint(a) = [k \in StaticKeys |-> FirstGiven(Of(a, k))]
  BY DEF Fingerprint
<1>3. Fingerprint(b) = [k \in StaticKeys |-> FirstGiven(Of(b, k))]
  BY DEF Fingerprint
<1> HIDE DEF Of, a, b
<1>4. Fingerprint(a) = Fingerprint(b)
  BY <1>1, <1>2, <1>3
<1> QED
  BY <1>4 DEF SpecRetryKey, TheKey, a, b

\* Everything that was started counts.
LEMMA AllOccur ==
    ASSUME NEW x, NEW s \in Seq({x})
    PROVE  Occurrences(x, s) = Len(s)
<1>1. /\ DOMAIN s = 1 .. Len(s) /\ Len(s) \in Nat
      /\ \A i \in 1 .. Len(s) : s[i] = x
  BY LenProperties, ElementOfSeq
<1>2. {i \in DOMAIN s : s[i] = x} = 1 .. Len(s)
  BY <1>1
<1>3. Cardinality(1 .. Len(s)) = Len(s)
  BY <1>1, FS_Interval
<1> QED
  BY <1>2, <1>3 DEF Occurrences

----------------------------------------------------------------------------
(* A step of a worker that is there.                                       *)

\* What a step of the worker writes is among what it has then completed.
Tells(q) ==
    q.hook = "write" => q.write \in Settle(q).completed /\ q.then \in Thens

LEMMA WritesTells ==
    ASSUME NEW q, NEW p, NEW e, NEW then \in Thens, Writes(q, p, e, then)
    PROVE  Tells(q)
BY DEF Writes, Tells, Kept

LEMMA SilentTells ==
    ASSUME NEW q, NEW p, Silent(q, p)
    PROVE  Tells(q)
BY DEF Silent, Tells

LEMMA SkipOfTells ==
    ASSUME NEW q, NEW p, NEW reason, SkipOf(q, p, reason)
    PROVE  Tells(q)
BY WritesTells, SilentTells DEF SkipOf, Thens

LEMMA FinishOfTells ==
    ASSUME NEW q, NEW p, NEW passed, NEW result, NEW media,
           NEW then \in {"flush", "next"},
           FinishOf(q, p, passed, result, media, then)
    PROVE  Tells(q)
<1>1. then \in Thens
  BY DEF Thens
<1> QED
  BY <1>1, WritesTells, SilentTells DEF FinishOf

LEMMA WorkerOnward ==
    ASSUME Ready, process # NoWorker, WorkerStep,
           ~\E reported \in BOOLEAN : ExitWorker(reported)
    PROVE  /\ Onward(Settle(process')) /\ Tells(process')
           /\ \A o \in Range(Settle(process').outcomes) :
                 \/ o \in Range(process.outcomes)
                 \/ /\ o.execution = Place(process) /\ o.retry = Level(o.execution)
                    /\ Ahead(process) /\ ~Ahead(Settle(process'))
                    /\ Place(Settle(process')) = Place(process)
<1> DEFINE q == Settle(process')
           New == \A o \in Range(q.outcomes) :
                     \/ o \in Range(process.outcomes)
                     \/ /\ o.execution = Place(process)
                        /\ o.retry = Level(o.execution)
                        /\ Ahead(process) /\ ~Ahead(q)
                        /\ Place(q) = Place(process)
           Goal == Onward(q) /\ Tells(process') /\ New
<1>1. /\ DOMAIN process = ProcessFields /\ Posed(process)
      /\ process.resume \in {"exit", "test"}
      /\ process.draft # NoDraft => DOMAIN process.draft = DraftFields
  BY DEF Ready, Posed, Holds
<1>2. {"eligible", "test", "finalize", "next", "flush"} = Thens
  BY DEF Thens
<1>3. q.outcomes = process.outcomes => New
  OBVIOUS
<1>4. CASE RecordParallelEntity
  <2>1. Tells(process')
    BY <1>1, <1>4, ParallelEffect, <1>2, WritesTells, SilentTells
  <2>2. q.outcomes = process.outcomes
    BY <1>1, <1>4, ParallelEffect DEF Like, ProcessFields
  <2> HIDE DEF New
  <2> QED
    BY <1>3, <1>4, <2>1, <2>2, ParallelOnward
<1>5. CASE JoinSpecEntry
  <2>0. process.draft # NoDraft
    BY <1>5 DEF JoinSpecEntry
  <2>1. Tells(process')
    BY <1>1, <1>5, <2>0, JoinEffect, SilentTells
  <2>2. q.outcomes = process.outcomes
    BY <1>1, <1>5, <2>0, JoinEffect DEF Like, ProcessFields
  <2> HIDE DEF New
  <2> QED
    BY <1>3, <1>5, <2>1, <2>2, JoinOnward
<1>6. CASE BeginEntity
  <2>1. Tells(process')
    BY <1>1, <1>6, BeginEffect, <1>2, WritesTells
  <2>2. q.outcomes = process.outcomes
    BY <1>1, <1>6, BeginEffect DEF Like, ProcessFields
  <2> HIDE DEF New
  <2> QED
    BY <1>3, <1>6, <2>1, <2>2, BeginOnward
<1> DEFINE p == Attempted
<1>7. /\ DOMAIN p = ProcessFields /\ p.outcomes = process.outcomes
      /\ p.completed = process.completed
  <2>1. Like(p, process, {"seen", "draft"})
    BY <1>1, AttemptedLike
  <2> HIDE DEF p
  <2> QED
    BY <2>1 DEF Like, ProcessFields
<1>8. CASE SkipIneligible \/ SkipFirstAttempt
  <2>1. \E s \in {process, p} : \E reason : SkipOf(process', s, reason)
    BY <1>1, <1>8, SkipEffect, FirstEffect
  <2>2. PICK s \in {process, p} : \E reason : SkipOf(process', s, reason)
    BY <2>1
  <2>3. Tells(process')
    BY <2>2, SkipOfTells
  <2>4. q.outcomes = s.outcomes
    <3> HIDE DEF q
    <3>1. Like(q, s, {"hook", "completed", "write", "then", "draft", "last"})
      BY <2>2 DEF SkipOf, q
    <3> QED
      BY <3>1 DEF Like, ProcessFields
  <2> HIDE DEF New, p
  <2> QED
    BY <1>3, <1>7, <1>8, <2>2, <2>3, <2>4, SkipOnward
<1>9. CASE ContinueSpec \/ StartRecording
  <2>1. Silent(process', process)
    BY <1>1, <1>9, GoOnEffect, StartEffect
  <2>2. q.outcomes = p.outcomes
    <3>1. \/ Like(q, p, {"hook", "active"})
          \/ Like(q, p, {"hook", "active", "recording"})
      BY <1>1, <1>9, GoOnEffect, StartEffect
    <3> HIDE DEF q, p
    <3> QED
      BY <3>1 DEF Like, ProcessFields
  <2>3. Tells(process')
    BY <2>1, SilentTells
  <2> HIDE DEF New, p
  <2> QED
    BY <1>3, <1>7, <1>9, <2>2, <2>3, FilmOnward
<1>10. ASSUME NEW disables, StartFails(disables) PROVE Goal
  <2>1. /\ Like(q, p, {"hook", "completed", "write", "then", "draft",
                       "last", "recording", "active", "reason"})
        /\ \/ Silent(process', process)
           \/ \E e : Writes(process', process, e, "test")
    BY <1>1, <1>10, StartFailsEffect
  <2>2. Tells(process')
    BY <1>2, <2>1, WritesTells, SilentTells
  <2>3. q.outcomes = p.outcomes
    <3> HIDE DEF q, p
    <3> QED
      BY <2>1 DEF Like, ProcessFields
  <2> HIDE DEF New, p
  <2> QED
    BY <1>3, <1>7, <1>10, <2>2, <2>3, StartFailsOnward
<1>11. ASSUME NEW result, RunTest(result) PROVE Goal
  <2>1. /\ Like(q, process, {"hook", "result", "outcomes"})
        /\ process.hook = "test" /\ q.hook = "result"
        /\ Silent(process', process)
    BY <1>1, <1>11, TestEffect
  <2>2. Tells(process')
    BY <2>1, SilentTells
  <2>3. Onward(q) /\ \A o \in Range(q.outcomes) :
                 \/ o \in Range(process.outcomes)
                 \/ o.execution = Place(process) /\ o.retry = Level(o.execution)
    BY <1>11, TestOnward
  <2>4. Place(q) = Place(process) /\ Ahead(process) /\ ~Ahead(q)
    <3>1. q.retry = process.retry /\ q.at = process.at /\ q.try = process.try
          /\ q.resume = process.resume
      <4> HIDE DEF q
      <4> QED
        BY <2>1 DEF Like, ProcessFields
    <3>2. process.resume = "exit"
      BY <1>1, <2>1 DEF Posed
    <3> HIDE DEF q
    <3> QED
      BY <2>1, <3>1, <3>2 DEF Place, Ahead
  <2> HIDE DEF q
  <2> QED
    BY <2>2, <2>3, <2>4
<1>12. ASSUME NEW chromium, ReloadSession(chromium) PROVE Goal
  <2>1. /\ Like(q, process, {"hook", "resume", "chromium", "reloaded"})
        /\ Silent(process', process)
    BY <1>1, <1>12, ReloadEffect
  <2>2. q.outcomes = process.outcomes
    <3> HIDE DEF q
    <3> QED
      BY <2>1 DEF Like, ProcessFields
  <2> HIDE DEF New
  <2> QED
    BY <1>3, <1>12, <2>1, <2>2, SilentTells, ReloadOnward
<1>13. CASE EndEntity
  <2>1. CASE process.reason = Parallel
    <3>1. /\ process' = Advance(process) /\ q = process'
          /\ Silent(process', process)
      BY <1>1, <1>13, <2>1, EndParallelEffect
    <3>2. q.outcomes = process.outcomes
      BY <1>1, <3>1, AdvanceLike DEF Like, ProcessFields
    <3> HIDE DEF New
    <3> QED
      BY <1>3, <1>13, <3>1, <3>2, SilentTells, EndOnward
  <2>2. CASE process.reason # Parallel
    <3>1. /\ Like(q, process, {"hook", "failed", "draft", "completed", "write",
                               "then"})
          /\ \/ Silent(process', process)
             \/ \E e : Writes(process', process, e, "finalize")
      BY <1>1, <1>13, <2>2, EndEffect
    <3>2. q.outcomes = process.outcomes
      <4> HIDE DEF q
      <4> QED
        BY <3>1 DEF Like, ProcessFields
    <3>3. Tells(process')
      BY <1>2, <3>1, WritesTells, SilentTells
    <3> HIDE DEF New
    <3> QED
      BY <1>3, <1>13, <3>2, <3>3, EndOnward
  <2> QED
    BY <2>1, <2>2
<1>14. ASSUME NEW media, FinalizeTest(media) PROVE Goal
  <2>1. \/ FinishOf(process', process, NonFailing(TestOutcome),
                    TestOutcome.manifestResult, media, "next")
        \/ /\ process' = Advance(process) /\ q = process'
           /\ Silent(process', process)
    BY <1>1, <1>14, FinalizeEffect
  <2>2. Tells(process')
    BY <2>1, FinishOfTells, SilentTells
  <2>3. q.outcomes = process.outcomes
    <3>1. Like(q, Advance(process), {"recording", "active", "tasks", "draft",
                                     "last", "completed", "write", "then"})
      <4>1. Continue(process, "next") = Advance(process)
        BY DEF Continue
      <4>2. Like(Advance(process), Advance(process), {})
        BY <1>1, AdvanceLike DEF Like
      <4> QED
        BY <2>1, <4>1, <4>2 DEF FinishOf, Like
    <3>2. Like(Advance(process), process, {"try", "at", "bad", "result", "hook"})
      BY <1>1, AdvanceLike
    <3> HIDE DEF q
    <3> QED
      BY <3>1, <3>2 DEF Like, ProcessFields
  <2> HIDE DEF New
  <2> QED
    BY <1>3, <1>14, <2>2, <2>3, FinalizeOnward
<1>15. ASSUME NEW media, Teardown(media) PROVE Goal
  <2>1. \/ FinishOf(process', process, ~process.failed, "unknown", media, "flush")
        \/ /\ Like(q, process, {"hook", "recording", "active"})
           /\ Silent(process', process)
    BY <1>1, <1>15, TeardownEffect
  <2>2. Tells(process')
    BY <2>1, FinishOfTells, SilentTells
  <2>3. q.outcomes = process.outcomes
    <3>1. Like(Continue(process, "flush"), process, {"hook"})
      BY <1>1, ContinueLike
    <3>2. \/ Like(q, Continue(process, "flush"),
                  {"recording", "active", "tasks", "draft", "last",
                   "completed", "write", "then"})
          \/ Like(q, process, {"hook", "recording", "active"})
      BY <2>1 DEF FinishOf
    <3> HIDE DEF q
    <3> QED
      BY <3>1, <3>2 DEF Like, ProcessFields
  <2> HIDE DEF New
  <2> QED
    BY <1>3, <1>15, <2>2, <2>3, TeardownOnward
<1>16. ASSUME NEW whole, CompleteDeferred(whole) PROVE Goal
  <2>1. PICK e : e = CHOOSE x \in process.completed : x.id = Head(process.tasks)
    OBVIOUS
  <2>2. /\ Like(q, process, {"tasks", "completed", "write", "then"})
        /\ \E d : Writes(process', process, d, "flush")
    BY <1>1, <1>16, <2>1, DeferredEffect
  <2>3. Tells(process')
    BY <1>2, <2>2, WritesTells
  <2>4. q.outcomes = process.outcomes
    <3> HIDE DEF q
    <3> QED
      BY <2>2 DEF Like, ProcessFields
  <2> HIDE DEF New
  <2> QED
    BY <1>3, <1>16, <2>3, <2>4, DeferredOnward
<1>17. CASE EndTeardown
  <2>1. /\ Like(q, process, {"seen", "failed", "active", "overlapRecorded",
                             "hook", "resume"})
        /\ Silent(process', process)
    BY <1>1, <1>17, FlushedEffect
  <2>2. q.outcomes = process.outcomes
    <3> HIDE DEF q
    <3> QED
      BY <2>1 DEF Like, ProcessFields
  <2> HIDE DEF New
  <2> QED
    BY <1>3, <1>17, <2>1, <2>2, SilentTells, FlushedOnward
<1>18. \A pid : ~StartWorker(pid)
  BY DEF StartWorker
<1> HIDE DEF q, New
<1> QED
  BY <1>4, <1>5, <1>6, <1>8, <1>9, <1>10, <1>11, <1>12, <1>13, <1>14, <1>15,
     <1>16, <1>17, <1>18 DEF WorkerStep, q, New
=============================================================================
