------------------------ MODULE RecordedEntries_proof ------------------------
(***************************************************************************)
(* Proofs about what RecordedRun publishes, for any tests and retries: an  *)
(* entry tells what the reporter heard of the executions it stands for.    *)
(* The results are theirs whatever goes wrong (SoundInv); unless something *)
(* does, worker and reporter agree at every step (TruthInv).               *)
(* The report then shows each of them, no entry for two tests.             *)
(* Entries and outcomes bear the names of their tests (NamesInv), so where *)
(* these differ, the report shows no test with the video of another.       *)
(***************************************************************************)
EXTENDS RecordedRun_proof

----------------------------------------------------------------------------
(* Results in the whole run: of the worker, of its journals.               *)

Stages == {"locking", "locked", "publishing"}

\* The worker whose outcomes are the next to be reported.
Unreported == IF Alive THEN Now.retry ELSE Len(starts)

WorkerSound ==
    /\ scene \in Scenes
    /\ starts \in Seq({TheKey})
    /\ fragments \in Seq(Range(fragments))
    /\ Alive => /\ Posed(Now) /\ Tells(process)
                /\ SoundWorker(Now, ElapsedOf(Now), HeardOf(Now))
    /\ \A o \in Heard : GoodOutcome(o, Elapsed)
    /\ \A o \in Reported : o.execution[1] < Unreported

EntriesSound ==
    /\ At(Us, "running") =>
          \A e \in EntriesIn(journals[Us]) : e = NoEntry \/ Sound(e)
    /\ launcher[Us].stage \in Stages =>
          \A e \in Range(launcher[Us].run.entries) : Sound(e)
    /\ \A e \in PublishedEntries : Sound(e)

SoundInv == WorkerSound /\ EntriesSound

\* What is sound stays so.
Progress ==
    /\ Elapsed \subseteq Elapsed'
    /\ \A o \in Heard' : o \in Heard \/ o.execution \notin Elapsed

LEMMA ProgressSound ==
    ASSUME Progress, NEW e, Sound(e)
    PROVE  Sound(e)'
<1> DEFINE past == Elapsed
           heard == Heard
<1>1. PICK after, more : after = Elapsed' /\ more = Heard'
  OBVIOUS
<1>2. SoundBy(e, past, heard)
  BY DEF Sound
<1>3. past \subseteq after /\ \A o \in more : o \in heard \/ o.execution \notin past
  BY <1>1 DEF Progress
<1> HIDE DEF past, heard
<1>4. SoundBy(e, after, more)
  BY <1>2, <1>3, SoundStays
<1> QED
  BY <1>1, <1>4 DEF Sound, SoundBy

LEMMA SameScene ==
    ASSUME scene' = scene
    PROVE  Now' = Settle(process')
BY DEF Now, Settle, Continue, Advance, ResetWorkerState

LEMMA SamePosed ==
    ASSUME scene' = scene, starts' = starts, NEW q, Posed(q)
    PROVE  Posed(q)'
BY DEF Posed, Place

LEMMA SamePlace ==
    ASSUME NEW q
    PROVE  ElapsedOf(q)' = ElapsedOf(q)
BY DEF ElapsedOf, Earlier, Place, Ahead, Executions

\* The key of the workers does not depend on the state.
LEMMA KeyStays ==
    ASSUME scene' = scene
    PROVE  TheKey' = TheKey
BY DEF TheKey, SpecRetryKey, Fingerprint, Cid

\* A worker that is not writing is settled.
LEMMA Quiet ==
    ASSUME process.hook # "write"
    PROVE  Now = process
BY DEF Now, Settle

LEMMA HookGuards ==
    ASSUME WorkerStep, process # NoWorker
    PROVE  process.hook # "write"
BY DEF WorkerStep, StartWorker, RecordParallelEntity, JoinSpecEntry,
       BeginEntity, SkipIneligible, SkipFirstAttempt, ContinueSpec,
       StartRecording, StartFails, Eligible, RunTest, ReloadSession, EndEntity,
       FinalizeTest, Teardown, CompleteDeferred, EndTeardown, ExitWorker

LEMMA StepFrame ==
    ASSUME WorkerStep, process # NoWorker,
           ~\E reported \in BOOLEAN : ExitWorker(reported)
    PROVE  UNCHANGED <<scene, starts, fragments>>
<1>1. \A pid : ~StartWorker(pid)
  BY DEF StartWorker
<1> QED
  BY <1>1 DEF WorkerStep, RecordParallelEntity, JoinSpecEntry,
       BeginEntity, SkipIneligible, SkipFirstAttempt, ContinueSpec,
       StartRecording, StartFails, RunTest, ReloadSession, EndEntity,
       FinalizeTest, Teardown, CompleteDeferred, EndTeardown

\* Everything of a worker has run when it ends, and it may not be reported.
LEMMA EndedElapsed ==
    ASSUME NEW s, Posed(s), starts \in Seq({TheKey}), NEW x \in ElapsedOf(s)
    PROVE  x \in Executions /\ x[1] < Len(starts)
<1>1. x \in Executions /\ (Earlier(x, Place(s)) \/ x = Place(s))
  BY DEF ElapsedOf
<1>2. x[1] \in Nat /\ Len(starts) \in Nat
  BY <1>1 DEF Executions
<1>3. s.retry \in Nat /\ s.retry = Len(starts) - 1
  BY DEF Posed
<1> QED
  BY <1>1, <1>2, <1>3, PlaceFacts DEF Earlier

----------------------------------------------------------------------------
(* The worker.                                                             *)

LEMMA StartSound ==
    ASSUME WorkerSound, NEW pid, StartWorker(pid)
    PROVE  WorkerSound' /\ Progress
<1>1. /\ process = NoWorker /\ ~Alive /\ scene \in Scenes
      /\ UNCHANGED <<scene, fragments>>
      /\ starts \in Seq({TheKey}) /\ Len(starts) \in Nat
      /\ process' = NewProcess(pid, Len(starts))
      /\ starts' = Append(starts, TheKey)
  BY OneKey, AllOccur DEF StartWorker, WorkerSound, Alive
<1>2. /\ starts' \in Seq({TheKey}) /\ Len(starts') = Len(starts) + 1
  BY <1>1
<1>3. starts' \in Seq({TheKey'})
  BY <1>1, <1>2, KeyStays
<1> DEFINE s == process'
<1>4. /\ DOMAIN s = ProcessFields /\ s.retry = Len(starts)
      /\ s.at = 1 /\ s.try = 0 /\ s.hook = "begin" /\ s.resume = "exit"
      /\ s.outcomes = <<>> /\ s.draft = NoDraft /\ s.completed = {}
  BY <1>1 DEF NewProcess, ProcessFields
<1>5. process' # NoWorker
  BY <1>4 DEF NoWorker, ProcessFields
<1>6. Now' = s
  BY <1>1, <1>4, SameScene DEF Settle
<1>7. Alive' /\ Reported' = Reported
  BY <1>1, <1>5 DEF Alive, Reported
<1>8. PICK n : n = Len(starts)
  OBVIOUS
<1>9. PICK q : q = s
  OBVIOUS
<1>10. Range(<<>>) = {} /\ <<>> \in Seq({})
  BY DEF Range
<1>11. Len(scene.plan) \in Nat \ {0}
  BY <1>1, PlanLength
<1>12. Posed(q)'
  <2>1. /\ q.retry \in Nat /\ q.retry = Len(starts') - 1
        /\ q.at \in 1 .. Len(scene.plan)
    BY <1>1, <1>2, <1>4, <1>9, <1>11
  <2>2. /\ DOMAIN q = ProcessFields /\ q.try = 0 /\ q.hook = "begin"
        /\ q.resume = "exit" /\ q.draft = NoDraft /\ q.outcomes = <<>>
    BY <1>4, <1>9
  <2>3. /\ q.outcomes \in Seq(Range(q.outcomes))
        /\ Range(q.outcomes) = {}
    BY <1>10, <2>2
  <2> HIDE DEF s
  <2> QED
    BY <1>1, <2>1, <2>2, <2>3 DEF Posed, Hooks
<1>13. /\ Heard' = Reported /\ Heard = Reported
  <2>1. HeardOf(q)' = Reported
    BY <1>4, <1>7, <1>9, <1>10 DEF HeardOf
  <2> QED
    BY <1>1, <1>6, <1>7, <1>9, <2>1 DEF Heard
<1>14. Elapsed' = ElapsedOf(q)
  BY <1>6, <1>7, <1>9, SamePlace DEF Elapsed
<1>15. Elapsed = {x \in Executions : x[1] < n}
  BY <1>1, <1>8 DEF Elapsed
<1>16. Elapsed \subseteq Elapsed'
  <2>1. Place(q)[1] = n
    BY <1>4, <1>8, <1>9, PlaceFacts
  <2> QED
    BY <1>14, <1>15, <2>1 DEF ElapsedOf, Earlier
<1>17. Progress
  BY <1>13, <1>16 DEF Progress
<1>18. \A o \in Heard' : GoodOutcome(o, Elapsed')
  BY <1>13, <1>16 DEF WorkerSound, GoodOutcome
<1>19. \A o \in Reported' : o.execution[1] < Unreported'
  <2>1. Unreported' = n /\ Unreported = n
    BY <1>1, <1>4, <1>6, <1>7, <1>8 DEF Unreported
  <2> QED
    BY <1>7, <2>1 DEF WorkerSound
<1>20. SoundWorker(q, ElapsedOf(q), HeardOf(q))'
  BY <1>4, <1>9 DEF SoundWorker
<1>21. Tells(process')
  BY <1>4 DEF Tells
<1>22. Tells(process)'
  BY <1>1, <1>4 DEF Tells
<1>23. WorkerSound'
  <2>1. Posed(Now)' /\ SoundWorker(Now, ElapsedOf(Now), HeardOf(Now))'
    BY <1>6, <1>9, <1>12, <1>20
  <2>2. scene' \in Scenes /\ fragments' \in Seq(Range(fragments'))
    BY <1>1 DEF WorkerSound
  <2>3. \A o \in Heard' : GoodOutcome(o, Elapsed)'
    BY <1>18 DEF GoodOutcome, Level
  <2> QED
    BY <1>3, <1>19, <1>22, <2>1, <2>2, <2>3 DEF WorkerSound
<1> QED
  BY <1>17, <1>23

\* The worker goes on, with what it has then done.
LEMMA GoesOnSound ==
    ASSUME WorkerSound, Alive, UNCHANGED <<scene, starts, fragments>>,
           NEW q, q = Now', Posed(q), Later(Now, q), Tells(process'),
           SoundWorker(q, ElapsedOf(q), HeardOf(q)),
           \A o \in Range(q.outcomes) :
                 \/ o \in Range(Now.outcomes)
                 \/ /\ o.execution = Place(Now) /\ o.retry = Level(o.execution)
                    /\ Ahead(Now) /\ ~Ahead(q) /\ Place(q) = Place(Now)
    PROVE  WorkerSound' /\ Progress
<1>1. process' # NoWorker /\ Alive'
  <2>1. DOMAIN q = ProcessFields
    BY DEF Posed
  <2>2. Settle(NoWorker) = NoWorker /\ DOMAIN NoWorker = {"hook"}
    BY DEF Settle, NoWorker
  <2>3. "pid" \in ProcessFields
    BY DEF ProcessFields
  <2>4. q = Settle(process')
    BY SameScene
  <2> QED
    BY <2>1, <2>2, <2>3, <2>4 DEF Alive
<1>2. Posed(q)'
  BY SamePosed
<1>3. Reported' = Reported
  BY DEF Reported
<1>4. PICK p : p = Now
  OBVIOUS
<1>5. /\ Elapsed = ElapsedOf(p) /\ Elapsed' = ElapsedOf(q)
      /\ Heard = HeardOf(p) /\ Heard' = HeardOf(q)
  <2>1. HeardOf(q)' = HeardOf(q)
    BY <1>3 DEF HeardOf
  <2> QED
    BY <1>1, <1>4, <2>1, SamePlace DEF Elapsed, Heard
<1>6. Posed(p) /\ Later(p, q)
  BY <1>4 DEF WorkerSound
<1>7. ElapsedOf(p) \subseteq ElapsedOf(q)
  BY <1>6, LaterElapsed
<1>8. ASSUME NEW o \in Range(q.outcomes), o \notin Range(p.outcomes)
      PROVE  o.execution \notin ElapsedOf(p) /\ o.execution \in ElapsedOf(q)
             /\ o.retry = Level(o.execution)
  <2>1. /\ o.execution = Place(p) /\ o.retry = Level(o.execution)
        /\ Ahead(p) /\ ~Ahead(q) /\ Place(q) = Place(p)
    BY <1>4, <1>8
  <2>2. Place(p) \notin ElapsedOf(p)
    BY <1>6, <2>1, PlaceFacts DEF ElapsedOf, Earlier, Posed
  <2>3. Place(p) \in Executions
    BY <1>6, PlanLength, SMTT(20) DEF Place, Executions, Posed, WorkerSound
  <2> QED
    BY <2>1, <2>2, <2>3 DEF ElapsedOf
<1>9. Progress
  BY <1>5, <1>7, <1>8 DEF Progress, HeardOf
<1>10. \A o \in Heard' : GoodOutcome(o, Elapsed)'
  <2>1. \A o \in Heard : GoodOutcome(o, Elapsed)
    BY DEF WorkerSound
  <2>2. \A o \in HeardOf(q) : GoodOutcome(o, ElapsedOf(q))
    BY <1>5, <1>7, <1>8, <2>1 DEF HeardOf, GoodOutcome
  <2> QED
    BY <1>5, <2>2 DEF GoodOutcome, Level
<1>11. \A o \in Reported' : o.execution[1] < Unreported'
  <2>1. q.retry = p.retry
    BY <1>6 DEF Later
  <2> QED
    BY <1>1, <1>3, <1>4, <2>1 DEF Unreported, WorkerSound
<1>12. SoundWorker(q, ElapsedOf(q), HeardOf(q))'
  <2>1. HeardOf(q)' = HeardOf(q)
    BY <1>3 DEF HeardOf
  <2> QED
    BY <2>1, SamePlace DEF SoundWorker, SoundBy
<1>13. Tells(process)'
  <2>1. Now' = Settle(process')
    BY SameScene
  <2> QED
    BY <2>1 DEF Tells, Now, Thens
<1>14. starts' \in Seq({TheKey'}) /\ fragments' \in Seq(Range(fragments'))
  BY KeyStays DEF WorkerSound
<1>15. Posed(Now)' /\ SoundWorker(Now, ElapsedOf(Now), HeardOf(Now))'
  BY <1>2, <1>12
<1> QED
  BY <1>9, <1>10, <1>11, <1>13, <1>14, <1>15 DEF WorkerSound

\* The worker is gone, its outcomes reported or lost.
LEMMA GoneSound ==
    ASSUME WorkerSound, Alive, process' = NoWorker, UNCHANGED <<scene, starts>>,
           fragments' \in {fragments, Append(fragments, Now.outcomes)}
    PROVE  WorkerSound' /\ Progress
<1>1. PICK p : p = Now
  OBVIOUS
<1>2. /\ Posed(p) /\ starts \in Seq({TheKey}) /\ Len(starts) \in Nat
      /\ p.retry = Len(starts) - 1 /\ fragments \in Seq(Range(fragments))
  BY <1>1 DEF WorkerSound, Posed
<1>3. /\ ~Alive' /\ Elapsed' = {x \in Executions : x[1] < Len(starts)}
      /\ Heard' = Reported' /\ Unreported' = Len(starts)
  BY DEF Alive, Elapsed, Heard, Unreported, Executions
<1>4. Elapsed = ElapsedOf(p) /\ Heard = HeardOf(p) /\ Unreported = p.retry
  BY <1>1 DEF Elapsed, Heard, Unreported
<1>5. Elapsed \subseteq Elapsed'
  BY <1>2, <1>3, <1>4, EndedElapsed
<1>6. /\ Reported' \subseteq HeardOf(p)
      /\ fragments' \in Seq(Range(fragments'))
  <2>1. CASE fragments' = fragments
    BY <1>2, <2>1 DEF Reported, HeardOf
  <2>2. CASE fragments' = Append(fragments, p.outcomes)
    <3> DEFINE n == Len(fragments)
    <3>1. /\ n \in Nat /\ DOMAIN fragments = 1 .. n
          /\ DOMAIN fragments' = 1 .. n + 1
          /\ \A i \in 1 .. n : fragments'[i] = fragments[i]
          /\ fragments'[n + 1] = p.outcomes
      BY <1>2, <2>2
    <3>2. \A i \in 1 .. n + 1 : i \in 1 .. n \/ i = n + 1
      BY <3>1
    <3>3. Reported' \subseteq Reported \union Range(p.outcomes)
      BY <3>1, <3>2 DEF Reported
    <3>4. fragments' \in Seq(Range(fragments'))
      <4>1. fragments' \in Seq(Range(fragments) \union {p.outcomes})
        BY <1>2, <2>2
      <4>2. Range(fragments') = {fragments'[i] : i \in 1 .. n + 1}
        BY <3>1 DEF Range
      <4>3. Len(fragments') = n + 1
        BY <1>2, <2>2
      <4> HIDE DEF n
      <4> QED
        BY <3>1, <4>1, <4>2, <4>3
    <3> QED
      BY <3>3, <3>4 DEF HeardOf
  <2> QED
    BY <1>1, <2>1, <2>2
<1>7. Progress
  BY <1>3, <1>4, <1>5, <1>6 DEF Progress
<1>8. \A o \in Heard' : GoodOutcome(o, Elapsed')
  BY <1>3, <1>4, <1>5, <1>6 DEF WorkerSound, GoodOutcome
<1>9. \A o \in Reported' : o.execution[1] < Unreported'
  <2>1. \A o \in HeardOf(p) : o.execution \in ElapsedOf(p)
    BY <1>4 DEF WorkerSound, GoodOutcome
  <2> QED
    BY <1>2, <1>3, <1>6, <2>1, EndedElapsed
<1>10. \A o \in Heard' : GoodOutcome(o, Elapsed)'
  BY <1>8 DEF GoodOutcome, Level
<1>11. starts' \in Seq({TheKey'})
  BY <1>2, KeyStays
<1> QED
  BY <1>3, <1>6, <1>7, <1>9, <1>10, <1>11 DEF WorkerSound

----------------------------------------------------------------------------
(* Steps of the worker and of its journal keep them.                       *)

\* What is kept of a worker is sound, wherever its hooks go on.
LEMMA ResumedSound ==
    ASSUME NEW s, NEW q, Posed(s), SoundWorker(s, ElapsedOf(s), HeardOf(s)),
           Posed(q), Later(s, q), q.outcomes = s.outcomes,
           q.completed = s.completed, q.draft = s.draft
    PROVE  SoundWorker(q, ElapsedOf(q), HeardOf(q))
<1>1. SoundWorker(s, ElapsedOf(q), HeardOf(q))
  BY SoundLater
<1> QED
  BY <1>1 DEF SoundWorker

LEMMA LaterItself ==
    ASSUME NEW s
    PROVE  Later(s, s)
BY DEF Later

LEMMA WorkerActsSound ==
    ASSUME WorkerSound, WorkerInv, WorkerActs
    PROVE  WorkerSound' /\ Progress
<1>1. WorkerStep
  BY DEF WorkerActs
<1>2. CASE process = NoWorker
  <2>1. \E pid \in Pids : StartWorker(pid)
    <3>1. /\ process.hook = "none"
          /\ ~Eligible
      BY <1>2 DEF NoWorker, Eligible
    <3> QED
      BY <1>1, <3>1 DEF WorkerStep, RecordParallelEntity, JoinSpecEntry,
         BeginEntity, SkipIneligible, SkipFirstAttempt, ContinueSpec,
         StartRecording, StartFails, RunTest, ReloadSession, EndEntity,
         FinalizeTest, Teardown, CompleteDeferred, EndTeardown, ExitWorker
  <2> QED
    BY <2>1, StartSound
<1>3. ASSUME process # NoWorker,
             NEW reported \in BOOLEAN, ExitWorker(reported)
      PROVE  WorkerSound' /\ Progress
  <2>1. /\ process.hook = "exit" /\ process' = NoWorker
        /\ UNCHANGED <<scene, starts>>
        /\ fragments' \in {fragments, Append(fragments, process.outcomes)}
    BY <1>3 DEF ExitWorker, WorkerEnds
  <2>2. Now = process
    BY <2>1, Quiet
  <2> QED
    BY <1>3, <2>1, <2>2, GoneSound DEF Alive
<1>4. CASE process # NoWorker /\ ~\E reported \in BOOLEAN : ExitWorker(reported)
  <2>1. Now = process
    BY <1>1, <1>4, HookGuards, Quiet
  <2>2. UNCHANGED <<scene, starts, fragments>>
    BY <1>1, <1>4, StepFrame
  <2>3. PICK q : q = Now'
    OBVIOUS
  <2>4. q = Settle(process')
    BY <2>2, <2>3, SameScene
  <2>5. Ready
    <3>1. /\ scene \in Scenes /\ Posed(process)
          /\ SoundWorker(process, ElapsedOf(process), HeardOf(process))
      BY <1>4, <2>1 DEF WorkerSound, Alive
    <3>2. \E ids : Holds(process, ids, {})
      BY <1>4 DEF WorkerInv
    <3>3. Unreported = process.retry /\ process.retry \in Nat
      BY <1>4, <2>1, <3>1 DEF Unreported, Alive, Posed
    <3>4. \A o \in Reported : o.execution[1] # process.retry
      <4>1. \A o \in Reported : o.execution[1] < process.retry
        BY <3>3 DEF WorkerSound
      <4> QED
        BY <3>3, <4>1
    <3>5. \A o \in HeardOf(process) : o.execution \in ElapsedOf(process)
      BY <1>4, <2>1 DEF WorkerSound, GoodOutcome, Heard, Elapsed, Alive
    <3> QED
      BY <3>1, <3>2, <3>4, <3>5 DEF Ready
  <2>6. /\ Onward(q) /\ Tells(process')
        /\ \A o \in Range(q.outcomes) :
                 \/ o \in Range(process.outcomes)
                 \/ /\ o.execution = Place(process) /\ o.retry = Level(o.execution)
                    /\ Ahead(process) /\ ~Ahead(q) /\ Place(q) = Place(process)
    BY <1>1, <1>4, <2>4, <2>5, WorkerOnward
  <2> QED
    BY <1>4, <2>1, <2>2, <2>3, <2>6, GoesOnSound DEF Onward, Alive
<1> QED
  BY <1>1, <1>2, <1>3, <1>4

LEMMA JournalEffect ==
    ASSUME JournalStep
    PROVE  /\ process # NoWorker /\ UNCHANGED <<scene, starts, fragments>>
           /\ process.hook # "write" => journals' = journals
           /\ \/ process' = NoWorker
              \/ /\ process.hook = "write"
                 /\ \E then :
                       /\ process' = Continue([process EXCEPT !.write = NoEntry], then)
                       /\ \/ then = process.then
                          \/ process.then = "eligible" /\ then = "test"
                          \/ process.then = "flush" /\ then = "reset"
                       /\ faults' = faults /\ faults \in Nat => then = process.then
<1> DEFINE p == [process EXCEPT !.write = NoEntry]
           Goes(then) == /\ process' = Continue(p, then)
                         /\ \/ then = process.then
                            \/ process.then = "eligible" /\ then = "test"
                            \/ process.then = "flush" /\ then = "reset"
                         /\ faults' = faults /\ faults \in Nat => then = process.then
<1>1. ASSUME NEW torn \in BOOLEAN, WriteFails(torn)
      PROVE  /\ process # NoWorker /\ UNCHANGED <<scene, starts, fragments>>
             /\ process.hook = "write" /\ \E then : Goes(then)
  <2>1. p.then = process.then
    BY DEF ProcessFields
  <2>2. faults' = faults + 1
    BY <1>1 DEF WriteFails, Fault
  <2>3. \E then \in {process.then, "test", "reset"} : Goes(then)
    <3> HIDE DEF p
    <3>1. CASE process.then = "eligible" /\ process' = Continue(p, "test")
      BY <2>2, <3>1
    <3>2. CASE process.then = "flush" /\ process' = Continue(p, "reset")
      BY <2>2, <3>2
    <3>3. CASE process' = Continue(p, process.then)
      BY <3>3
    <3> QED
      BY <1>1, <2>1, <3>1, <3>2, <3>3 DEF WriteFails, p
  <2> HIDE DEF Goes
  <2> QED
    BY <1>1, <2>3 DEF WriteFails, NoWorker
<1>2. ASSUME NEW left \in {"nothing", "part", "whole"}, KillWorker(left)
      PROVE  /\ process # NoWorker /\ UNCHANGED <<scene, starts, fragments>>
             /\ process.hook # "write" => journals' = journals
             /\ process' = NoWorker
  <2>1. /\ process.hook \in {"write", "exit"}
        /\ process.hook = "exit" => left = "nothing"
        /\ process' = NoWorker /\ UNCHANGED <<scene, starts, fragments>>
    BY <1>2 DEF KillWorker, WorkerEnds
  <2>2. left = "nothing" => journals' = journals
    BY <1>2 DEF KillWorker
  <2> QED
    BY <2>1, <2>2 DEF NoWorker
<1>3. /\ process # NoWorker /\ UNCHANGED <<scene, starts, fragments>>
      /\ process.hook # "write" => journals' = journals
      /\ \/ process' = NoWorker
         \/ process.hook = "write" /\ \E then : Goes(then)
  <2>1. CASE WriteLine
    <3>1. Goes(process.then)
      BY <2>1 DEF WriteLine
    <3> HIDE DEF Goes
    <3> QED
      BY <2>1, <3>1 DEF WriteLine, NoWorker
  <2> HIDE DEF Goes
  <2>2. CASE \E torn \in BOOLEAN : WriteFails(torn)
    BY <1>1, <2>2
  <2>3. CASE \E left \in {"nothing", "part", "whole"} : KillWorker(left)
    BY <1>2, <2>3
  <2> QED
    BY <2>1, <2>2, <2>3 DEF JournalStep
<1> QED
  BY <1>3

\* A line is written, or not: the worker goes on where it wanted to, or to the
\* end of the hook.
LEMMA WritesSound ==
    ASSUME WorkerSound, WorkerInv, JournalStep
    PROVE  WorkerSound' /\ Progress
<1>1. process # NoWorker /\ Alive /\ UNCHANGED <<scene, starts, fragments>>
  BY JournalEffect DEF Alive
<1>2. CASE process' = NoWorker
  BY <1>1, <1>2, GoneSound
<1> DEFINE p == [process EXCEPT !.write = NoEntry]
<1>3. ASSUME process.hook = "write", NEW then, process' = Continue(p, then),
             \/ then = process.then
             \/ process.then = "eligible" /\ then = "test"
             \/ process.then = "flush" /\ then = "reset"
      PROVE  WorkerSound' /\ Progress
  <2>1. DOMAIN process = ProcessFields /\ DOMAIN p = ProcessFields
    BY <1>1 DEF WorkerInv, Holds
  <2>2. Now = Continue(p, process.then)
    BY <1>3 DEF Now, Settle
  <2>3. /\ Posed(Now) /\ Tells(process)
        /\ SoundWorker(Now, ElapsedOf(Now), HeardOf(Now))
    BY <1>1 DEF WorkerSound
  <2>4. PICK s : s = Now
    OBVIOUS
  <2>5. PICK q : q = process'
    OBVIOUS
  <2> HIDE DEF p
  <2>6. /\ q.retry = s.retry /\ q.at = s.at /\ q.try = s.try
        /\ q.outcomes = s.outcomes /\ q.completed = s.completed
        /\ q.draft = s.draft /\ q.reason = s.reason /\ q.result = s.result
        /\ DOMAIN q = ProcessFields
        /\ \/ q = s
           \/ s.hook = "eligible" /\ q.hook = "test" /\ q.resume = s.resume
           \/ s.hook = "flush" /\ q.hook = s.resume /\ q.resume = "exit"
    <3>1. CASE then = process.then
      <4>1. q = s
        BY <1>3, <2>2, <2>4, <2>5, <3>1
      <4> QED
        BY <2>3, <2>4, <4>1 DEF Posed
    <3>2. CASE process.then = "eligible" /\ then = "test"
      <4>1. /\ Like(s, p, {"hook"}) /\ s.hook = "eligible"
            /\ Like(q, p, {"hook"}) /\ q.hook = "test"
        BY <1>3, <2>1, <2>2, <2>4, <2>5, <3>2, ContinueLike
      <4> QED
        BY <4>1 DEF Like, ProcessFields
    <3>3. CASE process.then = "flush" /\ then = "reset"
      <4>1. Like(s, p, {"hook"}) /\ s.hook = "flush"
        BY <1>3, <2>1, <2>2, <2>4, <3>3, ContinueLike
      <4>2. q = ResetWorkerState(p)
        BY <1>3, <2>5, <3>3 DEF Continue
      <4>3. /\ Like(q, p, {"seen", "failed", "active", "overlapRecorded",
                           "hook", "resume"})
            /\ q.hook = p.resume /\ q.resume = "exit"
        BY <2>1, <4>2, ResetLike
      <4> QED
        BY <4>1, <4>3 DEF Like, ProcessFields
    <3> QED
      BY <1>3, <3>1, <3>2, <3>3
  <2>7. Posed(q) /\ Place(q) = Place(s)
    <3>1. CASE q = s
      BY <2>3, <2>4, <3>1
    <3>2. CASE q # s
      BY <2>3, <2>4, <2>6, <3>2, PosedAgain DEF Posed, Hooks
    <3> QED
      BY <3>1, <3>2
  <2>8. Later(s, q)
    <3>1. CASE q = s
      BY <3>1, LaterItself
    <3>2. CASE q # s
      BY <2>3, <2>4, <2>6, <2>7, <3>2, Stays DEF Ahead, Over, Posed
    <3> QED
      BY <3>1, <3>2
  <2>9. SoundWorker(q, ElapsedOf(q), HeardOf(q))
    BY <2>3, <2>4, <2>6, <2>7, <2>8, ResumedSound
  <2>10. q.hook # "write" /\ q = Now'
    <3>1. q.hook # "write"
      BY <2>7 DEF Posed, Hooks
    <3>2. Now' = Settle(process')
      BY <1>1, SameScene
    <3> QED
      BY <2>5, <3>1, <3>2 DEF Settle
  <2>11. Tells(process')
    BY <2>5, <2>10 DEF Tells
  <2>12. \A o \in Range(q.outcomes) : o \in Range(Now.outcomes)
    BY <2>4, <2>6
  <2> QED
    BY <1>1, <2>4, <2>7, <2>8, <2>9, <2>10, <2>11, <2>12, GoesOnSound
<1> QED
  BY <1>2, <1>3, JournalEffect

----------------------------------------------------------------------------
(* The journals, and what is made of them.                                 *)

LEMMA AppendedEntries ==
    ASSUME NEW files, \A f \in DOMAIN files : LineList(files[f]),
           NEW file, NEW line, line.ended \in BOOLEAN
    PROVE  EntriesIn(Appended(files, file, line)) \subseteq
              EntriesIn(files) \union {line.entry, NoEntry}
<1> DEFINE new == Appended(files, file, line)
<1>1. /\ \A f \in DOMAIN new : LineList(new[f])
      /\ \E n : \/ Spoils(new, files, file, n, line.ended)
               \/ Extends(new, files, file, n, line)
  BY AppendedFacts
<1> HIDE DEF new
<1>2. PICK n : \/ Spoils(new, files, file, n, line.ended)
               \/ Extends(new, files, file, n, line)
  BY <1>1
<1>3. CASE Spoils(new, files, file, n, line.ended)
  BY <1>1, <1>3, SpoilsEntries DEF new
<1>4. CASE Extends(new, files, file, n, line)
  BY <1>1, <1>4, ExtendsEntries DEF new
<1> QED
  BY <1>2, <1>3, <1>4

\* What the worker writes is among what it has completed.
LEMMA WrittenSound ==
    ASSUME WorkerSound, Alive, process.hook = "write"
    PROVE  Sound(process.write)
<1>1. /\ SoundWorker(Now, ElapsedOf(Now), HeardOf(Now))
      /\ Tells(process)
  BY DEF WorkerSound
<1>2. process.write \in Now.completed
  BY <1>1 DEF Tells, Now
<1> QED
  BY <1>1, <1>2 DEF SoundWorker, Sound, Elapsed, Heard

LEMMA WorkerActsEntries ==
    ASSUME EntriesSound, Progress, UNCHANGED <<journals, manifest, launcher>>
    PROVE  EntriesSound'
<1>1. \A e : Sound(e) => Sound(e)'
  BY ProgressSound
<1>2. PublishedEntries' = PublishedEntries /\ EntriesIn(journals[Us])' = EntriesIn(journals[Us])
  BY DEF PublishedEntries, OurRuns, Published, EntriesIn
<1>3. At(Us, "running")' <=> At(Us, "running")
  BY DEF At
<1>4. \A e \in PublishedEntries' : Sound(e)'
  BY <1>1, <1>2 DEF EntriesSound
<1>5. At(Us, "running")' =>
         \A e \in EntriesIn(journals[Us])' : e = NoEntry \/ Sound(e)'
  BY <1>1, <1>2, <1>3 DEF EntriesSound
<1>6. PICK entries : entries = Range(launcher[Us].run.entries)
  OBVIOUS
<1>7. launcher'[Us].stage \in Stages => \A e \in entries : Sound(e)'
  BY <1>1, <1>6 DEF EntriesSound
<1>8. Range(launcher[Us].run.entries)' = entries /\ Stages' = Stages /\ NoEntry' = NoEntry
  BY <1>6 DEF Stages, NoEntry
<1> QED
  BY <1>4, <1>5, <1>7, <1>8 DEF EntriesSound

LEMMA JournalEntries ==
    ASSUME WorkerSound, EntriesSound, Progress, RecordedInv, WorkerWrites
    PROVE  EntriesSound'
<1>0. /\ JournalStep /\ UNCHANGED <<manifest, launcher>>
      /\ process # NoWorker /\ Alive
  BY JournalEffect DEF WorkerWrites, Alive
<1>1. CASE journals' = journals
  BY <1>0, <1>1, WorkerActsEntries
<1>2. CASE process.hook = "write" /\ \E line :
               /\ Append1(line) /\ line.ended \in BOOLEAN
               /\ line.entry \in {NoEntry, process.write}
  <2>1. PICK line : /\ Append1(line) /\ line.ended \in BOOLEAN
                    /\ line.entry \in {NoEntry, process.write}
    BY <1>2
  <2>2. /\ launcher[Us].stage = "running" /\ FilesOK(journals[Us])
        /\ DOMAIN journals = Launchers
    BY <1>0 DEF RecordedInv, WorkerInv, JournalsInv
  <2>3. journals'[Us] = Appended(journals[Us], JournalFile, line)
    BY <2>1, <2>2, UsAssumption, AppendsOne
  <2>4. EntriesIn(journals'[Us]) \subseteq
           EntriesIn(journals[Us]) \union {line.entry, NoEntry}
    BY <2>1, <2>2, <2>3, AppendedEntries DEF FilesOK
  <2>5. Sound(process.write)
    BY <1>0, <1>2, WrittenSound
  <2>6. \A e \in EntriesIn(journals'[Us]) : e = NoEntry \/ Sound(e)
    BY <2>1, <2>2, <2>4, <2>5 DEF EntriesSound, At
  <2>7. \A e : Sound(e) => Sound(e)'
    BY ProgressSound
  <2>8. EntriesIn(journals[Us])' = EntriesIn(journals'[Us]) /\ NoEntry' = NoEntry
    BY DEF EntriesIn, NoEntry
  <2>9. \A e \in EntriesIn(journals[Us])' : e = NoEntry \/ Sound(e)'
    BY <2>6, <2>7, <2>8
  <2>10. launcher'[Us].stage \notin Stages
    BY <1>0, <2>2 DEF Stages
  <2>11. \A e \in PublishedEntries' : Sound(e)'
    <3>1. PublishedEntries' = PublishedEntries
      BY <1>0 DEF PublishedEntries, OurRuns, Published
    <3> QED
      BY <2>7, <3>1 DEF EntriesSound
  <2> QED
    BY <2>8, <2>9, <2>10, <2>11 DEF EntriesSound, Stages
<1> QED
  BY <1>0, <1>1, <1>2, JournalSteps, JournalEffect

----------------------------------------------------------------------------
(* Steps of the launchers keep them.                                       *)

\* What the steps of the launchers do to the entries of the run.
LauncherEffect ==
    /\ UNCHANGED <<scene, process, starts, due, nextId, recorded, fragments>>
    /\ faults' \in {faults, faults + 1}
    /\ At(Us, "running")' => At(Us, "running") /\ journals'[Us] = journals[Us]
    /\ launcher'[Us].stage \in Stages =>
          \/ /\ At(Us, "running") /\ process = NoWorker
             /\ Range(launcher'[Us].run.entries) = LatestEntries(journals[Us], Us)
          \/ /\ launcher[Us].stage \in Stages
             /\ launcher'[Us].run = launcher[Us].run
    /\ \A e \in PublishedEntries' :
          \/ e \in PublishedEntries
          \/ launcher[Us].stage \in Stages /\ e \in Range(launcher[Us].run.entries)

LEMMA OurEffect ==
    ASSUME RecordedInv, PublicationInv, NEW code,
           \/ process = NoWorker /\ Aggregate(Us, code)
           \/ Persist(Us)
           \/ process = NoWorker /\ PersistFails(Us)
           \/ /\ At(Us, "reporting") /\ Moves(Us, "done")
              /\ UNCHANGED <<journals, manifest, lock>>,
           UNCHANGED <<scene, process, starts, due, nextId, recorded, fragments>>,
           faults' \in {faults, faults + 1}
    PROVE  LauncherEffect
<1>1. /\ DOMAIN journals' = Launchers
      /\ launcher'[Us].stage # "running"
      /\ launcher'[Us].stage \in Stages =>
            \/ Aggregate(Us, code) /\ launcher'[Us].run = AggregatedRun(Us, code)
            \/ /\ launcher[Us].stage \in Stages
               /\ launcher'[Us].run = launcher[Us].run
      /\ \A run \in Published' :
            \/ run \in Published
            \/ launcher[Us].stage = "publishing" /\ run = launcher[Us].run
  BY LauncherSteps, UsAssumption DEF WorkerInv, RecordedInv, Stages
<1>2. Aggregate(Us, code) => At(Us, "running") /\ process = NoWorker
  BY DEF Aggregate, Persist, AcquireManifestLock, ReadExisting, PublishRun,
         CleanupRun, ReleaseManifestLock, At
<1>3. At(Us, "running") =>
         Range(AggregatedRun(Us, code).entries) = LatestEntries(journals[Us], Us)
  <2> SUFFICES ASSUME At(Us, "running")
               PROVE  Range(AggregatedRun(Us, code).entries) =
                         LatestEntries(journals[Us], Us)
    OBVIOUS
  <2>1. FilesOK(journals[Us])
    BY DEF RecordedInv, JournalsInv, At
  <2>2. AggregatedRun(Us, code).entries =
           InOrderStarted(LatestEntries(journals[Us], Us))
    BY DEF AggregatedRun
  <2> QED
    BY <2>1, <2>2, LatestNumbered, AllInOrder DEF RecordedInv, WorkerInv
<1>4. \A e \in PublishedEntries' :
         \/ e \in PublishedEntries
         \/ launcher[Us].stage \in Stages /\ e \in Range(launcher[Us].run.entries)
  BY <1>1 DEF PublishedEntries, OurRuns, Stages
<1>5. ~At(Us, "running")'
  BY <1>1 DEF At
<1>6. launcher'[Us].stage \in Stages =>
          \/ /\ At(Us, "running") /\ process = NoWorker
             /\ Range(launcher'[Us].run.entries) = LatestEntries(journals[Us], Us)
          \/ /\ launcher[Us].stage \in Stages
             /\ launcher'[Us].run = launcher[Us].run
  BY <1>1, <1>2, <1>3
<1> QED
  BY <1>4, <1>5, <1>6 DEF LauncherEffect

LEMMA OtherEffect ==
    ASSUME RecordedInv, PublicationInv, NEW l \in Others,
           \/ Aggregate(l, 0) \/ Persist(l) \/ PersistFails(l)
           \/ /\ At(l, "reporting") /\ Moves(l, "done")
              /\ UNCHANGED <<journals, manifest, lock>>,
           UNCHANGED <<scene, process, starts, due, nextId, recorded, fragments>>,
           faults' \in {faults, faults + 1}
    PROVE  LauncherEffect
<1>0. l \in Launchers /\ Us \in Launchers \ {l}
  BY UsAssumption DEF Others
<1>1. /\ launcher'[Us] = launcher[Us] /\ journals'[Us] = journals[Us]
      /\ \A run \in Published' :
            \/ run \in Published
            \/ launcher[l].stage = "publishing" /\ run = launcher[l].run
  BY <1>0, LauncherSteps DEF WorkerInv, RecordedInv
<1>2. launcher[l].stage = "publishing" => launcher[l].run.id = l
  BY <1>0 DEF PublicationInv, RunsNamed, Holding
<1>3. \A run \in Published' : run.id = Us => run \in Published
  BY <1>0, <1>1, <1>2
<1>4. \A e \in PublishedEntries' : e \in PublishedEntries
  BY <1>3 DEF PublishedEntries, OurRuns
<1>5. At(Us, "running")' => At(Us, "running")
  BY <1>1 DEF At
<1> QED
  BY <1>1, <1>4, <1>5 DEF LauncherEffect

LEMMA NextEffect ==
    ASSUME RecordedInv, PublicationInv, Next
    PROVE  WorkerActs \/ WorkerWrites \/ LauncherEffect
<1>3. CASE CompleteRun
  <2>1. PICK code : Aggregate(Us, code)
    BY <1>3 DEF CompleteRun
  <2>2. /\ process = NoWorker /\ faults' = faults
        /\ UNCHANGED <<scene, process, starts, due, nextId, recorded, fragments>>
    BY <1>3 DEF CompleteRun, workerVars
  <2> QED
    BY <2>1, <2>2, OurEffect
<1>4. CASE PersistRun
  BY <1>4, OurEffect DEF PersistRun, workerVars
<1>5. CASE PersistRunFails
  <2>1. /\ process = NoWorker /\ PersistFails(Us) /\ faults' = faults + 1
        /\ UNCHANGED <<scene, process, starts, due, nextId, recorded, fragments>>
    BY <1>5 DEF PersistRunFails, Fault
  <2> QED
    BY <2>1, OurEffect
<1>6. CASE GenerateReport
  <2>1. /\ At(Us, "reporting") /\ Moves(Us, "done")
        /\ UNCHANGED <<journals, manifest, lock, workerVars>>
    BY <1>6 DEF GenerateReport
  <2> QED
    BY <2>1, OurEffect DEF workerVars
<1>7. CASE ReportFails
  <2>1. /\ At(Us, "reporting") /\ Moves(Us, "done") /\ faults' = faults + 1
        /\ UNCHANGED <<journals, manifest, lock, scene, process, starts, due,
                       nextId, recorded, fragments>>
    BY <1>7 DEF ReportFails, Fault
  <2> QED
    BY <2>1, OurEffect
<1>8. ASSUME NEW l \in Others, OtherCompletes(l) PROVE LauncherEffect
  BY <1>8, OtherEffect DEF OtherCompletes, workerVars
<1>9. ASSUME NEW l \in Others, OtherFails(l) PROVE LauncherEffect
  <2>1. /\ PersistFails(l) /\ faults' = faults + 1
        /\ UNCHANGED <<scene, process, starts, due, nextId, recorded, fragments>>
    BY <1>9 DEF OtherFails, Fault
  <2> QED
    BY <2>1, OtherEffect
<1> QED
  BY <1>3, <1>4, <1>5, <1>6, <1>7, <1>8, <1>9 DEF Next

----------------------------------------------------------------------------
(* Results are those of what an entry stands for.                          *)

LEMMA SameSound ==
    ASSUME UNCHANGED <<scene, process, starts, fragments>>, WorkerSound
    PROVE  WorkerSound' /\ Progress
<1>1. Reported' = Reported /\ Alive' = Alive
  BY DEF Reported, Alive
<1>2. PICK q : q = Now
  OBVIOUS
<1>3. Now' = q
  BY <1>2, SameScene DEF Now
<1>4. HeardOf(q)' = HeardOf(q) /\ ElapsedOf(q)' = ElapsedOf(q)
  BY <1>1, SamePlace DEF HeardOf
<1>5. Elapsed' = Elapsed /\ Heard' = Heard /\ Unreported' = Unreported
  BY <1>1, <1>2, <1>3, <1>4 DEF Elapsed, Heard, Unreported, Executions
<1>6. Progress
  BY <1>5 DEF Progress
<1>7. Tells(process) => Tells(process)'
  BY <1>2, <1>3 DEF Tells, Now, Thens
<1>8. Alive => Posed(q) /\ SoundWorker(q, ElapsedOf(q), HeardOf(q))
  BY <1>2 DEF WorkerSound
<1>9. Alive => Posed(q)' /\ SoundWorker(q, ElapsedOf(q), HeardOf(q))'
  BY <1>4, <1>8, SamePosed DEF SoundWorker, SoundBy
<1>10. Alive' => Posed(Now)' /\ SoundWorker(Now, ElapsedOf(Now), HeardOf(Now))'
  BY <1>1, <1>3, <1>9
<1>11. starts' \in Seq({TheKey'})
  BY KeyStays DEF WorkerSound
<1>12. \A o \in Heard' : GoodOutcome(o, Elapsed)'
  BY <1>5 DEF WorkerSound, GoodOutcome, Level
<1>13. \A o \in Reported' : o.execution[1] < Unreported'
  BY <1>1, <1>5 DEF WorkerSound
<1>14. Alive' => Tells(process)'
  BY <1>1, <1>7 DEF WorkerSound
<1> QED
  BY <1>6, <1>10, <1>11, <1>12, <1>13, <1>14 DEF WorkerSound

LEMMA LauncherSound ==
    ASSUME SoundInv, RecordedInv, LauncherEffect
    PROVE  SoundInv'
<1>1. WorkerSound' /\ Progress
  BY SameSound DEF SoundInv, LauncherEffect
<1>2. \A e : Sound(e) => Sound(e)'
  BY <1>1, ProgressSound
<1>3. \A e \in PublishedEntries' : Sound(e)'
  BY <1>2 DEF LauncherEffect, SoundInv, EntriesSound
<1>4. At(Us, "running")' =>
         \A e \in EntriesIn(journals[Us])' : e = NoEntry \/ Sound(e)'
  <2>1. EntriesIn(journals[Us])' = EntriesIn(journals'[Us])
    BY DEF EntriesIn
  <2> QED
    BY <1>2, <2>1 DEF LauncherEffect, SoundInv, EntriesSound
<1>5. \A e \in LatestEntries(journals[Us], Us) :
         e \in EntriesIn(journals[Us]) /\ e # NoEntry
  <2> SUFFICES ASSUME NEW e \in LatestEntries(journals[Us], Us)
               PROVE  e \in EntriesIn(journals[Us]) /\ e # NoEntry
    OBVIOUS
  <2>1. PICK f \in DOMAIN journals[Us] : \E i \in DOMAIN journals[Us][f] :
           LastAt(journals[Us], f, i) /\ e = journals[Us][f][i].entry
    BY LatestMeans
  <2>2. PICK i \in DOMAIN journals[Us][f] :
           LastAt(journals[Us], f, i) /\ e = journals[Us][f][i].entry
    BY <2>1
  <2> QED
    BY <2>2, NoEntryUnusable DEF EntriesIn, LastAt
<1>6. launcher'[Us].stage \in Stages =>
         \A e \in Range(launcher'[Us].run.entries) : Sound(e)'
  <2>1. At(Us, "running") => \A e \in LatestEntries(journals[Us], Us) : Sound(e)
    BY <1>5 DEF SoundInv, EntriesSound
  <2>2. launcher[Us].stage \in Stages =>
           \A e \in Range(launcher[Us].run.entries) : Sound(e)
    BY DEF SoundInv, EntriesSound
  <2>3. launcher'[Us].stage \in Stages =>
           \A e \in Range(launcher'[Us].run.entries) : Sound(e)
    BY <2>1, <2>2 DEF LauncherEffect
  <2> QED
    BY <1>2, <2>3
<1>7. PICK entries : entries = Range(launcher'[Us].run.entries)
  OBVIOUS
<1>8. Range(launcher[Us].run.entries)' = entries /\ NoEntry' = NoEntry /\ Stages' = Stages
  BY <1>7 DEF NoEntry, Stages, Range
<1> QED
  BY <1>1, <1>3, <1>4, <1>6, <1>7, <1>8 DEF SoundInv, EntriesSound

LEMMA InitSound ==
    ASSUME Init
    PROVE  SoundInv
<1>1. /\ scene \in Scenes /\ process = NoWorker /\ starts = <<>>
      /\ fragments = <<>>
      /\ journals[Us] = NoJournals /\ Published = {}
      /\ launcher[Us].stage = "running"
  BY UsAssumption DEF Init, InitWorkers, InitManifest, Published, NoManifest,
     InvalidManifest, Manifest
<1>2. ~Alive /\ Reported = {} /\ Heard = {}
  BY <1>1 DEF Alive, Reported, Heard
<1>3. <<>> \in Seq({TheKey}) /\ <<>> \in Seq(Range(<<>>))
  OBVIOUS
<1>4. EntriesIn(NoJournals) = {}
  BY DEF EntriesIn, NoJournals
<1>5. PublishedEntries = {}
  BY <1>1 DEF PublishedEntries, OurRuns
<1> QED
  BY <1>1, <1>2, <1>3, <1>4, <1>5
     DEF SoundInv, WorkerSound, EntriesSound, At, Stages

LEMMA SoundStutters ==
    ASSUME SoundInv, UNCHANGED vars
    PROVE  SoundInv'
<1>1. WorkerSound' /\ Progress
  BY SameSound DEF SoundInv, vars, workerVars
<1> QED
  BY <1>1, WorkerActsEntries DEF SoundInv, vars, manifestVars

LEMMA SoundKeeps ==
    ASSUME SoundInv, RecordedInv, PublicationInv, [Next]_vars
    PROVE  SoundInv'
<1>1. CASE WorkerActs
  <2>1. WorkerSound' /\ Progress
    BY <1>1, WorkerActsSound DEF SoundInv, RecordedInv
  <2> QED
    BY <1>1, <2>1, WorkerActsEntries DEF SoundInv, WorkerActs, manifestVars
<1>2. CASE WorkerWrites
  <2>1. WorkerSound' /\ Progress
    BY <1>2, WritesSound DEF SoundInv, RecordedInv, WorkerWrites
  <2> QED
    BY <1>2, <2>1, JournalEntries DEF SoundInv
<1>3. CASE LauncherEffect
  BY <1>3, LauncherSound
<1>4. CASE UNCHANGED vars
  BY <1>4, SoundStutters
<1> QED
  BY <1>1, <1>2, <1>3, <1>4, NextEffect

\* The result of an entry is always that of an execution it stands for, or not
\* known, whichever of the hooks told it (RecordResult, CompleteCurrent) and
\* whatever failed on the way: of the entity at work, of what the worker has
\* completed, of what is in its journal and of what is published.
THEOREM ResultsInvariant == Spec => [](PublicationInv /\ RecordedInv /\ SoundInv)
<1>1. Init => SoundInv
  BY InitSound
<1>2. SoundInv /\ (PublicationInv /\ RecordedInv) /\ [Next]_vars => SoundInv'
  BY SoundKeeps
<1> QED
  BY <1>1, <1>2, RecordedInvariant, PTL DEF Spec

\* The first claim of EntryTruthful.
ResultsOwned ==
    \A e \in PublishedEntries :
        e.covers \subseteq {o.execution : o \in OutcomesOf(e)} =>
            e.result \in {o.result : o \in OutcomesOf(e)} \union {"unknown"}

LEMMA SoundOwned ==
    ASSUME SoundInv
    PROVE  ResultsOwned
<1> SUFFICES ASSUME NEW e \in PublishedEntries,
                    e.covers \subseteq {o.execution : o \in OutcomesOf(e)},
                    e.result # "unknown"
             PROVE  e.result \in {o.result : o \in OutcomesOf(e)}
  BY DEF ResultsOwned
<1>1. Sound(e)
  BY DEF SoundInv, EntriesSound
<1>2. PICK x \in e.covers : \A o \in Heard : o.execution = x => o.result = e.result
  BY <1>1 DEF Sound, SoundBy
<1>3. PICK o \in OutcomesOf(e) : o.execution = x
  BY <1>2
<1>4. o \in Heard
  BY <1>3 DEF OutcomesOf, Heard, HeardOf
<1> QED
  BY <1>2, <1>3, <1>4

----------------------------------------------------------------------------
(* What an entry tells of the executions it stands for.                    *)

\* The workers of which every execution has run.
ClosedOf(s) == {w \in Nat : w < s.retry \/ (w = s.retry /\ Over(s))}
Closed == IF Alive THEN ClosedOf(Now) ELSE {w \in Nat : w < Len(starts)}

OutcomesIn(e, heard) == {o \in heard : o.execution \in e.covers}
JudgedIn(e, heard) ==
    IF e.scope = "test" THEN OutcomesIn(e, heard)
    ELSE {o \in heard : \E p \in OutcomesIn(e, heard) :
             o.execution[1] = p.execution[1]}

\* The entry tells exactly what the outcomes of its executions come to.
Told(e, outcomes, judged) ==
    /\ e.result = CombineResults({o.result : o \in outcomes})
    /\ e.decision # "skipped" \/ e.reason = "first-attempt" =>
          \E o \in outcomes : o.retry = e.attempt - 1
    /\ e.decision = "recorded" =>
          /\ scene.retain = "on-failure" => \E o \in judged : o.result = "failed"
          /\ scene.retain = "retries" => \E o \in outcomes : o.retry > 0
          /\ scene.attempts = "retries" => \E o \in outcomes : o.retry > 0
    /\ e.decision = "discarded" =>
          /\ scene.retain # "all"
          /\ scene.retain = "on-failure" => ~\E o \in judged : o.result = "failed"
          /\ scene.retain = "retries" =>
                \A o \in outcomes : Recordable(o) => o.retry = 0
    /\ e.decision = "skipped" =>
          \/ e.reason = "filtered"
          \/ ~scene.chromium
          \/ scene.attempts = "retries" /\ ~\E o \in outcomes : o.retry > 0
    /\ e.decision # "failed"

ToldBy(e, heard) ==
    OutcomesIn(e, heard) # {} =>
        Told(e, OutcomesIn(e, heard), JudgedIn(e, heard))

\* An entry of this run that can be read back.
Proper(e) ==
    /\ e.run = Us /\ ValidEntry(e) /\ e.scope = scene.scope
    /\ e.covers \subseteq Executions

\* Nothing is added any more to what the entry tells of.
SettledBy(e, past, closed, heard) ==
    /\ Proper(e)
    /\ e.covers \subseteq past
    /\ e.scope = "spec" /\ e.decision # "skipped" =>
          \A x \in e.covers : x[1] \in closed
    /\ ToldBy(e, heard)

SettledIn(e, s) == SettledBy(e, ElapsedOf(s), ClosedOf(s), HeardOf(s))
Settled(e) == SettledBy(e, Elapsed, Closed, Heard)

LEMMA SettledStays ==
    ASSUME NEW e, NEW past, NEW closed, NEW heard,
           SettledBy(e, past, closed, heard),
           NEW after, past \subseteq after,
           NEW shut, closed \subseteq shut,
           NEW more, heard \subseteq more,
           \A o \in more : \/ o \in heard
                           \/ o.execution \notin past /\ o.execution[1] \notin closed
    PROVE  SettledBy(e, after, shut, more)
<1>1. /\ Proper(e) /\ e.covers \subseteq past
      /\ e.scope = "spec" /\ e.decision # "skipped" =>
            \A x \in e.covers : x[1] \in closed
      /\ ToldBy(e, heard)
  BY DEF SettledBy
<1>2. OutcomesIn(e, more) = OutcomesIn(e, heard)
  BY <1>1 DEF OutcomesIn
<1>3. e.scope \in {"test", "spec"}
  BY <1>1 DEF Proper, ValidEntry
<1>4. e.decision = "skipped" \/ JudgedIn(e, more) = JudgedIn(e, heard)
  <2>1. CASE e.scope = "test"
    BY <1>2, <2>1 DEF JudgedIn
  <2>2. CASE e.scope = "spec" /\ e.decision # "skipped"
    <3>1. \A p \in OutcomesIn(e, heard) : p.execution[1] \in closed
      BY <1>1, <2>2 DEF OutcomesIn
    <3> QED
      BY <1>2, <2>2, <3>1 DEF JudgedIn
  <2> QED
    BY <1>3, <2>1, <2>2
<1>5. ToldBy(e, more)
  BY <1>1, <1>2, <1>4 DEF ToldBy, Told
<1> QED
  BY <1>1, <1>5 DEF SettledBy

LEMMA MaxOfTwo ==
    ASSUME NEW a \in Nat, NEW b \in Nat
    PROVE  Max({a, b}) = IF a <= b THEN b ELSE a
BY DEF Max

LEMMA MaxOfThree ==
    ASSUME NEW a \in Nat, NEW b \in Nat
    PROVE  /\ Max({0, a, b}) = Max({a, b})
           /\ Max({b, a, 0}) = Max({a, b})
<1>1. {b, a, 0} = {0, a, b}
  OBVIOUS
<1>2. Max({0, a, b}) = IF a <= b THEN b ELSE a
  BY DEF Max
<1> QED
  BY <1>1, <1>2, MaxOfTwo

LEMMA LevelFacts ==
    ASSUME NEW x \in Executions
    PROVE  /\ Level(x) \in Nat
           /\ x[1] <= Level(x) /\ x[3] <= Level(x)
           /\ Level(x) \in {x[1], x[3]}
<1>1. x[1] \in Nat /\ x[3] \in Nat
  BY DEF Executions
<1> QED
  BY <1>1, MaxOfTwo DEF Level

\* Results that are told one after the other come to what all of them do.
LEMMA CombinesMore ==
    ASSUME NEW R, NEW r \in Results
    PROVE  /\ CombineResults({CombineResults(R), r}) = CombineResults(R \union {r})
           /\ CombineResults(R) \in Results
BY DEF CombineResults, Results

LEMMA CombinesOne ==
    ASSUME NEW r \in Results
    PROVE  /\ CombineResults({r}) = r /\ CombineResults({r, r}) = r
           /\ CombineResults({"unknown", r}) = r
           /\ CombineResults({r, "unknown"}) = r
           /\ CombineResults({}) = "unknown"
BY DEF CombineResults, Results

----------------------------------------------------------------------------
(* The tests of a scene by their places, and how often they occur.         *)

PlanAt(i) == Entity(scene.plan[i].test)
Listed(i) == ShouldRecord(scene.filters, PlanAt(i))
KeyAt(i) == RetryTrackingKey(PlanAt(i))

\* One of the candidates is given, and so the first that is.
LEMMA GivenFacts ==
    ASSUME NEW s, DOMAIN s \in SUBSET Nat, NEW i \in DOMAIN s, s[i] # None
    PROVE  FirstGiven(s) # None
<1> DEFINE given == {j \in DOMAIN s : s[j] # None}
<1>1. given \in SUBSET Nat /\ given # {}
  OBVIOUS
<1>2. Min(given) \in given
  BY <1>1, LeastOf
<1> QED
  BY <1>1, <1>2 DEF FirstGiven

LEMMA FirstFacts ==
    ASSUME NEW a, NEW b
    PROVE  /\ FirstGiven(<<a>>) = a
           /\ a # None => FirstGiven(<<a, b>>) = a
<1>1. FirstGiven(<<a>>) = a
  <2>1. CASE a = None
    BY <2>1 DEF FirstGiven
  <2>2. CASE a # None
    <3>1. {i \in DOMAIN <<a>> : <<a>>[i] # None} = {1}
      BY <2>2
    <3>2. Min({1}) = 1
      BY DEF Min
    <3> QED
      BY <3>1, <3>2 DEF FirstGiven
  <2> QED
    BY <2>1, <2>2
<1>2. ASSUME a # None PROVE FirstGiven(<<a, b>>) = a
  <2> DEFINE given == {i \in DOMAIN <<a, b>> : <<a, b>>[i] # None}
  <2>1. 1 \in given /\ given \subseteq {1, 2}
    BY <1>2
  <2>2. Min(given) = 1
    <3>1. \A x \in given : 1 <= x
      BY <2>1
    <3> HIDE DEF given
    <3>2. Min(given) \in given /\ \A x \in given : Min(given) <= x
      BY <2>1, <3>1 DEF Min
    <3>3. PICK m \in given : m = Min(given) /\ \A x \in given : m <= x
      BY <3>2
    <3>4. m \in {1, 2} /\ m <= 1
      BY <2>1, <3>3
    <3> QED
      BY <3>3, <3>4
  <2> QED
    BY <2>1, <2>2 DEF FirstGiven
<1> QED
  BY <1>1, <1>2

\* The current entity is the planned one but for the retry it is told.
LEMMA CurrentFacts ==
    ASSUME scene \in Scenes, process.at \in 1 .. Len(scene.plan)
    PROVE  /\ RetryTrackingKey(Current) = KeyAt(process.at)
           /\ ShouldRecord(scene.filters, Current) = Listed(process.at)
           /\ Current.explicitRetry =
                 IF scene.framework = "mocha" THEN process.try ELSE None
           /\ Current.name # None
<1>1. /\ Current.id = PlanAt(process.at).id
      /\ Current.name = PlanAt(process.at).name
      /\ Current.fullName = PlanAt(process.at).fullName
      /\ Current.specPath = PlanAt(process.at).specPath
      /\ Current.tags = PlanAt(process.at).tags
      /\ Current.name # None
  BY TestFacts DEF Current, Entity, PlanAt
<1>2. Current.explicitRetry = FirstGiven(Test.retryCounters)
  BY DEF Current, Entity
<1>3. Current.explicitRetry =
         IF scene.framework = "mocha" THEN process.try ELSE None
  BY <1>2, TestFacts, FirstFacts
<1>4. RetryTrackingKey(Current) = KeyAt(process.at)
  BY <1>1 DEF RetryTrackingKey, KeyAt
<1>5. ShouldRecord(scene.filters, Current) = Listed(process.at)
  BY <1>1 DEF ShouldRecord, Listed
<1> QED
  BY <1>1, <1>3, <1>4, <1>5

LEMMA KeysDiffer ==
    ASSUME scene \in Scenes, scene.framework = "cucumber",
           NEW i \in 1 .. Len(scene.plan), NEW j \in 1 .. Len(scene.plan),
           KeyAt(i) = KeyAt(j)
    PROVE  i = j
<1>1. DOMAIN scene.plan = 1 .. Len(scene.plan)
  BY SceneFacts
<1> QED
  BY <1>1, SceneAssumption DEF KeyAt, PlanAt

\* One more occurs, and nothing else.
LEMMA OccurMore ==
    ASSUME NEW s, s \in Seq(Range(s)), NEW y
    PROVE  /\ Append(s, y) \in Seq(Range(Append(s, y)))
           /\ \A x : /\ Occurrences(x, s) \in Nat
                     /\ Occurrences(x, Append(s, y)) =
                           Occurrences(x, s) + (IF x = y THEN 1 ELSE 0)
<1>1. /\ Len(s) \in Nat /\ DOMAIN s = 1 .. Len(s)
      /\ DOMAIN Append(s, y) = 1 .. Len(s) + 1
      /\ \A i \in 1 .. Len(s) : Append(s, y)[i] = s[i]
      /\ Append(s, y)[Len(s) + 1] = y
  OBVIOUS
<1>2. Append(s, y) \in Seq(Range(Append(s, y)))
  <2>1. Append(s, y) \in Seq(Range(s) \union {y})
    <3>1. s \in Seq(Range(s) \union {y})
      BY SeqOfMore
    <3> QED
      BY <3>1
  <2>2. Range(s) \union {y} \subseteq Range(Append(s, y))
    <3>1. Len(s) + 1 \in 1 .. Len(s) + 1 /\ 1 .. Len(s) \subseteq 1 .. Len(s) + 1
      BY <1>1
    <3> QED
      BY <1>1, <3>1 DEF Range
  <2> QED
    BY <2>1, <2>2, SeqOfMore
<1>3. ASSUME NEW x
      PROVE  /\ Occurrences(x, s) \in Nat
             /\ Occurrences(x, Append(s, y)) =
                   Occurrences(x, s) + (IF x = y THEN 1 ELSE 0)
  <2> DEFINE was == {i \in DOMAIN s : s[i] = x}
             is == {i \in DOMAIN Append(s, y) : Append(s, y)[i] = x}
  <2>1. was \subseteq 1 .. Len(s) /\ IsFiniteSet(was) /\ Cardinality(was) \in Nat
    <3>1. was \subseteq 1 .. Len(s)
      BY <1>1
    <3>2. IsFiniteSet(1 .. Len(s))
      BY <1>1, FS_Interval
    <3> HIDE DEF was
    <3>3. IsFiniteSet(was)
      BY <3>1, <3>2, FS_Subset
    <3> QED
      BY <3>1, <3>3, FS_CardinalityType
  <2>2. CASE x = y
    <3>1. is = was \union {Len(s) + 1} /\ Len(s) + 1 \notin was
      BY <1>1, <2>2
    <3>2. Cardinality(was \union {Len(s) + 1}) = Cardinality(was) + 1
      <4> HIDE DEF was
      <4> QED
        BY <2>1, <3>1, FS_AddElement
    <3>3. Occurrences(x, s) = Cardinality(was) /\ Occurrences(x, Append(s, y)) = Cardinality(is)
      BY DEF Occurrences
    <3> HIDE DEF was, is
    <3> QED
      BY <2>1, <2>2, <3>1, <3>2, <3>3
  <2>3. CASE x # y
    <3>1. is = was
      BY <1>1, <2>3
    <3>2. Occurrences(x, s) = Cardinality(was) /\ Occurrences(x, Append(s, y)) = Cardinality(is)
      BY DEF Occurrences
    <3> HIDE DEF was, is
    <3> QED
      BY <2>1, <2>3, <3>1, <3>2
  <2> QED
    BY <2>2, <2>3
<1> QED
  BY <1>2, <1>3

LEMMA NothingOccurs ==
    ASSUME NEW x
    PROVE  Occurrences(x, <<>>) = 0 /\ <<>> \in Seq(Range(<<>>))
BY FS_EmptySet DEF Occurrences

----------------------------------------------------------------------------
(* Settings, outcomes and counters of a worker when nothing goes wrong.    *)

\* The settings the worker goes by are those of the run.
Steady(s) ==
    /\ s.chromium = scene.chromium /\ s.resume = "exit"
    /\ s.reason = None /\ s.reason # Parallel

\* What makes the reporter drop an outcome.
Identified(s) ==
    \A o \in Range(s.outcomes) :
        /\ o.uid[1] = o.execution[2]
        /\ scene.framework = "mocha" =>
              /\ o.attempt = o.execution[1] + o.execution[3] + 1
              /\ o.status = o.result
        /\ scene.framework = "cucumber" =>
              /\ o.attempt = o.retry + 1
              /\ o.uid[2] = 2 => o.status = o.result

\* How often an execution of the entity was eligible.
Counted(s) ==
    /\ s.seen \in Seq(Range(s.seen)) /\ s.begun \in Seq(Range(s.begun))
    /\ scene.framework = "cucumber" /\ scene.chromium =>
          \A j \in 1 .. Len(scene.plan) :
              /\ j > s.at => Occurrences(KeyAt(j), s.seen) = 0
              /\ j = s.at /\ Listed(j) =>
                    /\ s.hook \in {"begin", "eligible"} =>
                          Occurrences(KeyAt(j), s.seen) = s.try
                    /\ s.hook \in {"test", "result", "finalize"} =>
                          Occurrences(KeyAt(j), s.seen) = s.try + 1

LEMMA MochaOrCucumber ==
    ASSUME scene \in Scenes
    PROVE  scene.framework \in {"mocha", "cucumber"}
BY SceneFacts

\* The attempts the service counts are the retries of the execution.
LEMMA RetryIsLevel ==
    ASSUME scene \in Scenes, Posed(process), Steady(process),
           Counted(process), Eligible
    PROVE  /\ Retry = Level(Place(process))
           /\ scene.chromium /\ Listed(process.at)
<1>1. /\ process.at \in 1 .. Len(scene.plan)
      /\ process.retry \in Nat /\ process.try \in Nat
      /\ process.hook = "eligible"
  BY DEF Posed, Eligible
<1>2. Available /\ Listed(process.at)
  <2>1. FirstGiven(<<None, "recording-hooks-unavailable">>) # None
    <3>1. "recording-hooks-unavailable" # None
      BY NoneAssumption
    <3>2. DOMAIN <<None, "recording-hooks-unavailable">> = {1, 2}
      OBVIOUS
    <3> QED
      BY <3>1, <3>2, GivenFacts
  <2>2. process.reason = None
    BY DEF Steady
  <2>3. "filtered" # None
    BY NoneAssumption
  <2> QED
    BY <1>1, <2>1, <2>2, <2>3, CurrentFacts DEF Eligible, IneligibleReason
<1>3. scene.chromium
  BY <1>2 DEF Available, Steady
<1>4. Level(Place(process)) = Max({process.retry, process.try})
  BY DEF Level, Place
<1>5. CASE scene.framework = "mocha"
  <2>1. Current.explicitRetry = process.try /\ process.try # None
    BY <1>1, <1>5, CurrentFacts, NoneAssumption
  <2>2. InferredRetry(process) = None
    BY <2>1 DEF InferredRetry
  <2>3. Retry = Max({process.try, process.retry, 0})
    BY <2>1, <2>2 DEF Retry, EffectiveRetry, Count
  <2> QED
    BY <1>1, <1>2, <1>3, <1>4, <2>3, MaxOfThree
<1>6. CASE scene.framework = "cucumber"
  <2>1. Current.explicitRetry = None
    BY <1>1, <1>6, CurrentFacts
  <2>2. InferredRetry(process) = process.try
    BY <1>1, <1>2, <1>3, <1>6, <2>1, CurrentFacts DEF InferredRetry, Counted
  <2>3. process.try # None
    BY <1>1, NoneAssumption
  <2>4. Retry = Max({0, process.retry, process.try})
    BY <2>1, <2>2, <2>3 DEF Retry, EffectiveRetry, Count
  <2> QED
    BY <1>1, <1>2, <1>3, <1>4, <2>4, MaxOfThree
<1> QED
  BY <1>2, <1>3, <1>5, <1>6, MochaOrCucumber

\* Nothing is counted.
LEMMA CountedSame ==
    ASSUME NEW p, Counted(p), NEW q, q.seen = p.seen,
           q.begun = p.begun \/ \E y : q.begun = Append(p.begun, y),
           q.at = p.at, q.try = p.try,
           q.hook \in {"begin", "eligible"} => p.hook \in {"begin", "eligible"},
           q.hook \in {"test", "result", "finalize"} =>
              \/ p.hook \in {"test", "result", "finalize"}
              \/ ~scene.chromium \/ ~Listed(p.at)
    PROVE  Counted(q)
<1>1. q.begun \in Seq(Range(q.begun))
  <2>1. p.begun \in Seq(Range(p.begun))
    BY DEF Counted
  <2>2. \A y : Append(p.begun, y) \in Seq(Range(Append(p.begun, y)))
    BY <2>1, OccurMore
  <2> QED
    BY <2>1, <2>2
<1> QED
  BY <1>1 DEF Counted

\* An execution is counted.
LEMMA CountedAttempt ==
    ASSUME scene \in Scenes, Posed(process), Counted(process),
           process.hook = "eligible",
           NEW q, q.seen = Append(process.seen, RetryTrackingKey(Current)),
           q.begun = process.begun, q.at = process.at, q.try = process.try,
           q.hook = "test"
    PROVE  Counted(q)
<1>1. process.at \in 1 .. Len(scene.plan) /\ process.try \in Nat
  BY DEF Posed
<1>2. q.seen = Append(process.seen, KeyAt(process.at))
  BY <1>1, CurrentFacts
<1>3. /\ q.seen \in Seq(Range(q.seen))
      /\ \A x : /\ Occurrences(x, process.seen) \in Nat
                /\ Occurrences(x, q.seen) = Occurrences(x, process.seen)
                      + (IF x = KeyAt(process.at) THEN 1 ELSE 0)
  BY <1>2, OccurMore DEF Counted
<1>4. ASSUME scene.framework = "cucumber", scene.chromium,
             NEW j \in 1 .. Len(scene.plan)
      PROVE  /\ j > q.at => Occurrences(KeyAt(j), q.seen) = 0
             /\ j = q.at /\ Listed(j) =>
                   Occurrences(KeyAt(j), q.seen) = q.try + 1
  <2>1. CASE j > q.at
    <3>1. KeyAt(j) # KeyAt(process.at)
      BY <1>1, <1>4, <2>1, KeysDiffer
    <3>2. Occurrences(KeyAt(j), process.seen) = 0
      BY <1>4, <2>1 DEF Counted
    <3>3. Occurrences(KeyAt(j), q.seen) = 0
      BY <1>3, <3>1, <3>2
    <3> QED
      BY <1>1, <2>1, <3>3
  <2>2. CASE j = q.at
    <3>1. Listed(j) => Occurrences(KeyAt(j), process.seen) = process.try
      BY <1>4, <2>2 DEF Counted
    <3>2. Occurrences(KeyAt(j), q.seen) = Occurrences(KeyAt(j), process.seen) + 1
      BY <1>3, <2>2
    <3> QED
      BY <1>1, <2>2, <3>1, <3>2
  <2> QED
    BY <1>1, <2>1, <2>2
<1> QED
  BY <1>3, <1>4 DEF Counted

\* The next execution of the entity, or the next entity.
LEMMA CountedAdvance ==
    ASSUME scene \in Scenes, NEW p, Posed(p), Counted(p), p.hook = "finalize",
           NEW q, q.seen = p.seen, q.begun = p.begun,
           \/ q.hook = "begin" /\ q.at = p.at /\ q.try = p.try + 1
           \/ q.hook = "begin" /\ q.at = p.at + 1 /\ q.try = 0
           \/ q.hook = "teardown" /\ q.at = p.at /\ q.try = p.try
    PROVE  Counted(q)
<1>1. p.at \in Nat /\ p.try \in Nat
  BY DEF Posed
<1>2. ASSUME scene.framework = "cucumber", scene.chromium,
             NEW j \in 1 .. Len(scene.plan)
      PROVE  /\ j > q.at => Occurrences(KeyAt(j), q.seen) = 0
             /\ j = q.at /\ Listed(j) =>
                   (q.hook = "begin" => Occurrences(KeyAt(j), q.seen) = q.try)
  <2>1. /\ j > p.at => Occurrences(KeyAt(j), p.seen) = 0
        /\ j = p.at /\ Listed(j) => Occurrences(KeyAt(j), p.seen) = p.try + 1
    BY <1>2 DEF Counted
  <2> QED
    BY <1>1, <2>1
<1> QED
  BY <1>2 DEF Counted

LEMMA CountedReset ==
    ASSUME NEW p, Counted(p), NEW q, q.seen = <<>>, q.begun = p.begun,
           q.hook = "exit"
    PROVE  Counted(q)
BY NothingOccurs DEF Counted

----------------------------------------------------------------------------
(* What a worker has completed when nothing goes wrong.                    *)

\* The entries that are still worked on.
Work(s) ==
    IF s.draft # NoDraft THEN {s.draft.id}
    ELSE IF s.hook \in {"test", "result"} THEN {s.last} ELSE {}

GoodDraft(d) ==
    /\ d.id \in Nat \ {0} /\ d.scope = scene.scope /\ d.attempt \in Nat \ {0}
    /\ d.spec # None /\ (d.test # None => d.test.name # None)
    /\ d.result \in Results /\ d.covers \subseteq Executions

Drafted(s) ==
    /\ s.recording \in Executions \union {None}
    /\ s.draft # NoDraft =>
          GoodDraft(s.draft) /\ s.draft.id \notin Range(s.tasks)

\* What the worker has completed, it has told exactly.
Completing(s) ==
    /\ \A e, f \in s.completed : e.id = f.id => e = f
    /\ \A e \in s.completed :
          /\ Proper(e)
          /\ e.id \in Range(s.tasks) => e.decision = "recorded"
          /\ e.id \in Work(s) \/ SettledIn(e, s)

\* Where a step may bring the worker.
Follows(q) ==
    /\ Posed(q) /\ Later(process, q)
    /\ Range(process.outcomes) \subseteq Range(q.outcomes)
    /\ \A o \in Range(q.outcomes) :
          \/ o \in Range(process.outcomes)
          \/ /\ o.execution = Place(process) /\ o.retry = Level(o.execution)
             /\ Ahead(process) /\ ~Ahead(q) /\ Place(q) = Place(process)

LEMMA AheadFacts ==
    ASSUME NEW s, Posed(s), Ahead(s)
    PROVE  Place(s) \notin ElapsedOf(s) /\ s.retry \notin ClosedOf(s)
<1>1. s.retry \in Nat /\ s.at \in Nat /\ s.try \in Nat
  BY DEF Posed
<1>2. ~Earlier(Place(s), Place(s))
  BY <1>1, PlaceFacts DEF Earlier
<1>3. ~Over(s)
  BY DEF Ahead, Over
<1> QED
  BY <1>1, <1>2, <1>3 DEF ElapsedOf, ClosedOf

LEMMA SettledFollows ==
    ASSUME Posed(process), NEW q, Follows(q), NEW e, SettledIn(e, process)
    PROVE  SettledIn(e, q)
<1>1. ElapsedOf(process) \subseteq ElapsedOf(q)
  BY LaterElapsed DEF Follows
<1>2. ClosedOf(process) \subseteq ClosedOf(q)
  BY DEF Follows, Later, ClosedOf
<1>3. HeardOf(process) \subseteq HeardOf(q)
  BY DEF Follows, HeardOf
<1>4. ASSUME NEW o \in HeardOf(q), o \notin HeardOf(process)
      PROVE  /\ o.execution \notin ElapsedOf(process)
             /\ o.execution[1] \notin ClosedOf(process)
  <2>1. o.execution = Place(process) /\ Ahead(process)
    BY <1>4 DEF HeardOf, Follows
  <2> QED
    BY <2>1, AheadFacts, PlaceFacts
<1> QED
  BY <1>1, <1>2, <1>3, <1>4, SettledStays DEF SettledIn

LEMMA CompletingSame ==
    ASSUME Posed(process), Completing(process), NEW q, Follows(q),
           q.completed = process.completed,
           Range(q.tasks) \subseteq Range(process.tasks),
           Work(process) \subseteq Work(q)
    PROVE  Completing(q)
BY SettledFollows DEF Completing

LEMMA CompletingKept ==
    ASSUME Posed(process), Completing(process), NEW q, Follows(q),
           NEW e, q.completed = Kept(process.completed, e), Proper(e),
           Range(q.tasks) \subseteq Range(process.tasks) \union {e.id},
           e.id \in Range(q.tasks) => e.decision = "recorded",
           e.id \in Work(q) \/ SettledIn(e, q),
           Work(process) \subseteq Work(q) \union {e.id}
    PROVE  Completing(q)
<1>1. \A f \in q.completed :
         f = e \/ (f \in process.completed /\ f.id # e.id)
  BY DEF Kept
<1>2. \A f, g \in q.completed : f.id = g.id => f = g
  BY <1>1 DEF Completing
<1>3. ASSUME NEW f \in q.completed
      PROVE  /\ Proper(f)
             /\ f.id \in Range(q.tasks) => f.decision = "recorded"
             /\ f.id \in Work(q) \/ SettledIn(f, q)
  <2>1. CASE f = e
    BY <2>1
  <2>2. CASE f \in process.completed /\ f.id # e.id
    <3>1. /\ Proper(f)
          /\ f.id \in Range(process.tasks) => f.decision = "recorded"
          /\ f.id \in Work(process) \/ SettledIn(f, process)
      BY <2>2 DEF Completing
    <3> QED
      BY <2>2, <3>1, SettledFollows
  <2> QED
    BY <1>1, <2>1, <2>2
<1> QED
  BY <1>2, <1>3 DEF Completing

\* What is completed can be read back.
LEMMA BuildsProper ==
    ASSUME NEW d, GoodDraft(d), scene \in Scenes, NEW result \in Results,
           NEW options,
           options.decision \in {"recorded", "discarded", "skipped", "failed"},
           options.paths = <<>> \/ \E x : options.paths = <<x>> /\ x # None,
           options.outcome \in
              {"not-required", "pending", "completed", "failed", "skipped"},
           options.operation \in {None, "capture", "merge", "transcode"}
    PROVE  Proper(BuildEntry(d, options, result))
<1> DEFINE e == BuildEntry(d, options, result)
<1>1. /\ e.id = d.id /\ e.run = Us /\ e.cid = "0-0" /\ e.spec = d.spec
      /\ e.test = d.test /\ e.scope = d.scope /\ e.attempt = d.attempt
      /\ e.result = result /\ e.decision = options.decision
      /\ e.segments = options.paths /\ e.outcome = options.outcome
      /\ e.operation = options.operation /\ e.covers = d.covers
      /\ e.timing \in {"after-test", "after-worker"}
  BY DEF BuildEntry, Cid
<1> HIDE DEF e
<1>2. None \notin {e.id, e.run, e.cid, e.spec}
  BY <1>1, NoneAssumption, LauncherAssumption, UsAssumption DEF GoodDraft
<1>3. e.scope \in {"test", "spec"} /\ e.attempt >= 1
  BY <1>1, SceneFacts DEF GoodDraft
<1>4. ValidCapture(e)
  <2>1. CASE options.paths = <<>>
    BY <1>1, <2>1 DEF ValidCapture
  <2>2. CASE \E x : options.paths = <<x>> /\ x # None
    <3>1. PICK x : e.segments = <<x>> /\ x # None
      BY <1>1, <2>2
    <3>2. \A i \in DOMAIN e.segments : e.segments[i] # None
      BY <3>1
    <3> QED
      BY <1>1, <3>2 DEF ValidCapture
  <2> QED
    BY <2>1, <2>2
<1>5. ValidProcessing(e)
  BY <1>1 DEF ValidProcessing
<1>6. ValidEntry(e)
  BY <1>1, <1>2, <1>3, <1>4, <1>5 DEF ValidEntry, GoodDraft
<1>7. Proper(e)
  BY <1>1, <1>6 DEF Proper, GoodDraft
<1> QED
  BY <1>7 DEF e

----------------------------------------------------------------------------
(* What it is working on, and how an entry is joined.                      *)

\* An execution nothing is recorded of.
Unfilmed(x) ==
    \/ ~scene.chromium
    \/ ~Listed(x[2])
    \/ scene.attempts = "retries" /\ Level(x) = 0

\* The entry of such an execution, before its result is known.
SkippedForm(e, x) ==
    /\ e.covers = {x} /\ e.result = "unknown" /\ e.decision = "skipped"
    /\ \/ e.reason = "filtered"
       \/ ~scene.chromium /\ e.reason # "first-attempt"
       \/ /\ e.reason = "first-attempt" /\ scene.attempts = "retries"
          /\ Level(x) = 0 /\ e.attempt = 1

Idle(s) == s.draft = NoDraft /\ s.recording = None

\* A draft that was just begun.
Fresh(s) ==
    /\ s.draft # NoDraft /\ s.recording = None /\ s.already = FALSE
    /\ s.draft.covers = {Place(s)} /\ s.draft.result = "unknown"

\* The execution is not filmed, its entry is complete but for the result.
Aside(s) ==
    /\ Idle(s) /\ Unfilmed(Place(s))
    /\ s.hook \in {"test", "result"} =>
          \E e \in s.completed : e.id = s.last /\ SkippedForm(e, Place(s))

\* The execution is filmed for an entry of its own.
TestFilm(s) ==
    /\ s.draft # NoDraft /\ s.recording # None
    /\ s.draft.covers = {Place(s)}
    /\ s.draft.attempt = Level(Place(s)) + 1
    /\ s.active = Level(Place(s))
    /\ scene.attempts = "retries" => Level(Place(s)) > 0
    /\ s.draft.result = IF s.hook = "finalize" THEN s.result ELSE "unknown"

TestWorker(s) ==
    /\ s.hook \in {"begin", "teardown", "flush", "exit"} => Idle(s)
    /\ s.hook = "eligible" => Fresh(s)
    /\ s.hook \in {"test", "result", "finalize"} => Aside(s) \/ TestFilm(s)

\* The outcomes a recording of the spec file stands for so far, and what they
\* come to with the one that was just heard.
Covered(s) == {o \in Range(s.outcomes) : o.execution \in s.draft.covers}
ResultsOf(outcomes) == {o.result : o \in outcomes}
Coming(s) ==
    IF s.hook = "result" THEN CombineResults({s.draft.result, s.result})
    ELSE s.draft.result

\* The spec file is filmed; what is here of the current entity is part of it.
SpecFilm(s) ==
    /\ s.draft # NoDraft /\ s.recording # None /\ scene.chromium
    /\ Coming(s) = CombineResults(ResultsOf(Covered(s)))
    /\ \/ \E o \in Covered(s) : s.draft.attempt = o.retry + 1
       \/ s.hook = "test" /\ s.draft.attempt = Level(Place(s)) + 1
    /\ s.active \in Nat
    /\ \A o \in Covered(s) : Recordable(o) => o.retry <= s.active
    /\ s.hook = "test" /\ Listed(s.at) => Level(Place(s)) <= s.active
    /\ s.active > 0 => \/ \E o \in Covered(s) : o.retry > 0
                       \/ s.hook = "test" /\ Level(Place(s)) > 0
    /\ scene.attempts = "retries" => s.active > 0
    /\ \A x \in s.draft.covers :
          x[1] = s.retry /\ (x \in ElapsedOf(s) \/ x = Place(s))
    /\ ~Over(s) =>
          \A o \in Range(s.outcomes) : o.execution[2] = s.at =>
             \/ o.execution \in s.draft.covers
             \/ scene.attempts = "retries" /\ o.retry = 0

\* No recording of the current entity has been made.
NoFilm(s) ==
    ~Over(s) => \A o \in Range(s.outcomes) :
                   o.execution[2] = s.at => Unfilmed(o.execution)

Failed(s) == s.failed \/ (s.hook = "result" /\ s.result = "failed")

SpecWorker(s) ==
    /\ s.hook # "exit" =>
          (Failed(s) <=> \E o \in Range(s.outcomes) : o.result = "failed")
    /\ s.hook \in {"begin", "finalize", "teardown"} =>
          (Idle(s) /\ NoFilm(s)) \/ SpecFilm(s)
    /\ s.hook \in {"flush", "exit"} => Idle(s)
    /\ s.hook = "eligible" =>
          \/ Fresh(s) /\ NoFilm(s)
          \/ s.already = TRUE /\ SpecFilm(s) /\ Place(s) \in s.draft.covers
    /\ s.hook \in {"test", "result"} =>
          \/ Aside(s) /\ NoFilm(s)
          \/ SpecFilm(s) /\ Place(s) \in s.draft.covers

\* All of it.
Whole(s) ==
    /\ Steady(s) /\ Identified(s) /\ Counted(s) /\ Drafted(s) /\ Completing(s)
    /\ scene.scope = "test" => TestWorker(s)
    /\ scene.scope = "spec" => SpecWorker(s)

\* A worker that is not writing, before its next step.
Calm ==
    /\ scene \in Scenes /\ Posed(process) /\ Whole(process)
    /\ \A o \in Reported : o.execution[1] # process.retry
    /\ \A o \in HeardOf(process) : GoodOutcome(o, ElapsedOf(process))
    /\ nextId \in Nat \ {0}
    /\ \E ids \in SUBSET (1 .. nextId - 1) : Holds(process, ids, {})

LEMMA PlaceExecution ==
    ASSUME NEW s, Posed(s)
    PROVE  /\ Place(s) \in Executions /\ s.retry \in Nat /\ s.at \in Nat
           /\ s.try \in Nat /\ Level(Place(s)) \in Nat
<1>1. Place(s) \in Executions /\ s.retry \in Nat /\ s.at \in Nat /\ s.try \in Nat
  BY DEF Posed, Place, Executions
<1> QED
  BY <1>1, LevelFacts

LEMMA Here ==
    Execution = Place(process)
BY DEF Execution, Place

\* The place of the worker is not yet among the outcomes.
LEMMA NotHeard ==
    ASSUME Calm, Ahead(process), NEW o \in Range(process.outcomes)
    PROVE  o.execution # Place(process)
BY AheadFacts DEF Calm, GoodOutcome, HeardOf

\* The draft of a spec file takes in another test.
LEMMA JoinWhole ==
    ASSUME Calm, JoinSpecEntry, NEW q, q = Settle(process'), Follows(q)
    PROVE  Whole(q)
<1> DEFINE p == process
<1>1. /\ DOMAIN p = ProcessFields /\ p.draft # NoDraft /\ DOMAIN p.draft = DraftFields
      /\ scene.scope = "spec"
  BY DEF Calm, Posed, JoinSpecEntry
<1>2. /\ Like(q, p, {"hook", "already", "draft"})
      /\ p.hook = "begin" /\ q.hook = "eligible" /\ q.already = TRUE
      /\ q.draft = [p.draft EXCEPT !.covers = @ \union {Place(p)}]
      /\ Silent(process', p)
  BY <1>1, JoinEffect, Here
<1>3. /\ q.chromium = p.chromium /\ q.reason = p.reason /\ q.resume = p.resume
      /\ q.outcomes = p.outcomes /\ q.seen = p.seen /\ q.begun = p.begun
      /\ q.at = p.at /\ q.try = p.try /\ q.retry = p.retry
      /\ q.recording = p.recording /\ q.active = p.active /\ q.failed = p.failed
      /\ q.tasks = p.tasks /\ q.completed = p.completed
  BY <1>2 DEF Like, ProcessFields
<1>4. /\ q.draft.id = p.draft.id /\ q.draft.attempt = p.draft.attempt
      /\ q.draft.scope = p.draft.scope /\ q.draft.spec = p.draft.spec
      /\ q.draft.test = p.draft.test /\ q.draft.result = p.draft.result
      /\ q.draft.covers = p.draft.covers \union {Place(p)}
  BY <1>1, <1>2 DEF DraftFields
<1>5. q.draft # NoDraft
  BY <1>1, <1>4 DEF NoDraft, Calm, Whole, Drafted, GoodDraft
<1> HIDE DEF p
<1>6. /\ Posed(p) /\ Whole(p) /\ p = process
  BY DEF p, Calm
<1>7. Steady(q) /\ Identified(q)
  BY <1>3, <1>6 DEF Whole, Steady, Identified
<1>8. Counted(q)
  BY <1>2, <1>3, <1>6, CountedSame DEF Whole
<1>9. Drafted(q)
  BY <1>1, <1>3, <1>4, <1>6, PlaceExecution DEF Whole, Drafted, GoodDraft
<1>10. Completing(q)
  BY <1>1, <1>3, <1>4, <1>5, <1>6, CompletingSame DEF Whole, Work
<1>11. SpecWorker(q)
  <2>1. SpecFilm(p) /\ (Failed(p) <=> \E o \in Range(p.outcomes) : o.result = "failed")
    BY <1>1, <1>2, <1>6 DEF Whole, SpecWorker, Idle
  <2>2. Ahead(p) /\ Ahead(q) /\ Place(q) = Place(p)
    BY <1>2, <1>3 DEF Ahead, Place
  <2>3. Covered(q) = Covered(p)
    BY <1>3, <1>4, <1>6, <2>2, NotHeard DEF Covered
  <2>4. Coming(q) = Coming(p)
    BY <1>2, <1>4 DEF Coming
  <2>5. ElapsedOf(q) = ElapsedOf(p) /\ Over(q) = Over(p)
    BY <1>2, <2>2 DEF ElapsedOf, Over
  <2>6. \A x \in q.draft.covers :
           x[1] = q.retry /\ (x \in ElapsedOf(q) \/ x = Place(q))
    BY <1>3, <1>4, <2>1, <2>2, <2>5, PlaceFacts DEF SpecFilm
  <2>7. SpecFilm(q)
    BY <1>2, <1>3, <1>4, <1>5, <2>1, <2>3, <2>4, <2>5, <2>6 DEF SpecFilm
  <2>8. Failed(q) = Failed(p)
    BY <1>2, <1>3 DEF Failed
  <2> QED
    BY <1>2, <1>3, <1>4, <2>1, <2>2, <2>7, <2>8 DEF SpecWorker
<1> QED
  BY <1>1, <1>7, <1>8, <1>9, <1>10, <1>11 DEF Whole

----------------------------------------------------------------------------
(* An entity begins.                                                       *)

LEMMA SpecNamed ==
    ASSUME scene \in Scenes, NEW file
    PROVE  ManifestSpec(file) # None
<1>1. /\ scene.specs \in Seq(Range(scene.specs) \ {None})
      /\ scene.specs # <<>>
  BY SceneFacts
<1>2. /\ Len(scene.specs) \in Nat \ {0} /\ DOMAIN scene.specs = 1 .. Len(scene.specs)
      /\ scene.specs[1] # None
  <2>1. Len(scene.specs) \in Nat \ {0} /\ DOMAIN scene.specs = 1 .. Len(scene.specs)
    BY <1>1
  <2>2. scene.specs[1] \in Range(scene.specs) \ {None}
    BY <1>1, <2>1, ElementOfSeq
  <2> QED
    BY <2>1, <2>2
<1>3. FirstGiven(<<file>> \o scene.specs) # None
  <2> DEFINE s == <<file>> \o scene.specs
  <2>1. /\ DOMAIN s = 1 .. 1 + Len(scene.specs)
        /\ s[2] = scene.specs[1]
    BY <1>1, <1>2
  <2>2. DOMAIN s \in SUBSET Nat /\ 2 \in DOMAIN s
    BY <1>2, <2>1
  <2> HIDE DEF s
  <2>3. FirstGiven(s) # None
    BY <1>2, <2>1, <2>2, GivenFacts
  <2> QED
    BY <2>3 DEF s
<1> QED
  BY <1>2, <1>3 DEF ManifestSpec

LEMMA DraftMade ==
    ASSUME Calm
    PROVE  LET d == CreateDraft(process, Current) IN
           /\ GoodDraft(d) /\ d # NoDraft /\ d.id = nextId
           /\ d.covers = {Place(process)} /\ d.result = "unknown"
           /\ d.id \notin Range(process.tasks)
<1> DEFINE d == CreateDraft(process, Current)
<1>1. /\ scene \in Scenes /\ Posed(process) /\ nextId \in Nat \ {0}
      /\ process.at \in 1 .. Len(scene.plan)
      /\ process.begun \in Seq(Range(process.begun))
  BY DEF Calm, Posed, Whole, Counted
<1>2. /\ d.id = nextId /\ d.scope = scene.scope
      /\ d.attempt = Occurrences(IdentityKey(Current), process.begun) + 1
      /\ d.spec = ManifestSpec(Test.file)
      /\ d.test = IF scene.scope = "test"
                  THEN [name |-> FirstGiven(<<Current.name, Current.fullName>>),
                        fullName |-> Current.fullName]
                  ELSE None
      /\ d.result = "unknown" /\ d.covers = {Place(process)}
  BY Here DEF CreateDraft
<1> HIDE DEF d
<1>3. d.attempt \in Nat \ {0}
  BY <1>1, <1>2, OccurMore
<1>4. d.spec # None
  BY <1>1, <1>2, SpecNamed
<1>5. d.test # None => d.test.name # None
  <2>1. Current.name # None
    BY <1>1, CurrentFacts
  <2>2. FirstGiven(<<Current.name, Current.fullName>>) = Current.name
    BY <2>1, FirstFacts
  <2> QED
    BY <1>2, <2>1, <2>2
<1>6. GoodDraft(d)
  BY <1>1, <1>2, <1>3, <1>4, <1>5, PlaceExecution DEF GoodDraft, Results
<1>7. d # NoDraft
  BY <1>1, <1>2 DEF NoDraft
<1>8. d.id \notin Range(process.tasks)
  <2>1. PICK ids \in SUBSET (1 .. nextId - 1) : Holds(process, ids, {})
    BY DEF Calm
  <2>2. /\ process.tasks \in Seq({e.id : e \in process.completed} \union {})
        /\ \A e \in process.completed : e.id \in ids
    BY <2>1 DEF Holds, OneOf
  <2>3. process.tasks \in Seq(ids)
    <3>1. {e.id : e \in process.completed} \union {} \subseteq ids
      BY <2>2
    <3> QED
      BY <2>2, <3>1, SeqOfMore
  <2>4. Range(process.tasks) \subseteq ids
    BY <2>3 DEF Range
  <2>5. nextId \notin ids
    BY <1>1, <2>1
  <2> QED
    BY <1>2, <2>4, <2>5
<1> QED
  BY <1>2, <1>6, <1>7, <1>8 DEF d

\* An entity begins: nothing else is being worked on.
LEMMA BeginWhole ==
    ASSUME Calm, BeginEntity, NEW q, q = Settle(process'), Follows(q)
    PROVE  Whole(q)
<1> DEFINE p == process
           d == CreateDraft(process, Current)
           e == BuildEntry(d, Checkpoint, "unknown")
<1>1. DOMAIN p = ProcessFields
  BY DEF Calm, Posed
<1>2. /\ Like(q, p, {"hook", "completed", "write", "then", "begun", "already",
                     "draft"})
      /\ p.hook = "begin" /\ q.hook = "eligible" /\ q.already = FALSE
      /\ q.draft = d
      /\ Writes(process', p, e, "eligible")
      /\ scene.scope = "test" \/ p.draft = NoDraft
  BY <1>1, BeginEffect
<1>3. /\ q.chromium = p.chromium /\ q.reason = p.reason /\ q.resume = p.resume
      /\ q.outcomes = p.outcomes /\ q.seen = p.seen
      /\ q.at = p.at /\ q.try = p.try /\ q.retry = p.retry
      /\ q.recording = p.recording /\ q.active = p.active /\ q.failed = p.failed
      /\ q.tasks = p.tasks
  BY <1>2 DEF Like, ProcessFields
<1>4. q.completed = Kept(p.completed, e)
  BY <1>2 DEF Writes
<1>5. \E y : q.begun = Append(p.begun, y)
  <2>1. process'.begun = Append(p.begun, IdentityKey(Current))
    <3>1. p.begun \in Seq(Range(p.begun))
      BY DEF Calm, Whole, Counted
    <3> QED
      BY <1>1 DEF BeginEntity, Journaled, ProcessFields
  <2>2. process'.hook = "write" /\ process'.then = "eligible" /\ DOMAIN process' = ProcessFields
    <3>1. process'.hook = "write" /\ process'.then = "eligible"
      BY <1>2 DEF Writes
    <3>2. DOMAIN process' = ProcessFields
      BY <1>1 DEF BeginEntity, Journaled
    <3> QED
      BY <3>1, <3>2
  <2>3. q.begun = process'.begun
    BY <2>2 DEF Settle, Continue, ProcessFields
  <2> QED
    BY <2>1, <2>3
<1>6. /\ GoodDraft(d) /\ d # NoDraft /\ d.covers = {Place(p)}
      /\ d.result = "unknown" /\ d.id \notin Range(p.tasks)
  BY DraftMade
<1>7. Proper(e) /\ e.id = d.id
  <2>1. Proper(e)
    <3>1. "unknown" \in Results
      BY DEF Results
    <3> HIDE DEF d
    <3> QED
      BY <1>6, <3>1, BuildsProper DEF Calm, Checkpoint
  <2> QED
    BY <2>1 DEF BuildEntry
<1> HIDE DEF p, d, e
<1>8. /\ Posed(p) /\ Whole(p) /\ p = process /\ scene \in Scenes
  BY DEF p, Calm
<1>9. Steady(q) /\ Identified(q)
  BY <1>3, <1>8 DEF Whole, Steady, Identified
<1>10. Counted(q)
  BY <1>2, <1>3, <1>5, <1>8, CountedSame DEF Whole
<1>11. Drafted(q)
  BY <1>2, <1>3, <1>6, <1>8 DEF Whole, Drafted
<1>12. p.draft = NoDraft /\ p.recording = None
  BY <1>2, <1>8, SceneFacts DEF Whole, TestWorker, SpecWorker, Idle, SpecFilm
<1>13. Completing(q)
  <2>1. Work(p) = {} /\ Work(q) = {e.id}
    BY <1>2, <1>6, <1>7, <1>12 DEF Work
  <2> QED
    BY <1>3, <1>4, <1>6, <1>7, <1>8, <2>1, CompletingKept DEF Whole
<1>14. Fresh(q) /\ Place(q) = Place(p)
  BY <1>2, <1>3, <1>6, <1>12 DEF Fresh, Place
<1>15. scene.scope = "spec" => SpecWorker(q)
  <2> HAVE scene.scope = "spec"
  <2>1. /\ NoFilm(p)
        /\ Failed(p) <=> \E o \in Range(p.outcomes) : o.result = "failed"
    BY <1>2, <1>8, <1>12 DEF Whole, SpecWorker, SpecFilm
  <2>2. NoFilm(q) /\ Failed(q) = Failed(p)
    BY <1>2, <1>3, <2>1 DEF NoFilm, Over, Failed
  <2> QED
    BY <1>2, <1>3, <1>14, <2>1, <2>2 DEF SpecWorker
<1> QED
  BY <1>2, <1>9, <1>10, <1>11, <1>13, <1>14, <1>15 DEF Whole, TestWorker

----------------------------------------------------------------------------
(* An entity that is not filmed.                                           *)

\* The current draft, which may have another attempt.
SameDraft(c, d) ==
    /\ c.id = d.id /\ c.scope = d.scope /\ c.spec = d.spec /\ c.test = d.test
    /\ c.result = d.result /\ c.covers = d.covers

LEMMA SameGood ==
    ASSUME NEW d, GoodDraft(d), NEW c, SameDraft(c, d), c.attempt \in Nat \ {0}
    PROVE  GoodDraft(c) /\ c # NoDraft
<1>1. GoodDraft(c)
  BY DEF GoodDraft, SameDraft
<1>2. c.id # 0
  BY <1>1 DEF GoodDraft
<1> QED
  BY <1>1, <1>2 DEF NoDraft

LEMMA EligibleDraft ==
    ASSUME Calm, process.hook = "eligible"
    PROVE  /\ process.draft # NoDraft /\ GoodDraft(process.draft)
           /\ process.draft.id \notin Range(process.tasks)
           /\ Place(process) \in process.draft.covers
           /\ process.already \in BOOLEAN
           /\ process.already = FALSE => Fresh(process)
           /\ process.already = TRUE => scene.scope = "spec" /\ SpecFilm(process)
<1>1. /\ scene.scope \in {"test", "spec"} /\ Whole(process)
  BY SceneFacts DEF Calm
<1>2. CASE scene.scope = "test"
  BY <1>1, <1>2 DEF Whole, Drafted, TestWorker, Fresh
<1>3. CASE scene.scope = "spec"
  BY <1>1, <1>3 DEF Whole, Drafted, SpecWorker, Fresh, SpecFilm
<1> QED
  BY <1>1, <1>2, <1>3

\* The entity is not filmed; an entry of its own is complete but for the result.
LEMMA SkipOfWhole ==
    ASSUME Calm, process.hook = "eligible",
           NEW m, Like(m, process, {"seen", "draft"}), m.draft # NoDraft,
           SameDraft(m.draft, process.draft), m.draft.attempt \in Nat \ {0},
           m.draft.attempt \in {process.draft.attempt, Level(Place(process)) + 1},
           NEW reason, SkipOf(process', m, reason),
           NEW q, q = Settle(process'), Follows(q), Counted(q),
           Unfilmed(Place(process)),
           \/ reason = "filtered"
           \/ ~scene.chromium /\ reason # "first-attempt"
           \/ /\ reason = "first-attempt" /\ scene.attempts = "retries"
              /\ Level(Place(process)) = 0 /\ m.draft.attempt = 1
    PROVE  Whole(q)
<1> DEFINE p == process
           result == CombineResults({m.draft.result, Current.skippedResult})
           e == BuildEntry(m.draft, Decline(reason), result)
<1>1. /\ Like(q, m, {"hook", "completed", "write", "then", "draft", "last"})
      /\ q.hook = "test"
      /\ \/ /\ m.already /\ q.draft = m.draft
            /\ Silent(process', m)
         \/ /\ ~m.already /\ q.draft = NoDraft /\ q.last = m.draft.id
            /\ Writes(process', m, e, "test")
  BY DEF SkipOf
<1>2. /\ m.already = p.already /\ m.completed = p.completed
      /\ q.chromium = p.chromium /\ q.reason = p.reason /\ q.resume = p.resume
      /\ q.outcomes = p.outcomes
      /\ q.at = p.at /\ q.try = p.try /\ q.retry = p.retry
      /\ q.recording = p.recording /\ q.active = p.active /\ q.failed = p.failed
      /\ q.tasks = p.tasks
  BY <1>1 DEF Like, ProcessFields
<1>3. Silent(process', m) => q.completed = p.completed
  BY <1>2 DEF Silent, Settle
<1>4. Writes(process', m, e, "test") => q.completed = Kept(p.completed, e)
  BY <1>2 DEF Writes
<1>5. /\ p.draft # NoDraft /\ GoodDraft(p.draft) /\ p.already \in BOOLEAN
      /\ p.draft.id \notin Range(p.tasks) /\ Place(p) \in p.draft.covers
      /\ p.already = FALSE => Fresh(p)
      /\ p.already = TRUE => scene.scope = "spec" /\ SpecFilm(p)
  BY EligibleDraft
<1>6. GoodDraft(m.draft)
  BY <1>5, SameGood
<1>7. Current.skippedResult = "unknown"
  BY NotSkipped DEF Calm, Posed
<1>8. /\ e.id = m.draft.id /\ e.covers = m.draft.covers /\ e.result = result
      /\ e.decision = "skipped" /\ e.reason = reason
      /\ e.attempt = m.draft.attempt
  BY DEF BuildEntry, Decline
<1>9. result = CombineResults({m.draft.result, "unknown"})
  BY <1>7
<1> HIDE DEF p, result
<1>10. /\ Posed(p) /\ Whole(p) /\ p = process /\ scene \in Scenes
       /\ p.hook = "eligible"
  BY DEF p, Calm
<1>11. result = m.draft.result /\ result \in Results
  BY <1>6, <1>9, CombinesOne DEF GoodDraft
<1>12. Proper(e)
  BY <1>6, <1>10, <1>11, BuildsProper DEF Decline
<1> HIDE DEF e
<1>13. Steady(q) /\ Identified(q)
  BY <1>2, <1>10 DEF Whole, Steady, Identified
<1>14. Place(q) = Place(p) /\ Ahead(p) /\ Ahead(q) /\ ~Over(p) /\ ~Over(q)
  BY <1>1, <1>2, <1>10 DEF Place, Ahead, Over, Whole, Steady
<1>15. q.outcomes = p.outcomes /\ ElapsedOf(q) = ElapsedOf(p)
  BY <1>2, <1>14 DEF ElapsedOf
<1>16. Failed(q) = Failed(p)
  BY <1>1, <1>2, <1>10 DEF Failed
<1>17. scene.scope = "spec" =>
         (Failed(p) <=> \E o \in Range(p.outcomes) : o.result = "failed")
  BY <1>10 DEF Whole, SpecWorker
<1>18. CASE p.already = TRUE
  <2>1. /\ q.draft = m.draft /\ q.completed = p.completed
        /\ scene.scope = "spec" /\ SpecFilm(p)
    BY <1>1, <1>2, <1>3, <1>5, <1>18
  <2>2. Drafted(q)
    BY <1>2, <1>5, <1>6, <1>10, <2>1 DEF Whole, Drafted, SameDraft
  <2>3. Completing(q)
    <3>1. Work(q) = Work(p)
      BY <1>5, <1>10, <2>1 DEF Work, SameDraft
    <3> QED
      BY <1>2, <1>10, <2>1, <3>1, CompletingSame DEF Whole
  <2>4. Covered(q) = Covered(p) /\ Coming(q) = Coming(p)
    BY <1>1, <1>10, <1>15, <2>1 DEF Covered, Coming, SameDraft
  <2>5. Listed(q.at) => Level(Place(q)) <= q.active
    <3>1. Place(p)[2] = p.at /\ p.active \in Nat
      BY <2>1, PlaceFacts DEF SpecFilm
    <3>2. ~Listed(p.at) \/ Level(Place(p)) = 0
      BY <1>10, <2>1, <3>1 DEF SpecFilm, Unfilmed
    <3> QED
      BY <1>2, <1>14, <3>1, <3>2
  <2>6. \/ \E o \in Covered(q) : q.draft.attempt = o.retry + 1
        \/ q.draft.attempt = Level(Place(q)) + 1
    BY <1>10, <1>14, <2>1, <2>4 DEF SpecFilm
  <2>7. \A x \in q.draft.covers :
           x[1] = q.retry /\ (x \in ElapsedOf(q) \/ x = Place(q))
    BY <1>2, <1>10, <1>14, <1>15, <2>1 DEF SpecFilm, SameDraft
  <2>8. SpecFilm(q) /\ Place(q) \in q.draft.covers
    BY <1>1, <1>2, <1>5, <1>10, <1>14, <2>1, <2>4, <2>5, <2>6, <2>7
       DEF SpecFilm, SameDraft
  <2> QED
    BY <1>1, <1>2, <1>13, <1>16, <1>17, <2>1, <2>2, <2>3, <2>8 DEF Whole, SpecWorker
<1>19. CASE p.already = FALSE
  <2>1. /\ q.draft = NoDraft /\ q.last = m.draft.id
        /\ q.completed = Kept(p.completed, e) /\ Fresh(p)
    BY <1>1, <1>2, <1>4, <1>5, <1>19
  <2>2. Drafted(q)
    BY <1>2, <1>10, <2>1 DEF Whole, Drafted
  <2>3. Completing(q)
    <3>1. Work(p) = {e.id} /\ Work(q) = {e.id} /\ e.id \notin Range(p.tasks)
      BY <1>1, <1>5, <1>8, <1>10, <2>1 DEF Work, SameDraft
    <3> QED
      BY <1>2, <1>10, <1>12, <2>1, <3>1, CompletingKept DEF Whole
  <2>4. Aside(q)
    <3>1. Idle(q) /\ Unfilmed(Place(q))
      BY <1>2, <1>10, <1>14, <2>1 DEF Idle, Fresh
    <3>2. e \in q.completed
      BY <2>1 DEF Kept
    <3>3. SkippedForm(e, Place(q))
      BY <1>8, <1>10, <1>11, <1>14, <2>1 DEF SkippedForm, SameDraft, Fresh
    <3> QED
      BY <1>8, <2>1, <3>1, <3>2, <3>3 DEF Aside
  <2>5. scene.scope = "spec" => NoFilm(q)
    <3>1. scene.scope = "spec" => NoFilm(p)
      BY <1>10, <1>19 DEF Whole, SpecWorker
    <3> QED
      BY <1>2, <1>14, <3>1 DEF NoFilm
  <2> QED
    BY <1>1, <1>2, <1>13, <1>16, <1>17, <2>2, <2>3, <2>4, <2>5
       DEF Whole, TestWorker, SpecWorker
<1> QED
  BY <1>5, <1>18, <1>19

----------------------------------------------------------------------------
(* Which entities are not, and how a recording of a spec file goes on.     *)

LEMMA SkipWhole ==
    ASSUME Calm, SkipIneligible, NEW q, q = Settle(process'), Follows(q)
    PROVE  Whole(q)
<1> DEFINE reason == IneligibleReason(Current, Available, process.reason,
                                      scene.filters)
<1>1. /\ DOMAIN process = ProcessFields /\ Posed(process) /\ Whole(process)
      /\ process.at \in 1 .. Len(scene.plan) /\ scene \in Scenes
  BY DEF Calm, Posed
<1>2. /\ process.hook = "eligible" /\ reason # None
      /\ SkipOf(process', process, reason)
  BY <1>1, SkipEffect
<1>3. \/ reason = "filtered" /\ ~Listed(process.at)
      \/ ~scene.chromium /\ reason # "first-attempt"
  <2>1. process.reason = None /\ process.chromium = scene.chromium
    BY <1>1 DEF Whole, Steady
  <2>2. CASE Available
    BY <1>1, <1>2, <2>2, CurrentFacts DEF IneligibleReason
  <2>3. CASE ~Available
    <3>1. DOMAIN <<None, "recording-hooks-unavailable">> = {1, 2}
      OBVIOUS
    <3>2. FirstGiven(<<None, "recording-hooks-unavailable">>) \in
             {None, "recording-hooks-unavailable"}
      <4> DEFINE s == <<None, "recording-hooks-unavailable">>
                 given == {i \in DOMAIN s : s[i] # None}
      <4>1. given \in SUBSET Nat /\ given \subseteq {1, 2}
        BY <3>1
      <4>2. s[1] = None /\ s[2] = "recording-hooks-unavailable"
        OBVIOUS
      <4>3. given # {} => Min(given) \in {1, 2}
        BY <4>1, LeastOf
      <4>4. FirstGiven(s) = IF given = {} THEN None ELSE s[Min(given)]
        BY DEF FirstGiven
      <4> HIDE DEF s, given
      <4>5. FirstGiven(s) \in {None, "recording-hooks-unavailable"}
        BY <4>2, <4>3, <4>4
      <4> QED
        BY <4>5 DEF s
    <3>3. reason = "recording-hooks-unavailable"
      BY <1>2, <2>1, <2>3, <3>2 DEF IneligibleReason
    <3> QED
      BY <2>1, <2>3, <3>3 DEF Available
  <2> QED
    BY <2>2, <2>3
<1> HIDE DEF reason
<1>4. Place(process)[2] = process.at
  BY PlaceFacts
<1>5. Unfilmed(Place(process))
  BY <1>3, <1>4 DEF Unfilmed
<1>6. Like(process, process, {"seen", "draft"})
  BY <1>1 DEF Like
<1>7. Like(q, process, {"hook", "completed", "write", "then", "draft", "last"})
      /\ q.hook = "test"
  BY <1>2 DEF SkipOf
<1>8. Counted(q)
  <2>1. q.seen = process.seen /\ q.begun = process.begun
        /\ q.at = process.at /\ q.try = process.try
    BY <1>7 DEF Like, ProcessFields
  <2> QED
    BY <1>1, <1>3, <1>7, <2>1, CountedSame DEF Whole
<1>9. process.draft # NoDraft /\ GoodDraft(process.draft)
  BY <1>2, EligibleDraft
<1>10. SameDraft(process.draft, process.draft)
       /\ process.draft.attempt \in Nat \ {0}
  BY <1>9 DEF SameDraft, GoodDraft
<1> QED
  BY <1>2, <1>3, <1>5, <1>6, <1>8, <1>9, <1>10, SkipOfWhole

\* The attempt of the current entity is settled.
LEMMA AttemptedFacts ==
    ASSUME Calm, Eligible
    PROVE  /\ Like(Attempted, process, {"seen", "draft"})
           /\ Attempted.seen = Append(process.seen, RetryTrackingKey(Current))
           /\ Attempted.draft # NoDraft
           /\ SameDraft(Attempted.draft, process.draft)
           /\ Attempted.draft.attempt = Level(Place(process)) + 1
           /\ Attempted.draft.attempt \in Nat \ {0}
           /\ Retry = Level(Place(process)) /\ Retry \in Nat
           /\ scene.chromium /\ Listed(process.at)
<1>1. /\ DOMAIN process = ProcessFields /\ Posed(process) /\ Whole(process)
      /\ scene \in Scenes
      /\ process.draft # NoDraft => DOMAIN process.draft = DraftFields
  BY DEF Calm, Posed
<1>2. /\ Retry = Level(Place(process)) /\ Retry \in Nat
      /\ scene.chromium /\ Listed(process.at)
  BY <1>1, RetryIsLevel, PlaceExecution DEF Whole
<1>3. process.draft # NoDraft /\ GoodDraft(process.draft)
  BY EligibleDraft DEF Eligible
<1>4. /\ Like(Attempted, process, {"seen", "draft"})
      /\ Attempted.seen = Append(process.seen, RetryTrackingKey(Current))
      /\ Attempted.draft = [process.draft EXCEPT !.attempt = Retry + 1]
  BY <1>1, <1>3, AttemptedLike
<1>5. SameDraft(Attempted.draft, process.draft) /\ Attempted.draft.attempt = Retry + 1
  BY <1>1, <1>3, <1>4 DEF SameDraft, DraftFields
<1>6. Attempted.draft.attempt \in Nat \ {0}
  BY <1>2, <1>5
<1>7. Attempted.draft # NoDraft
  BY <1>3, <1>5, <1>6, SameGood
<1> QED
  BY <1>2, <1>4, <1>5, <1>6, <1>7

LEMMA FirstWhole ==
    ASSUME Calm, SkipFirstAttempt, NEW q, q = Settle(process'), Follows(q)
    PROVE  Whole(q)
<1>1. /\ DOMAIN process = ProcessFields /\ Posed(process) /\ Whole(process)
      /\ scene \in Scenes
  BY DEF Calm, Posed
<1>2. /\ process.hook = "eligible" /\ Eligible /\ Decision = "skip"
      /\ SkipOf(process', Attempted, "first-attempt")
  BY <1>1, FirstEffect
<1>3. PICK m : m = Attempted
  OBVIOUS
<1>4. /\ Like(m, process, {"seen", "draft"}) /\ m.draft # NoDraft
      /\ m.seen = Append(process.seen, RetryTrackingKey(Current))
      /\ SameDraft(m.draft, process.draft)
      /\ m.draft.attempt = Level(Place(process)) + 1
      /\ m.draft.attempt \in Nat \ {0}
      /\ Retry = Level(Place(process))
      /\ SkipOf(process', m, "first-attempt")
  BY <1>2, <1>3, AttemptedFacts
<1>5. scene.attempts = "retries" /\ Level(Place(process)) = 0
  BY <1>2, <1>4 DEF Decision, StartDecision
<1>6. Unfilmed(Place(process)) /\ m.draft.attempt = 1
  BY <1>4, <1>5 DEF Unfilmed
<1>7. Counted(q)
  <2>1. /\ Like(q, m, {"hook", "completed", "write", "then", "draft", "last"})
        /\ q.hook = "test"
    BY <1>4 DEF SkipOf
  <2>2. /\ q.seen = m.seen /\ q.begun = process.begun
        /\ q.at = process.at /\ q.try = process.try
    BY <1>4, <2>1 DEF Like, ProcessFields
  <2> QED
    BY <1>1, <1>2, <1>4, <2>1, <2>2, CountedAttempt DEF Whole
<1> QED
  BY <1>2, <1>4, <1>5, <1>6, <1>7, SkipOfWhole

\* What is common to the steps that let the test be filmed.
LEMMA FilmsWhole ==
    ASSUME Calm, Eligible, NEW m, m = Attempted, NEW q,
           Like(q, m, {"hook", "active", "recording"}), q.hook = "test",
           q.completed = process.completed, Follows(q),
           q.recording \in Executions,
           scene.scope = "test" => TestWorker(q),
           scene.scope = "spec" => SpecFilm(q)
    PROVE  Whole(q)
<1> DEFINE p == process
<1>1. /\ Like(m, p, {"seen", "draft"}) /\ m.draft # NoDraft
      /\ m.seen = Append(p.seen, RetryTrackingKey(Current))
      /\ SameDraft(m.draft, p.draft) /\ m.draft.attempt \in Nat \ {0}
      /\ p.hook = "eligible"
  BY AttemptedFacts DEF Eligible
<1>2. /\ q.chromium = p.chromium /\ q.reason = p.reason /\ q.resume = p.resume
      /\ q.outcomes = p.outcomes /\ q.begun = p.begun
      /\ q.at = p.at /\ q.try = p.try /\ q.retry = p.retry /\ q.failed = p.failed
      /\ q.tasks = p.tasks /\ q.draft = m.draft /\ q.seen = m.seen
  BY <1>1 DEF Like, ProcessFields
<1>3. /\ p.draft # NoDraft /\ GoodDraft(p.draft)
      /\ p.draft.id \notin Range(p.tasks) /\ Place(p) \in p.draft.covers
  BY <1>1, EligibleDraft
<1>4. GoodDraft(m.draft)
  BY <1>1, <1>3, SameGood
<1>5. /\ Posed(p) /\ Whole(p) /\ scene \in Scenes
  BY DEF Calm
<1>6. Counted(q)
  BY <1>1, <1>2, <1>5, CountedAttempt DEF Whole
<1> HIDE DEF p
<1>7. p = process
  BY DEF p
<1>8. Steady(q) /\ Identified(q)
  BY <1>2, <1>5 DEF Whole, Steady, Identified
<1>9. Drafted(q)
  BY <1>1, <1>2, <1>3, <1>4 DEF Drafted, SameDraft
<1>10. Completing(q)
  <2>1. Work(q) = Work(p)
    BY <1>1, <1>2, <1>3 DEF Work, SameDraft
  <2> QED
    BY <1>2, <1>5, <1>7, <2>1, CompletingSame DEF Whole
<1>11. scene.scope = "spec" => SpecWorker(q)
  <2> HAVE scene.scope = "spec"
  <2>1. Failed(p) <=> \E o \in Range(p.outcomes) : o.result = "failed"
    BY <1>1, <1>5 DEF Whole, SpecWorker
  <2>2. Failed(q) = Failed(p)
    BY <1>1, <1>2 DEF Failed
  <2>3. Place(q) \in q.draft.covers
    BY <1>1, <1>2, <1>3 DEF SameDraft, Place
  <2> QED
    BY <1>2, <2>1, <2>2, <2>3 DEF SpecWorker
<1> QED
  BY <1>6, <1>8, <1>9, <1>10, <1>11 DEF Whole

\* The recording of the spec file goes on.
LEMMA GoOnWhole ==
    ASSUME Calm, ContinueSpec, NEW q, q = Settle(process'), Follows(q)
    PROVE  Whole(q)
<1> DEFINE p == process
<1>1. DOMAIN p = ProcessFields /\ Posed(p) /\ Whole(p) /\ scene \in Scenes
  BY DEF Calm, Posed
<1>2. PICK m : m = Attempted
  OBVIOUS
<1>3. /\ Like(q, m, {"hook", "active"}) /\ p.hook = "eligible" /\ q.hook = "test"
      /\ Eligible /\ Decision = "continue-spec"
      /\ q.active = Max({p.active, Retry}) /\ Silent(process', p)
  BY <1>1, <1>2, GoOnEffect
<1>4. /\ Like(m, p, {"seen", "draft"}) /\ m.draft # NoDraft
      /\ SameDraft(m.draft, p.draft) /\ m.draft.attempt = Level(Place(p)) + 1
      /\ Retry = Level(Place(p)) /\ Retry \in Nat
  BY <1>2, <1>3, AttemptedFacts
<1>5. /\ scene.scope = "spec" /\ p.recording # None
      /\ scene.attempts = "retries" => Retry # 0
  BY <1>3 DEF Decision, StartDecision
<1>6. SpecFilm(p) /\ GoodDraft(p.draft) /\ Place(p) \in p.draft.covers
  BY <1>3, <1>5, EligibleDraft DEF Fresh
<1>7. /\ q.outcomes = p.outcomes /\ q.at = p.at /\ q.try = p.try
      /\ q.retry = p.retry /\ q.draft = m.draft /\ q.recording = p.recording
      /\ q.resume = p.resume
  BY <1>3, <1>4 DEF Like, ProcessFields
<1>8. q.completed = p.completed
  BY <1>3 DEF Silent, Settle
<1>9. p.recording \in Executions
  BY <1>1, <1>5 DEF Whole, Drafted
<1>10. p.active \in Nat
  BY <1>6 DEF SpecFilm
<1>11. q.active = IF p.active <= Retry THEN Retry ELSE p.active
  BY <1>3, <1>4, <1>10, MaxOfTwo
<1>12. Like(q, m, {"hook", "active", "recording"})
  BY <1>3 DEF Like
<1> HIDE DEF p
<1>13. p = process
  BY DEF p
<1>14. Place(q) = Place(p) /\ Ahead(p) /\ Ahead(q) /\ ~Over(p) /\ ~Over(q)
  BY <1>1, <1>3, <1>7, <1>13 DEF Place, Ahead, Over, Whole, Steady
<1>15. ElapsedOf(q) = ElapsedOf(p)
  BY <1>14 DEF ElapsedOf
<1>16. Covered(q) = Covered(p) /\ Coming(q) = Coming(p)
  BY <1>3, <1>4, <1>7, <1>13 DEF Covered, Coming, SameDraft
<1>17. \A o \in Covered(p) : o.retry \in Nat
  <2>1. \A o \in Covered(p) : o.execution \in Executions /\ o.retry = Level(o.execution)
    BY <1>13 DEF Calm, GoodOutcome, Covered, HeardOf, ElapsedOf
  <2> QED
    BY <2>1, LevelFacts
<1>18. SpecFilm(q)
  <2>1. \A o \in Covered(q) : Recordable(o) => o.retry <= q.active
    BY <1>4, <1>6, <1>10, <1>11, <1>16, <1>17 DEF SpecFilm
  <2>2. q.active \in Nat /\ Level(Place(q)) <= q.active
    BY <1>4, <1>10, <1>11, <1>13, <1>14
  <2>3. q.active > 0 => (\E o \in Covered(q) : o.retry > 0) \/ Level(Place(q)) > 0
    BY <1>3, <1>4, <1>6, <1>10, <1>11, <1>13, <1>14, <1>16 DEF SpecFilm
  <2>4. scene.attempts = "retries" => q.active > 0
    BY <1>4, <1>6, <1>10, <1>11 DEF SpecFilm
  <2>5. \A x \in q.draft.covers :
           x[1] = q.retry /\ (x \in ElapsedOf(q) \/ x = Place(q))
    BY <1>4, <1>6, <1>7, <1>13, <1>14, <1>15 DEF SpecFilm, SameDraft
  <2>6. \A o \in Range(q.outcomes) : o.execution[2] = q.at =>
             \/ o.execution \in q.draft.covers
             \/ scene.attempts = "retries" /\ o.retry = 0
    BY <1>4, <1>6, <1>7, <1>13, <1>14 DEF SpecFilm, SameDraft
  <2>7. q.draft # NoDraft /\ q.recording # None /\ scene.chromium
    BY <1>4, <1>5, <1>6, <1>7 DEF SpecFilm
  <2>8. Coming(q) = CombineResults(ResultsOf(Covered(q)))
    BY <1>6, <1>16 DEF SpecFilm
  <2>9. q.draft.attempt = Level(Place(q)) + 1
    BY <1>4, <1>7, <1>13, <1>14
  <2> QED
    BY <1>3, <2>1, <2>2, <2>3, <2>4, <2>5, <2>6, <2>7, <2>8, <2>9 DEF SpecFilm
<1> QED
  BY <1>2, <1>3, <1>5, <1>7, <1>8, <1>9, <1>12, <1>13, <1>18, FilmsWhole

----------------------------------------------------------------------------
(* A recording starts; what the reporter takes down of a test.             *)

\* The test is filmed, or with it the rest of its spec file.
LEMMA StartWhole ==
    ASSUME Calm, StartRecording, NEW q, q = Settle(process'), Follows(q)
    PROVE  Whole(q)
<1> DEFINE p == process
<1>1. DOMAIN p = ProcessFields /\ Posed(p) /\ Whole(p) /\ scene \in Scenes
  BY DEF Calm, Posed
<1>2. PICK m : m = Attempted
  OBVIOUS
<1>3. /\ Like(q, m, {"hook", "active", "recording"})
      /\ p.hook = "eligible" /\ q.hook = "test"
      /\ Eligible /\ Decision = "start"
      /\ q.active = Retry /\ q.recording = Place(p) /\ Silent(process', p)
  BY <1>1, <1>2, StartEffect, Here
<1>4. /\ Like(m, p, {"seen", "draft"}) /\ m.draft # NoDraft
      /\ SameDraft(m.draft, p.draft) /\ m.draft.attempt = Level(Place(p)) + 1
      /\ Retry = Level(Place(p)) /\ Retry \in Nat
      /\ scene.chromium /\ Listed(p.at)
  BY <1>2, <1>3, AttemptedFacts
<1>5. /\ ~(scene.scope = "spec" /\ p.recording # None)
      /\ scene.attempts = "retries" => Retry # 0
  BY <1>3 DEF Decision, StartDecision
<1>6. Fresh(p)
  BY <1>3, <1>5, EligibleDraft DEF SpecFilm
<1>7. /\ q.outcomes = p.outcomes /\ q.at = p.at /\ q.try = p.try
      /\ q.retry = p.retry /\ q.draft = m.draft /\ q.resume = p.resume
  BY <1>3, <1>4 DEF Like, ProcessFields
<1>8. q.completed = p.completed
  BY <1>3 DEF Silent, Settle
<1>9. /\ q.recording \in Executions /\ q.recording # None
      /\ p.at \in 1 .. Len(scene.plan)
  BY <1>1, <1>3, PlaceExecution, NoneAssumption DEF Executions, Posed
<1> HIDE DEF p
<1>10. p = process
  BY DEF p
<1>11. Place(q) = Place(p) /\ Ahead(p) /\ Ahead(q) /\ ~Over(p) /\ ~Over(q)
  BY <1>1, <1>3, <1>7, <1>10 DEF Place, Ahead, Over, Whole, Steady
<1>12. /\ q.draft # NoDraft /\ q.draft.covers = {Place(q)}
       /\ q.draft.attempt = Level(Place(q)) + 1
       /\ q.active = Level(Place(q)) /\ q.active \in Nat
       /\ scene.attempts = "retries" => q.active > 0
       /\ q.draft.result = "unknown"
  BY <1>3, <1>4, <1>5, <1>6, <1>7, <1>10, <1>11 DEF Fresh, SameDraft
<1>13. scene.scope = "test" => TestWorker(q)
  BY <1>3, <1>9, <1>12 DEF TestWorker, TestFilm
<1>14. scene.scope = "spec" => SpecFilm(q)
  <2> HAVE scene.scope = "spec"
  <2>1. NoFilm(p)
    BY <1>1, <1>3, <1>6 DEF Whole, SpecWorker, SpecFilm, Fresh
  <2>2. Covered(q) = {}
    BY <1>7, <1>10, <1>11, <1>12, NotHeard DEF Covered
  <2>3. Coming(q) = CombineResults(ResultsOf(Covered(q)))
    <3>1. ResultsOf({}) = {}
      BY DEF ResultsOf
    <3>2. CombineResults({}) = "unknown"
      BY DEF CombineResults
    <3> QED
      BY <1>3, <1>12, <2>2, <3>1, <3>2 DEF Coming
  <2>4. \A x \in q.draft.covers :
           x[1] = q.retry /\ (x \in ElapsedOf(q) \/ x = Place(q))
    BY <1>12, PlaceFacts
  <2>5. ASSUME NEW o \in Range(q.outcomes), o.execution[2] = q.at
        PROVE  scene.attempts = "retries" /\ o.retry = 0
    <3>1. Unfilmed(o.execution)
      BY <1>7, <1>11, <2>1, <2>5 DEF NoFilm
    <3>2. o.retry = Level(o.execution)
      BY <1>7, <1>10, <2>5 DEF Calm, GoodOutcome, HeardOf
    <3> QED
      BY <1>4, <1>7, <1>10, <2>5, <3>1, <3>2 DEF Unfilmed
  <2> QED
    BY <1>3, <1>4, <1>9, <1>12, <2>2, <2>3, <2>4, <2>5 DEF SpecFilm
<1> QED
  BY <1>2, <1>3, <1>8, <1>9, <1>10, <1>13, <1>14, FilmsWhole

----------------------------------------------------------------------------
(* The test runs, and the reporter hears of it.                            *)

LEMMA MaxAndNone ==
    ASSUME NEW a \in Nat
    PROVE  Max({a, 0}) = a
BY MaxOfTwo

LEMMA SaidIdentified ==
    ASSUME scene \in Scenes, Posed(process), NEW result
    PROVE  LET t == TestSaid(result)
               u == StepSaid(1, "passed", result)
               v == StepSaid(2, result, result) IN
           /\ t.uid[1] = process.at /\ u.uid[1] = process.at /\ v.uid[1] = process.at
           /\ u.uid[2] = 1 /\ v.uid[2] = 2 /\ u.uid # v.uid
           /\ t.uid = <<process.at>> /\ v.uid = <<process.at, 2>>
           /\ t.status = result /\ v.status = result
           /\ t.attempt = process.retry + process.try + 1
           /\ u.attempt = Level(Place(process)) + 1
           /\ v.attempt = Level(Place(process)) + 1
<1>1. process.retry \in Nat /\ process.try \in Nat
  BY DEF Posed
<1>2. /\ ReporterAttempt(process.retry, process.try, 0) =
            process.retry + process.try + 1
      /\ ReporterAttempt(process.retry, 0, process.try) =
            Max({process.retry, process.try}) + 1
  <2>1. process.retry + process.try \in Nat /\ process.retry + 0 = process.retry
    BY <1>1
  <2>2. Max({process.retry + process.try, 0}) = process.retry + process.try
    BY <2>1, MaxAndNone
  <2> QED
    BY <2>1, <2>2 DEF ReporterAttempt
<1>3. Level(Place(process)) = Max({process.retry, process.try})
  BY DEF Level, Place
<1>4. /\ TestSaid(result).uid = <<process.at>>
      /\ StepSaid(1, "passed", result).uid = <<process.at, 1>>
      /\ StepSaid(2, result, result).uid = <<process.at, 2>>
  BY SaidFacts DEF TestSaid, StepSaid
<1>5. /\ TestSaid(result).status = result
      /\ StepSaid(2, result, result).status = result
  BY SaidFacts DEF TestSaid, StepSaid
<1>6. /\ TestSaid(result).attempt =
            ReporterAttempt(process.retry, process.try, 0)
      /\ StepSaid(1, "passed", result).attempt =
            ReporterAttempt(process.retry, 0, process.try)
      /\ StepSaid(2, result, result).attempt =
            ReporterAttempt(process.retry, 0, process.try)
  BY SaidFacts DEF TestSaid, StepSaid
<1> QED
  BY <1>2, <1>3, <1>4, <1>5, <1>6

\* What is taken down is of the place of the worker.
LEMMA TakenDown ==
    ASSUME process.outcomes \in Seq(Range(process.outcomes)), NEW result
    PROVE  /\ \A o \in Range(Captured(process.outcomes, result)) :
              \/ o \in Range(process.outcomes)
              \/ /\ o.execution = Place(process) /\ o.result = result
                 /\ o.retry = Level(Place(process))
                 /\ \/ scene.framework = "mocha" /\ o = TestSaid(result)
                    \/ /\ scene.framework # "mocha"
                       /\ \/ o = StepSaid(1, "passed", result)
                          \/ o = StepSaid(2, result, result)
           /\ TestSaid(result).execution = Place(process)
           /\ TestSaid(result).result = result
           /\ TestSaid(result).retry = Level(Place(process))
           /\ StepSaid(2, result, result).execution = Place(process)
           /\ StepSaid(2, result, result).result = result
           /\ StepSaid(2, result, result).retry = Level(Place(process))
<1>1. Level(Place(process)) = Max({process.retry, process.try})
  BY DEF Level, Place
<1> DEFINE t == Captured(process.outcomes, result)
<1>2. \A o \in Range(t) : o \in Range(process.outcomes) \/
            /\ o.execution = Execution /\ o.result = result
            /\ o.retry = Max({process.retry, process.try})
            /\ \/ scene.framework = "mocha" /\ o = TestSaid(result)
               \/ /\ scene.framework # "mocha"
                  /\ \/ o = StepSaid(1, "passed", result)
                     \/ o = StepSaid(2, result, result)
  <2> SUFFICES ASSUME NEW o \in Range(t), o \notin Range(process.outcomes)
               PROVE  /\ o.execution = Execution /\ o.result = result
                      /\ o.retry = Max({process.retry, process.try})
                      /\ \/ scene.framework = "mocha" /\ o = TestSaid(result)
                         \/ /\ scene.framework # "mocha"
                            /\ \/ o = StepSaid(1, "passed", result)
                               \/ o = StepSaid(2, result, result)
    OBVIOUS
  <2>1. o.execution = Execution /\ o.result = result
    BY CapturedFacts
  <2>2. \/ scene.framework = "mocha" /\ o = TestSaid(result)
        \/ /\ scene.framework # "mocha"
           /\ \/ o = StepSaid(1, "passed", result)
              \/ o = StepSaid(2, result, result)
    BY CapturedFacts
  <2>3. TestSaid(result).retry = Max({process.retry, process.try})
    BY Zenon DEF TestSaid, Said
  <2>4. StepSaid(1, "passed", result).retry = Max({process.retry, process.try})
    BY Zenon DEF StepSaid, Said
  <2>5. StepSaid(2, result, result).retry = Max({process.retry, process.try})
    BY Zenon DEF StepSaid, Said
  <2> QED
    BY <2>1, <2>2, <2>3, <2>4, <2>5
<1>3. /\ TestSaid(result).execution = Execution
      /\ TestSaid(result).result = result
      /\ TestSaid(result).retry = Max({process.retry, process.try})
  <2>1. TestSaid(result).execution = Execution
    BY SaidFacts DEF TestSaid
  <2>2. TestSaid(result).result = result
    BY SaidFacts DEF TestSaid
  <2>3. TestSaid(result).retry = Max({process.retry, process.try})
    BY Zenon DEF TestSaid, Said
  <2> QED
    BY <2>1, <2>2, <2>3
<1>4. /\ StepSaid(2, result, result).execution = Execution
      /\ StepSaid(2, result, result).result = result
      /\ StepSaid(2, result, result).retry = Max({process.retry, process.try})
  <2>1. StepSaid(2, result, result).execution = Execution
    BY SaidFacts DEF StepSaid
  <2>2. StepSaid(2, result, result).result = result
    BY SaidFacts DEF StepSaid
  <2>3. StepSaid(2, result, result).retry = Max({process.retry, process.try})
    BY Zenon DEF StepSaid, Said
  <2> QED
    BY <2>1, <2>2, <2>3
<1> QED
  BY <1>1, <1>2, <1>3, <1>4, Here

\* What is taken down of the test has its marks.
LEMMA TestIdentified ==
    ASSUME scene \in Scenes, Posed(process), Identified(process), NEW result,
           NEW q, q.outcomes = Captured(process.outcomes, result)
    PROVE  Identified(q)
<1> SUFFICES ASSUME NEW o \in Range(q.outcomes)
             PROVE  /\ o.uid[1] = o.execution[2]
                    /\ scene.framework = "mocha" =>
                          /\ o.attempt = o.execution[1] + o.execution[3] + 1
                          /\ o.status = o.result
                    /\ scene.framework = "cucumber" =>
                          /\ o.attempt = o.retry + 1
                          /\ o.uid[2] = 2 => o.status = o.result
  BY DEF Identified
<1>0. o \in Range(Captured(process.outcomes, result))
  OBVIOUS
<1>1. process.outcomes \in Seq(Range(process.outcomes))
  BY DEF Posed
<1>2. CASE o \in Range(process.outcomes)
  BY <1>2 DEF Identified
<1>3. CASE o \notin Range(process.outcomes)
  <2>1. /\ o.execution = Place(process) /\ o.result = result
        /\ o.retry = Level(Place(process))
        /\ \/ scene.framework = "mocha" /\ o = TestSaid(result)
           \/ /\ scene.framework # "mocha"
              /\ \/ o = StepSaid(1, "passed", result)
                 \/ o = StepSaid(2, result, result)
    BY <1>1, <1>3, <1>0, TakenDown
  <2>2. /\ o.execution[1] = process.retry /\ o.execution[2] = process.at
        /\ o.execution[3] = process.try
    BY <2>1, PlaceFacts
  <2>3. CASE scene.framework = "mocha"
    BY <2>1, <2>2, <2>3, SaidIdentified
  <2>4. CASE scene.framework # "mocha" /\ o = StepSaid(1, "passed", result)
    BY <2>1, <2>2, <2>4, SaidIdentified
  <2>5. CASE scene.framework # "mocha" /\ o = StepSaid(2, result, result)
    BY <2>1, <2>2, <2>5, SaidIdentified
  <2> QED
    BY <2>1, <2>3, <2>4, <2>5
<1> QED
  BY <1>2, <1>3

\* The result of the test is in the report: as that of this execution, or of
\* an earlier one that the reporter takes it for.
LEMMA HeardTest ==
    ASSUME Calm, process.hook = "test", NEW result
    PROVE  \E o \in Range(Captured(process.outcomes, result)) :
              /\ o.result = result /\ o.retry = Level(Place(process))
              /\ o.execution[2] = process.at
              /\ \/ o.execution = Place(process)
                 \/ o \in Range(process.outcomes) /\ Level(Place(process)) > 0
<1> DEFINE t == Captured(process.outcomes, result)
           level == Level(Place(process))
           last == IF scene.framework = "mocha" THEN TestSaid(result)
                   ELSE StepSaid(2, result, result)
<1>1. /\ scene \in Scenes /\ Posed(process) /\ Identified(process)
      /\ process.outcomes \in Seq(Range(process.outcomes))
      /\ process.retry \in Nat /\ process.at \in Nat /\ process.try \in Nat
  BY DEF Calm, Posed, Whole
<1>2. /\ \A o \in Range(t) : o \in Range(process.outcomes) \/
            /\ o.execution = Place(process) /\ o.result = result
            /\ o.retry = level
      /\ \/ last \in Range(t)
         \/ \E x \in Range(t) :
               /\ x.uid = last.uid /\ x.attempt = last.attempt
               /\ x.status = last.status
               /\ \/ x \in Range(process.outcomes)
                  \/ scene.framework # "mocha" /\ x = StepSaid(1, "passed", result)
  <2>1. \A o \in Range(t) : o \in Range(process.outcomes) \/
            /\ o.execution = Place(process) /\ o.result = result
            /\ o.retry = level
    BY <1>1, TakenDown
  <2>2. \/ last \in Range(t)
        \/ \E x \in Range(t) :
               /\ x.uid = last.uid /\ x.attempt = last.attempt
               /\ x.status = last.status
               /\ \/ x \in Range(process.outcomes)
                  \/ scene.framework # "mocha" /\ x = StepSaid(1, "passed", result)
    BY <1>1, CapturedFacts
  <2> QED
    BY <2>1, <2>2
<1>3. last.execution = Place(process) /\ last.result = result /\ last.retry = level
  BY <1>1, TakenDown
<1>4. CASE last \in Range(t)
  BY <1>3, <1>4, PlaceFacts
<1>5. CASE last \notin Range(t)
  <2>1. PICK x \in Range(t) :
               /\ x.uid = last.uid /\ x.attempt = last.attempt
               /\ x.status = last.status
               /\ \/ x \in Range(process.outcomes)
                  \/ scene.framework # "mocha" /\ x = StepSaid(1, "passed", result)
    BY <1>2, <1>5
  <2>2. x \in Range(process.outcomes)
    BY <1>1, <2>1, SaidIdentified
  <2>3. /\ x.execution \in Executions /\ x.retry = Level(x.execution)
        /\ x.execution[1] = process.retry
        /\ x.execution # Place(process)
    <3>1. Ahead(process)
      BY DEF Ahead
    <3> QED
      BY <1>1, <2>2, <3>1, NotHeard DEF Calm, GoodOutcome, HeardOf, ElapsedOf, Posed
  <2>4. x.uid[1] = process.at /\ x.execution[2] = process.at
    BY <1>1, <2>1, <2>2, SaidIdentified DEF Identified
  <2>5. x.execution = <<x.execution[1], x.execution[2], x.execution[3]>>
        /\ x.execution[3] \in Nat
    BY <2>3 DEF Executions
  <2>6. x.execution[3] # process.try
    BY <2>3, <2>4, <2>5 DEF Place
  <2>7. scene.framework = "cucumber"
    <3>1. ASSUME scene.framework = "mocha" PROVE FALSE
      <4>1. x.attempt = process.retry + x.execution[3] + 1
        BY <1>1, <2>2, <2>3, <3>1 DEF Identified
      <4>2. x.attempt = process.retry + process.try + 1
        BY <1>1, <2>1, <3>1, SaidIdentified
      <4> QED
        BY <1>1, <2>5, <2>6, <4>1, <4>2
    <3> QED
      BY <1>1, <3>1, MochaOrCucumber
  <2>8. last = StepSaid(2, result, result)
    BY <2>7
  <2>9. x.attempt = x.retry + 1 /\ x.uid[2] = 2 /\ x.status = x.result
    BY <1>1, <2>1, <2>2, <2>7, <2>8, SaidIdentified DEF Identified
  <2>10. x.attempt = level + 1 /\ x.status = result
    BY <1>1, <2>1, <2>8, SaidIdentified
  <2>11. level \in Nat /\ x.retry \in Nat
    BY <1>1, <2>3, PlaceExecution, LevelFacts
  <2>12. x.retry = level
    BY <2>9, <2>10, <2>11
  <2>13. level > 0
    <3>1. ASSUME level = 0 PROVE FALSE
      <4>1. /\ process.try <= level /\ x.execution[3] <= Level(x.execution)
        BY <1>1, <2>3, PlaceExecution, PlaceFacts, LevelFacts
      <4> QED
        BY <1>1, <2>3, <2>5, <2>6, <2>12, <3>1, <4>1
    <3> QED
      BY <2>11, <3>1
  <2> QED
    BY <2>1, <2>2, <2>4, <2>9, <2>10, <2>12, <2>13
<1> QED
  BY <1>4, <1>5

----------------------------------------------------------------------------
(* The test runs.                                                          *)

\* The recording of the spec file goes on while the test runs.
LEMMA TestFilmed ==
    ASSUME Calm, process.hook = "test", SpecFilm(process),
           Place(process) \in process.draft.covers,
           NEW result \in Results, NEW q,
           q.outcomes = Captured(process.outcomes, result),
           q.hook = "result", q.result = result, q.resume = process.resume,
           q.draft = process.draft, q.recording = process.recording,
           q.active = process.active, Place(q) = Place(process),
           q.retry = process.retry, q.at = process.at,
           ElapsedOf(process) \subseteq ElapsedOf(q)
    PROVE  SpecFilm(q)
<1> DEFINE p == process
           level == Level(Place(process))
<1>1. /\ process.outcomes \in Seq(Range(process.outcomes))
      /\ ~Over(process) /\ ~Over(q)
  BY DEF Calm, Posed, Over
<1>2. \A o \in Range(q.outcomes) :
         \/ o \in Range(p.outcomes)
         \/ o.execution = Place(p) /\ o.result = result /\ o.retry = level
  BY <1>1, TakenDown
<1>3. Range(p.outcomes) \subseteq Range(q.outcomes)
  BY <1>1, CapturedAdds
<1>4. PICK r \in Range(q.outcomes) :
         /\ r.result = result /\ r.retry = level
         /\ r.execution[2] = process.at
         /\ \/ r.execution = Place(process)
            \/ r \in Range(process.outcomes) /\ level > 0
  BY HeardTest
<1>5. level \in Nat
  BY PlaceExecution DEF Calm
<1>6. Place(p)[2] = p.at
  BY PlaceFacts
<1> HIDE DEF p, level
<1>7. /\ p = process /\ SpecFilm(p) /\ Place(p) \in p.draft.covers
      /\ level = Level(Place(p)) /\ p.hook = "test"
  BY DEF p, level
<1>8. r \in Covered(q)
  BY <1>1, <1>4, <1>5, <1>7 DEF Covered, SpecFilm
<1>9. \A o \in Covered(q) :
         \/ o \in Covered(p)
         \/ o.execution = Place(p) /\ o.result = result /\ o.retry = level
  BY <1>2, <1>7 DEF Covered
<1>10. Covered(p) \subseteq Covered(q)
  BY <1>3, <1>7 DEF Covered
<1>11. ResultsOf(Covered(q)) = ResultsOf(Covered(p)) \union {result}
  BY <1>4, <1>8, <1>9, <1>10 DEF ResultsOf
<1>12. Coming(q) = CombineResults(ResultsOf(Covered(q)))
  <2>1. p.draft.result = CombineResults(ResultsOf(Covered(p)))
    BY <1>7 DEF SpecFilm, Coming
  <2>2. Coming(q) = CombineResults({p.draft.result, result})
    BY <1>7 DEF Coming
  <2> QED
    BY <1>11, <2>1, <2>2, CombinesMore
<1>13. \E o \in Covered(q) : q.draft.attempt = o.retry + 1
  BY <1>4, <1>7, <1>8, <1>10 DEF SpecFilm
<1>14. \A o \in Covered(q) : Recordable(o) => o.retry <= q.active
  <2> TAKE o \in Covered(q)
  <2>1. CASE o \in Covered(p)
    BY <1>7, <2>1 DEF SpecFilm
  <2>2. CASE o.execution = Place(p) /\ o.retry = level
    <3>1. Recordable(o) = Listed(p.at)
      BY <1>6, <2>2 DEF Recordable, Listed, PlanAt
    <3> QED
      BY <1>7, <2>2, <3>1 DEF SpecFilm
  <2> QED
    BY <1>9, <2>1, <2>2
<1>15. q.active > 0 => \E o \in Covered(q) : o.retry > 0
  BY <1>4, <1>7, <1>8, <1>10 DEF SpecFilm
<1>16. \A x \in q.draft.covers :
          x[1] = q.retry /\ (x \in ElapsedOf(q) \/ x = Place(q))
  BY <1>7 DEF SpecFilm
<1>17. \A o \in Range(q.outcomes) : o.execution[2] = q.at =>
             \/ o.execution \in q.draft.covers
             \/ scene.attempts = "retries" /\ o.retry = 0
  BY <1>1, <1>2, <1>7 DEF SpecFilm
<1>18. /\ q.draft # NoDraft /\ q.recording # None /\ scene.chromium
       /\ q.active \in Nat
       /\ scene.attempts = "retries" => q.active > 0
  BY <1>7 DEF SpecFilm
<1> QED
  BY <1>12, <1>13, <1>14, <1>15, <1>16, <1>17, <1>18 DEF SpecFilm

LEMMA TestWhole ==
    ASSUME Calm, NEW result, RunTest(result),
           NEW q, q = Settle(process'), Follows(q)
    PROVE  Whole(q)
<1> DEFINE p == process
<1>1. /\ DOMAIN p = ProcessFields /\ Posed(p) /\ Whole(p) /\ scene \in Scenes
      /\ p.outcomes \in Seq(Range(p.outcomes))
  BY DEF Calm, Posed
<1>2. /\ Like(q, p, {"hook", "result", "outcomes"})
      /\ p.hook = "test" /\ q.hook = "result"
      /\ result \in scene.results /\ q.result = result
      /\ q.outcomes = Captured(p.outcomes, result)
      /\ Silent(process', p)
  BY <1>1, TestEffect
<1>3. /\ q.chromium = p.chromium /\ q.reason = p.reason /\ q.resume = p.resume
      /\ q.at = p.at /\ q.try = p.try /\ q.retry = p.retry
      /\ q.recording = p.recording /\ q.active = p.active /\ q.failed = p.failed
      /\ q.tasks = p.tasks /\ q.draft = p.draft /\ q.last = p.last
      /\ q.seen = p.seen /\ q.begun = p.begun
  BY <1>2 DEF Like, ProcessFields
<1>4. q.completed = p.completed
  BY <1>2 DEF Silent, Settle
<1>5. result \in Results
  BY <1>1, <1>2, SceneFacts DEF Results
<1>6. Identified(q)
  BY <1>1, <1>2, TestIdentified DEF Whole
<1>7. Counted(q)
  BY <1>1, <1>2, <1>3, CountedSame DEF Whole
<1>8. /\ \A o \in Range(q.outcomes) :
            \/ o \in Range(p.outcomes)
            \/ o.execution = Place(p) /\ o.result = result
      /\ Range(p.outcomes) \subseteq Range(q.outcomes)
  BY <1>1, <1>2, TakenDown, CapturedAdds
<1>9. \E o \in Range(q.outcomes) : o.result = result
  BY <1>2, HeardTest
<1>10. ElapsedOf(p) \subseteq ElapsedOf(q)
  BY <1>1, LaterElapsed DEF Follows
<1>11. scene.scope = "spec" /\ SpecFilm(p) /\ Place(p) \in p.draft.covers =>
          SpecFilm(q)
  <2>1. Place(q) = Place(p)
    BY <1>3 DEF Place
  <2> QED
    BY <1>2, <1>3, <1>5, <1>10, <2>1, TestFilmed
<1>12. Place(p)[2] = p.at
  BY PlaceFacts
<1> HIDE DEF p
<1>13. p = process
  BY DEF p
<1>14. Steady(q) /\ Drafted(q)
  BY <1>1, <1>3 DEF Whole, Steady, Drafted
<1>15. Completing(q)
  <2>1. Work(q) = Work(p)
    BY <1>2, <1>3 DEF Work
  <2> QED
    BY <1>1, <1>3, <1>4, <1>13, <2>1, CompletingSame DEF Whole
<1>16. Place(q) = Place(p) /\ ~Over(p) /\ ~Over(q)
  BY <1>2, <1>3 DEF Place, Over
<1>17. Aside(p) => Aside(q)
  BY <1>2, <1>3, <1>4, <1>16 DEF Aside, Idle
<1>18. TestFilm(p) => TestFilm(q)
  BY <1>2, <1>3, <1>16 DEF TestFilm
<1>19. scene.scope = "test" => TestWorker(q)
  BY <1>1, <1>2, <1>17, <1>18 DEF Whole, TestWorker
<1>20. Aside(p) /\ NoFilm(p) => NoFilm(q)
  BY <1>3, <1>8, <1>16 DEF Aside, NoFilm
<1>21. scene.scope = "spec" => SpecWorker(q)
  <2> HAVE scene.scope = "spec"
  <2>1. Failed(p) <=> \E o \in Range(p.outcomes) : o.result = "failed"
    BY <1>1, <1>2 DEF Whole, SpecWorker
  <2>2. Failed(q) <=> Failed(p) \/ result = "failed"
    BY <1>2, <1>3 DEF Failed
  <2>3. Failed(q) <=> \E o \in Range(q.outcomes) : o.result = "failed"
    BY <1>8, <1>9, <2>1, <2>2
  <2>4. \/ Aside(q) /\ NoFilm(q)
        \/ SpecFilm(q) /\ Place(q) \in q.draft.covers
    BY <1>1, <1>2, <1>3, <1>11, <1>16, <1>17, <1>20 DEF Whole, SpecWorker
  <2> QED
    BY <1>2, <2>3, <2>4 DEF SpecWorker
<1> QED
  BY <1>6, <1>7, <1>14, <1>15, <1>19, <1>21 DEF Whole

----------------------------------------------------------------------------
(* The result is told.                                                     *)

\* What is heard of the execution that has just run, or is known of it.
LEMMA HeardHere ==
    ASSUME Calm, process.hook \in {"result", "finalize"}
    PROVE  /\ Place(process) \in ElapsedOf(process)
           /\ process.result \in Results \ {"unknown"}
           /\ TestOutcome.manifestResult = process.result
           /\ NonFailing(TestOutcome) <=> process.result # "failed"
           /\ \A o \in HeardOf(process) : o.execution = Place(process) =>
                 o.result = process.result /\ o.retry = Level(Place(process))
<1>1. Posed(process) /\ scene \in Scenes
  BY DEF Calm
<1>2. Place(process) \in Executions /\ ~Ahead(process)
  BY <1>1, PlaceExecution DEF Ahead, Posed
<1>3. Place(process) \in ElapsedOf(process)
  BY <1>2 DEF ElapsedOf
<1>4. /\ process.result \in Results \ {"unknown"}
      /\ TestOutcome.manifestResult = process.result
      /\ NonFailing(TestOutcome) <=> process.result # "failed"
  BY <1>1, OutcomeFacts DEF Posed, Results
<1>5. \A o \in HeardOf(process) : o.execution = Place(process) =>
         o.result = process.result /\ o.retry = Level(Place(process))
  BY <1>1, PlaceFacts DEF Calm, HeardOf, Posed, GoodOutcome
<1> QED
  BY <1>3, <1>4, <1>5

\* The entry of an execution that was not filmed is given its result.
LEMMA SkippedSettles ==
    ASSUME Calm, process.hook = "result",
           NEW e, DOMAIN e = EntryFields, Proper(e),
           SkippedForm(e, Place(process)),
           NEW f, f = [e EXCEPT !.result = CombineResults({@, process.result}),
                                !.covers = @ \union {Execution}]
    PROVE  /\ f.id = e.id /\ f.decision = "skipped" /\ Proper(f)
           /\ SettledIn(f, process)
<1> DEFINE p == process
           x == Place(process)
<1>1. /\ x \in ElapsedOf(p) /\ p.result \in Results
      /\ \A o \in HeardOf(p) : o.execution = x =>
            o.result = p.result /\ o.retry = Level(x)
  BY HeardHere
<1>2. /\ e.covers = {x} /\ e.result = "unknown" /\ e.decision = "skipped"
      /\ \/ e.reason = "filtered"
         \/ ~scene.chromium /\ e.reason # "first-attempt"
         \/ /\ e.reason = "first-attempt" /\ scene.attempts = "retries"
            /\ Level(x) = 0 /\ e.attempt = 1
  BY DEF SkippedForm
<1>3. CombineResults({"unknown", p.result}) = p.result
  BY <1>1, CombinesOne
<1>4. /\ f.result = p.result /\ f.covers = {x}
      /\ f.id = e.id /\ f.decision = e.decision /\ f.reason = e.reason
      /\ f.attempt = e.attempt /\ f.scope = e.scope
  BY <1>2, <1>3, Here DEF EntryFields
<1>5. Proper(f)
  <2>1. /\ f.run = e.run /\ f.cid = e.cid /\ f.spec = e.spec /\ f.test = e.test
        /\ f.segments = e.segments /\ f.outcome = e.outcome
        /\ f.operation = e.operation /\ f.timing = e.timing
    BY DEF EntryFields
  <2>2. ValidCapture(f) /\ ValidProcessing(f)
    BY <1>4, <2>1 DEF Proper, ValidEntry, ValidCapture, ValidProcessing
  <2>3. ValidEntry(f)
    BY <1>1, <1>4, <2>1, <2>2 DEF Proper, ValidEntry
  <2> QED
    BY <1>2, <1>4, <2>1, <2>3 DEF Proper
<1> HIDE DEF p, x
<1>6. ASSUME OutcomesIn(f, HeardOf(p)) # {}
      PROVE  Told(f, OutcomesIn(f, HeardOf(p)), JudgedIn(f, HeardOf(p)))
  <2> DEFINE O == OutcomesIn(f, HeardOf(p))
             results == {o.result : o \in O}
  <2>1. \A o \in O : o.result = p.result /\ o.retry = Level(x)
    BY <1>1, <1>4 DEF OutcomesIn
  <2>2. results = {p.result}
    BY <1>6, <2>1
  <2>3. CombineResults(results) = f.result
    BY <1>1, <1>4, <2>2, CombinesOne
  <2>4. PICK o \in O : TRUE
    BY <1>6
  <2> HIDE DEF O
  <2>5. f.reason = "first-attempt" => \E y \in O : y.retry = f.attempt - 1
    BY <1>2, <1>4, <2>1, <2>4
  <2>6. \/ f.reason = "filtered" \/ ~scene.chromium
        \/ scene.attempts = "retries" /\ ~\E y \in O : y.retry > 0
    BY <1>2, <1>4, <2>1
  <2> QED
    BY <1>2, <1>4, <2>3, <2>5, <2>6 DEF Told, O
<1>7. SettledIn(f, p)
  BY <1>1, <1>2, <1>4, <1>5, <1>6 DEF SettledIn, SettledBy, ToldBy
<1> QED
  BY <1>2, <1>4, <1>5, <1>7 DEF p

LEMMA EndWhole ==
    ASSUME Calm, EndEntity, NEW q, q = Settle(process'), Follows(q)
    PROVE  Whole(q)
<1> DEFINE p == process
           last == {e \in process.completed : e.id = process.last}
<1>1. /\ DOMAIN p = ProcessFields /\ Posed(p) /\ Whole(p) /\ scene \in Scenes
      /\ p.draft # NoDraft => DOMAIN p.draft = DraftFields
      /\ p.reason # Parallel /\ \A e \in p.completed : DOMAIN e = EntryFields
  <2>1. p.reason # Parallel
    BY DEF Calm, Whole, Steady
  <2>2. \A e \in p.completed : DOMAIN e = EntryFields
    BY DEF Calm, Holds, OneOf
  <2> QED
    BY <2>1, <2>2 DEF Calm, Posed
<1>2. /\ p.result \in Results \ {"unknown"} /\ p.hook = "result"
      /\ TestOutcome.manifestResult = p.result
      /\ NonFailing(TestOutcome) <=> p.result # "failed"
  BY <1>1, HeardHere, EndEffect
<1>3. /\ Like(q, p, {"hook", "failed", "draft", "completed", "write", "then"})
      /\ q.hook = "finalize"
      /\ q.failed = (p.failed \/ (scene.scope = "spec" /\ p.result = "failed"))
      /\ \/ /\ p.draft # NoDraft
            /\ q.draft = [p.draft EXCEPT !.result = CombineResults({@, p.result})]
            /\ Silent(process', p)
         \/ /\ p.draft = NoDraft /\ q.draft = NoDraft
            /\ last = {} /\ Silent(process', p)
         \/ /\ p.draft = NoDraft /\ q.draft = NoDraft
            /\ \E e \in last :
                  Writes(process', p,
                      [e EXCEPT !.result = CombineResults({@, p.result}),
                                !.covers = @ \union {Execution}],
                      "finalize")
  BY <1>1, <1>2, EndEffect
<1>4. /\ q.chromium = p.chromium /\ q.reason = p.reason /\ q.resume = p.resume
      /\ q.at = p.at /\ q.try = p.try /\ q.retry = p.retry
      /\ q.outcomes = p.outcomes /\ q.result = p.result
      /\ q.recording = p.recording /\ q.active = p.active
      /\ q.tasks = p.tasks /\ q.last = p.last
      /\ q.seen = p.seen /\ q.begun = p.begun
  BY <1>3 DEF Like, ProcessFields
<1>5. \A e : Writes(process', p, e, "finalize") => q.completed = Kept(p.completed, e)
  BY DEF Writes
<1>6. Silent(process', p) => q.completed = p.completed
  BY DEF Silent, Settle
<1>7. \A e \in last : SkippedForm(e, Place(p)) /\ Proper(e) =>
         LET f == [e EXCEPT !.result = CombineResults({@, p.result}),
                            !.covers = @ \union {Execution}] IN
         f.id = e.id /\ f.decision = "skipped" /\ Proper(f) /\ SettledIn(f, p)
  BY <1>1, <1>2, SkippedSettles
<1>8. \A f : SettledIn(f, p) => SettledIn(f, q)
  BY <1>1, SettledFollows
<1> HIDE DEF p
<1>9. p = process
  BY DEF p
<1>10. Steady(q) /\ Identified(q)
  BY <1>1, <1>4 DEF Whole, Steady, Identified
<1>11. Counted(q)
  BY <1>1, <1>2, <1>3, <1>4, CountedSame DEF Whole
<1>12. Place(q) = Place(p) /\ ~Ahead(p) /\ ~Ahead(q) /\ ~Over(p) /\ ~Over(q)
  BY <1>1, <1>2, <1>3, <1>4 DEF Place, Ahead, Over, Whole, Steady
<1>13. ElapsedOf(q) = ElapsedOf(p)
  BY <1>12 DEF ElapsedOf
<1>14. scene.scope = "spec" =>
          (Failed(q) <=> \E o \in Range(q.outcomes) : o.result = "failed")
  <2> HAVE scene.scope = "spec"
  <2>1. Failed(p) <=> \E o \in Range(p.outcomes) : o.result = "failed"
    BY <1>1, <1>2 DEF Whole, SpecWorker
  <2>2. Failed(q) <=> Failed(p)
    BY <1>2, <1>3 DEF Failed
  <2> QED
    BY <1>4, <2>1, <2>2
<1>15. CASE p.draft # NoDraft
  <2>1. /\ q.draft = [p.draft EXCEPT !.result = CombineResults({@, p.result})]
        /\ q.completed = p.completed /\ DOMAIN p.draft = DraftFields
        /\ GoodDraft(p.draft) /\ p.draft.id \notin Range(p.tasks)
    BY <1>1, <1>3, <1>6, <1>15 DEF Whole, Drafted
  <2>2. /\ q.draft.id = p.draft.id /\ q.draft.scope = p.draft.scope
        /\ q.draft.attempt = p.draft.attempt /\ q.draft.spec = p.draft.spec
        /\ q.draft.test = p.draft.test /\ q.draft.covers = p.draft.covers
        /\ q.draft.result = CombineResults({p.draft.result, p.result})
    BY <2>1 DEF DraftFields
  <2>3. q.draft.result \in Results
    <3>1. q.draft.result \in {p.draft.result, p.result, "unknown"}
      BY <2>2, Combines
    <3> QED
      BY <1>2, <2>1, <3>1 DEF GoodDraft, Results
  <2>4. GoodDraft(q.draft) /\ q.draft # NoDraft
    <3>1. GoodDraft(q.draft)
      BY <2>1, <2>2, <2>3 DEF GoodDraft
    <3> QED
      BY <3>1 DEF GoodDraft, NoDraft
  <2>5. Drafted(q)
    BY <1>1, <1>4, <2>1, <2>2, <2>4 DEF Whole, Drafted
  <2>6. Completing(q)
    <3>1. Work(q) = Work(p)
      BY <1>15, <2>2, <2>4 DEF Work
    <3> QED
      BY <1>1, <1>4, <1>9, <2>1, <3>1, CompletingSame DEF Whole
  <2>7. scene.scope = "test" => TestFilm(q)
    <3> HAVE scene.scope = "test"
    <3>1. TestFilm(p)
      BY <1>1, <1>2, <1>15 DEF Whole, TestWorker, Aside, Idle
    <3>2. q.draft.result = q.result
      BY <1>2, <1>4, <2>2, <3>1, CombinesOne DEF TestFilm
    <3> QED
      BY <1>3, <1>4, <1>12, <2>2, <2>4, <3>1, <3>2 DEF TestFilm
  <2>8. scene.scope = "spec" => SpecFilm(q)
    <3> HAVE scene.scope = "spec"
    <3>1. SpecFilm(p)
      BY <1>1, <1>2, <1>15 DEF Whole, SpecWorker, Aside, Idle
    <3>2. Covered(q) = Covered(p)
      BY <1>4, <2>2 DEF Covered
    <3>3. Coming(q) = Coming(p)
      BY <1>2, <1>3, <2>2 DEF Coming
    <3>4. \E o \in Covered(q) : q.draft.attempt = o.retry + 1
      BY <1>2, <2>2, <3>1, <3>2 DEF SpecFilm
    <3>5. \A x \in q.draft.covers :
             x[1] = q.retry /\ (x \in ElapsedOf(q) \/ x = Place(q))
      BY <1>4, <1>12, <1>13, <2>2, <3>1 DEF SpecFilm
    <3>6. \A o \in Range(q.outcomes) : o.execution[2] = q.at =>
             \/ o.execution \in q.draft.covers
             \/ scene.attempts = "retries" /\ o.retry = 0
      BY <1>4, <1>12, <2>2, <3>1 DEF SpecFilm
    <3>7. /\ q.recording # None /\ scene.chromium /\ q.active \in Nat
          /\ \A o \in Covered(q) : Recordable(o) => o.retry <= q.active
          /\ q.active > 0 => \E o \in Covered(q) : o.retry > 0
          /\ scene.attempts = "retries" => q.active > 0
      BY <1>2, <1>4, <3>1, <3>2 DEF SpecFilm
    <3>8. Coming(q) = CombineResults(ResultsOf(Covered(q)))
      BY <3>1, <3>2, <3>3 DEF SpecFilm
    <3> QED
      BY <1>3, <2>4, <3>4, <3>5, <3>6, <3>7, <3>8 DEF SpecFilm
  <2> QED
    BY <1>3, <1>10, <1>11, <1>14, <2>5, <2>6, <2>7, <2>8
       DEF Whole, TestWorker, SpecWorker
<1>16. CASE p.draft = NoDraft
  <2>1. Aside(p) /\ (scene.scope = "spec" => NoFilm(p))
    BY <1>1, <1>2, <1>16, SceneFacts
       DEF Whole, TestWorker, SpecWorker, TestFilm, SpecFilm
  <2>2. PICK e \in p.completed : e.id = p.last /\ SkippedForm(e, Place(p))
    BY <1>2, <2>1 DEF Aside
  <2>3. /\ \A x, y \in p.completed : x.id = y.id => x = y
        /\ Proper(e) /\ (e.id \in Range(p.tasks) => e.decision = "recorded")
    BY <1>1 DEF Whole, Completing
  <2>4. e \in last /\ \A x \in last : x = e
    BY <1>9, <2>2, <2>3
  <2> DEFINE f == [e EXCEPT !.result = CombineResults({@, p.result}),
                            !.covers = @ \union {Execution}]
  <2>5. q.draft = NoDraft /\ Writes(process', p, f, "finalize")
    BY <1>3, <1>16, <2>4
  <2>6. f.id = e.id /\ f.decision = "skipped" /\ Proper(f) /\ SettledIn(f, p)
    BY <1>7, <2>2, <2>3, <2>4
  <2> HIDE DEF f
  <2>7. q.completed = Kept(p.completed, f) /\ SettledIn(f, q)
    BY <1>5, <1>8, <2>5, <2>6
  <2>8. f.id \notin Range(p.tasks)
    BY <2>2, <2>3, <2>6 DEF SkippedForm
  <2>9. Completing(q)
    <3>1. Work(p) = {f.id} /\ Work(q) = {}
      BY <1>2, <1>3, <1>16, <2>2, <2>5, <2>6 DEF Work
    <3> QED
      BY <1>1, <1>4, <1>9, <2>6, <2>7, <2>8, <3>1, CompletingKept DEF Whole
  <2>10. Drafted(q)
    BY <1>1, <1>4, <2>5 DEF Whole, Drafted
  <2>11. Aside(q)
    BY <1>3, <1>4, <1>12, <2>1, <2>5 DEF Aside, Idle
  <2>12. scene.scope = "spec" => NoFilm(q)
    BY <1>4, <1>12, <2>1 DEF NoFilm
  <2> QED
    BY <1>3, <1>10, <1>11, <1>14, <2>9, <2>10, <2>11, <2>12
       DEF Whole, TestWorker, SpecWorker, Aside
<1> QED
  BY <1>15, <1>16

----------------------------------------------------------------------------
(* What finalizing a recording makes of its entry.                         *)

\* The entry of a recording that is kept or discarded by its outcomes.
LEMMA FinishTold ==
    ASSUME scene \in Scenes, NEW e, NEW O, NEW J,
           NEW keep \in BOOLEAN, NEW active \in Nat,
           scene.retain = "all" => keep,
           scene.retain = "retries" => (keep <=> active > 0),
           scene.retain = "on-failure" =>
              (keep <=> \E o \in J : o.result = "failed"),
           e.decision = IF keep THEN "recorded" ELSE "discarded",
           e.result = CombineResults({o.result : o \in O}),
           \E o \in O : o.retry = e.attempt - 1,
           active > 0 => \E o \in O : o.retry > 0,
           \A o \in O : o.retry \in Nat /\ (Recordable(o) => o.retry <= active),
           scene.attempts = "retries" => active > 0
    PROVE  Told(e, O, J)
<1>1. e.decision = "recorded" =>
          /\ scene.retain = "on-failure" => \E o \in J : o.result = "failed"
          /\ scene.retain = "retries" => \E o \in O : o.retry > 0
          /\ scene.attempts = "retries" => \E o \in O : o.retry > 0
  OBVIOUS
<1>2. e.decision = "discarded" =>
          /\ scene.retain # "all"
          /\ scene.retain = "on-failure" => ~\E o \in J : o.result = "failed"
          /\ scene.retain = "retries" =>
                \A o \in O : Recordable(o) => o.retry = 0
  <2> HAVE e.decision = "discarded"
  <2>1. ~keep
    OBVIOUS
  <2>2. ASSUME scene.retain = "retries", NEW o \in O, Recordable(o)
        PROVE  o.retry = 0
    BY <2>1, <2>2
  <2> QED
    BY <2>1, <2>2
<1>3. e.decision \in {"recorded", "discarded"}
  OBVIOUS
<1> QED
  BY <1>1, <1>2, <1>3 DEF Told

\* What the setting asks for.
LEMMA RetainFacts ==
    ASSUME scene \in Scenes, NEW passed \in BOOLEAN, NEW active
    PROVE  LET keep == ShouldRetain(scene.retain, passed, active) IN
           /\ scene.retain = "all" => keep
           /\ scene.retain = "retries" => (keep <=> active > 0)
           /\ scene.retain = "on-failure" => (keep <=> ~passed)
           /\ keep \in BOOLEAN
<1>1. scene.retain \in {"all", "on-failure", "retries"}
  BY SceneFacts
<1>2. CASE scene.retain = "all"
  BY <1>2 DEF ShouldRetain
<1>3. CASE scene.retain = "retries"
  BY <1>3 DEF ShouldRetain
<1>4. CASE scene.retain = "on-failure"
  BY <1>4 DEF ShouldRetain
<1> QED
  BY <1>1, <1>2, <1>3, <1>4

\* The entry of a recording that is finalized.
LEMMA FinishProper ==
    ASSUME scene \in Scenes, NEW p, GoodDraft(p.draft), p.recording # None,
           NEW keep \in BOOLEAN, NEW result, NEW told \in Results,
           NEW options, options = FinishedOptions(p, keep, result),
           NEW e, e = BuildEntry(p.draft, options, told)
    PROVE  /\ Proper(e) /\ e.id = p.draft.id /\ e.covers = p.draft.covers
           /\ e.attempt = p.draft.attempt /\ e.scope = scene.scope
           /\ e.result = told
           /\ e.decision = IF keep THEN "recorded" ELSE "discarded"
           /\ options.outcome = "pending" => keep
<1>1. scene.deferred \in BOOLEAN
  BY SceneFacts
<1>2. /\ options.decision = IF keep THEN "recorded" ELSE "discarded"
      /\ options.paths = <<>> \/ options.paths = <<p.recording>>
      /\ options.operation = Operation(scene.processing)
      /\ options.outcome \in {"pending", "skipped", "completed", "not-required"}
      /\ options.outcome = "pending" => keep
  <2>1. CASE keep
    BY <1>1, <2>1 DEF FinishedOptions, CompletedOptions
  <2>2. CASE ~keep
    BY <1>1, <2>2 DEF FinishedOptions, CompletedOptions
  <2> QED
    BY <2>1, <2>2
<1>3. Operation(scene.processing) \in {None, "capture", "merge", "transcode"}
  BY DEF Operation
<1>4. Proper(e)
  BY <1>2, <1>3, BuildsProper
<1>5. /\ e.id = p.draft.id /\ e.covers = p.draft.covers
      /\ e.attempt = p.draft.attempt /\ e.scope = p.draft.scope
      /\ e.result = told /\ e.decision = options.decision
  BY DEF BuildEntry
<1> QED
  BY <1>2, <1>4, <1>5 DEF GoodDraft

\* The recording is finalized, its entry settled.
LEMMA FinishCompletes ==
    ASSUME Calm, NEW q, q = Settle(process'), Follows(q),
           process.draft # NoDraft, process.recording # None,
           NEW keep \in BOOLEAN, NEW result, NEW told \in Results,
           NEW options, options = FinishedOptions(process, keep, result),
           NEW e, e = BuildEntry(process.draft, options, told),
           q.completed = Kept(process.completed, e),
           q.tasks = IF options.outcome = "pending"
                     THEN Append(process.tasks, process.draft.id)
                     ELSE process.tasks,
           q.draft = NoDraft, q.recording = None,
           q.hook \in {"begin", "teardown", "flush"},
           SettledIn(e, process)
    PROVE  Drafted(q) /\ Completing(q)
<1>1. /\ Posed(process) /\ Whole(process) /\ scene \in Scenes
      /\ GoodDraft(process.draft)
      /\ process.draft.id \notin Range(process.tasks)
  BY DEF Calm, Whole, Drafted
<1>2. /\ Proper(e) /\ e.id = process.draft.id
      /\ e.decision = IF keep THEN "recorded" ELSE "discarded"
      /\ options.outcome = "pending" => keep
  BY <1>1, FinishProper
<1>3. \E S : process.tasks \in Seq(S)
  BY DEF Calm, Holds
<1>4. Range(Append(process.tasks, e.id)) \subseteq Range(process.tasks) \union {e.id}
  BY <1>3 DEF Range
<1>5. /\ Range(q.tasks) \subseteq Range(process.tasks) \union {e.id}
      /\ e.id \in Range(q.tasks) => e.decision = "recorded"
  BY <1>1, <1>2, <1>4
<1>6. SettledIn(e, q)
  BY <1>1, SettledFollows
<1>7. Work(process) = {e.id} /\ Work(q) = {}
  BY <1>2 DEF Work
<1>8. Completing(q)
  BY <1>1, <1>2, <1>5, <1>6, <1>7, CompletingKept DEF Whole
<1>9. Drafted(q)
  BY DEF Drafted
<1> QED
  BY <1>8, <1>9

----------------------------------------------------------------------------
(* The recording of a test is finalized.                                   *)

\* The entry of a test that was filmed tells what is heard of it.
LEMMA FilmedTold ==
    ASSUME Calm, process.hook = "finalize", scene.scope = "test",
           TestFilm(process), GoodDraft(process.draft),
           NEW keep \in BOOLEAN,
           scene.retain = "all" => keep,
           scene.retain = "retries" => (keep <=> process.active > 0),
           scene.retain = "on-failure" => (keep <=> process.result = "failed"),
           NEW e, Proper(e), e.covers = process.draft.covers,
           e.attempt = process.draft.attempt, e.scope = "test",
           e.result = process.result,
           e.decision = IF keep THEN "recorded" ELSE "discarded"
    PROVE  SettledIn(e, process)
<1> DEFINE p == process
           x == Place(process)
           O == OutcomesIn(e, HeardOf(process))
<1>1. /\ x \in ElapsedOf(p) /\ p.result \in Results
      /\ \A o \in HeardOf(p) : o.execution = x =>
            o.result = p.result /\ o.retry = Level(x)
  BY HeardHere
<1>2. Level(x) \in Nat
  BY PlaceExecution DEF Calm
<1>3. /\ e.covers = {x} /\ e.attempt = Level(x) + 1 /\ p.active = Level(x)
      /\ scene.attempts = "retries" => Level(x) > 0
  BY DEF TestFilm
<1>4. \A o \in O : o.result = p.result /\ o.retry = Level(x)
  BY <1>1, <1>3 DEF OutcomesIn
<1>5. JudgedIn(e, HeardOf(p)) = O
  BY DEF JudgedIn
<1> HIDE DEF p, x, O
<1>6. ASSUME O # {} PROVE Told(e, O, O)
  <2>1. PICK r \in O : TRUE
    BY <1>6
  <2>2. {o.result : o \in O} = {p.result}
    BY <1>4, <2>1
  <2>3. e.result = CombineResults({o.result : o \in O})
    BY <1>1, <2>2, CombinesOne DEF p
  <2>4. scene.retain = "on-failure" => (keep <=> \E o \in O : o.result = "failed")
    BY <1>4, <2>1 DEF p
  <2>5. \E o \in O : o.retry = e.attempt - 1
    BY <1>2, <1>3, <1>4, <2>1
  <2>6. p.active > 0 => \E o \in O : o.retry > 0
    BY <1>3, <1>4, <2>1
  <2>7. \A o \in O : o.retry \in Nat /\ (Recordable(o) => o.retry <= p.active)
    BY <1>2, <1>3, <1>4
  <2>8. scene \in Scenes /\ p = process /\ p.active \in Nat
    BY <1>2, <1>3 DEF Calm, p
  <2> QED
    BY <1>3, <2>3, <2>4, <2>5, <2>6, <2>7, <2>8, FinishTold
<1>7. p = process /\ O = OutcomesIn(e, HeardOf(p))
  BY DEF p, O
<1> QED
  BY <1>1, <1>3, <1>5, <1>6, <1>7 DEF SettledIn, SettledBy, ToldBy

\* The recording of a test is finalized.
LEMMA FinalizeFilm ==
    ASSUME Calm, process.hook = "finalize",
           scene.scope = "test", process.recording # None,
           FinishOf(process', process, NonFailing(TestOutcome),
                    TestOutcome.manifestResult, "done", "next"),
           NEW q, q = Settle(process'), Follows(q)
    PROVE  Whole(q)
<1> DEFINE p == process
           keep == ShouldRetain(scene.retain, NonFailing(TestOutcome), p.active)
           result == TestOutcome.manifestResult
           options == FinishedOptions(p, keep, result)
           told == CombineResults({p.draft.result, result})
           e == BuildEntry(p.draft, options, told)
<1>1. /\ DOMAIN p = ProcessFields /\ Posed(p) /\ Whole(p) /\ scene \in Scenes
      /\ p.result \in Results \ {"unknown"} /\ result = p.result
      /\ NonFailing(TestOutcome) <=> p.result # "failed"
  BY HeardHere DEF Calm, Posed
<1>2. /\ TestFilm(p) /\ GoodDraft(p.draft) /\ p.draft # NoDraft
      /\ p.draft.result = p.result
  BY <1>1 DEF Whole, TestWorker, Aside, Idle, TestFilm, Drafted
<1>3. NonFailing(TestOutcome) \in BOOLEAN
  BY DEF NonFailing
<1>4. /\ keep \in BOOLEAN
      /\ scene.retain = "all" => keep
      /\ scene.retain = "retries" => (keep <=> p.active > 0)
      /\ scene.retain = "on-failure" => (keep <=> p.result = "failed")
  BY <1>1, <1>3, RetainFacts
<1>5. told = p.result
  BY <1>1, <1>2, CombinesOne
<1>6. /\ Like(q, Continue(p, "next"),
              {"recording", "active", "tasks", "draft", "last", "completed",
               "write", "then"})
      /\ q.recording = None /\ q.draft = NoDraft
      /\ Writes(process', p, e, "next")
      /\ q.tasks = IF options.outcome = "pending"
                   THEN Append(p.tasks, p.draft.id) ELSE p.tasks
  BY <1>2 DEF FinishOf
<1>7. q.completed = Kept(p.completed, e)
  BY <1>6 DEF Writes
<1>8. Continue(p, "next") = Advance(p)
  BY DEF Continue
<1> HIDE DEF keep, options, told, result
<1>9. /\ Proper(e) /\ e.covers = p.draft.covers
      /\ e.attempt = p.draft.attempt /\ e.scope = scene.scope
      /\ e.result = told /\ e.decision = IF keep THEN "recorded" ELSE "discarded"
  BY <1>1, <1>2, <1>4, <1>5, FinishProper DEF options
<1> HIDE DEF e
<1>10. SettledIn(e, p)
  BY <1>2, <1>4, <1>5, <1>9, FilmedTold
<1>11. /\ Like(Advance(p), p, {"try", "at", "bad", "result", "hook"})
       /\ \/ /\ Advance(p).hook = "begin"
             /\ Advance(p).at = p.at /\ Advance(p).try = p.try + 1
          \/ /\ Advance(p).hook = "begin"
             /\ Advance(p).at = p.at + 1 /\ Advance(p).try = 0
          \/ /\ Advance(p).hook = "teardown"
             /\ Advance(p).at = p.at /\ Advance(p).try = p.try
  BY <1>1, AdvanceLike
<1>12. /\ q.chromium = p.chromium /\ q.reason = p.reason /\ q.resume = p.resume
       /\ q.outcomes = p.outcomes /\ q.seen = p.seen /\ q.begun = p.begun
       /\ q.hook = Advance(p).hook /\ q.at = Advance(p).at /\ q.try = Advance(p).try
  BY <1>6, <1>8, <1>11 DEF Like, ProcessFields
<1>13. q.hook \in {"begin", "teardown"}
  BY <1>11, <1>12
<1>14. Drafted(q) /\ Completing(q)
  BY <1>1, <1>2, <1>4, <1>5, <1>6, <1>7, <1>10, <1>13, FinishCompletes
     DEF e, options
<1>15. Counted(q)
  BY <1>1, <1>11, <1>12, CountedAdvance DEF Whole
<1>16. Steady(q) /\ Identified(q)
  BY <1>1, <1>12 DEF Whole, Steady, Identified
<1>17. Idle(q)
  BY <1>6 DEF Idle
<1> QED
  BY <1>13, <1>14, <1>15, <1>16, <1>17 DEF Whole, TestWorker

\* Nothing is finalized: on to the next execution, or to the end.
LEMMA FinalizeNothing ==
    ASSUME Calm, process.hook = "finalize",
           scene.scope # "test" \/ process.recording = None,
           process' = Advance(process), Settle(process') = process',
           Silent(process', process),
           NEW q, q = Settle(process'), Follows(q)
    PROVE  Whole(q)
<1> DEFINE p == process
<1>1. /\ DOMAIN p = ProcessFields /\ Posed(p) /\ Whole(p) /\ scene \in Scenes
      /\ p.retry \in Nat /\ p.at \in Nat /\ p.try \in Nat
  BY PlaceExecution DEF Calm, Posed
<1>2. /\ Like(Advance(p), p, {"try", "at", "bad", "result", "hook"})
      /\ \/ /\ Advance(p).hook = "begin"
            /\ Advance(p).at = p.at /\ Advance(p).try = p.try + 1
         \/ /\ Advance(p).hook = "begin"
            /\ Advance(p).at = p.at + 1 /\ Advance(p).try = 0
         \/ /\ Advance(p).hook = "teardown"
            /\ Advance(p).at = p.at /\ Advance(p).try = p.try
  BY <1>1, AdvanceLike
<1>3. /\ q.chromium = p.chromium /\ q.reason = p.reason /\ q.resume = p.resume
      /\ q.outcomes = p.outcomes /\ q.seen = p.seen /\ q.begun = p.begun
      /\ q.retry = p.retry /\ q.recording = p.recording /\ q.active = p.active
      /\ q.tasks = p.tasks /\ q.draft = p.draft /\ q.last = p.last
      /\ q.failed = p.failed
      /\ \/ q.hook = "begin" /\ q.at = p.at /\ q.try = p.try + 1
         \/ q.hook = "begin" /\ q.at = p.at + 1 /\ q.try = 0
         \/ q.hook = "teardown" /\ q.at = p.at /\ q.try = p.try
  BY <1>2 DEF Like, ProcessFields
<1>4. q.completed = p.completed
  BY DEF Silent
<1>5. /\ ElapsedOf(p) \subseteq ElapsedOf(q) /\ Place(p) \in ElapsedOf(p)
      /\ \A o \in Range(p.outcomes) : o.execution \in ElapsedOf(p)
      /\ \A o \in Range(p.outcomes) : o.execution[1] = p.retry
  BY <1>1, LaterElapsed, HeardHere DEF Follows, Calm, HeardOf, GoodOutcome, Posed
<1> HIDE DEF p
<1>6. p = process /\ p.hook = "finalize"
  BY DEF p
<1>7. Steady(q) /\ Identified(q) /\ Drafted(q)
  BY <1>1, <1>3 DEF Whole, Steady, Identified, Drafted
<1>8. Counted(q)
  BY <1>1, <1>3, <1>6, CountedAdvance DEF Whole
<1>9. Completing(q)
  <2>1. Work(q) = Work(p)
    BY <1>3, <1>6 DEF Work
  <2> QED
    BY <1>1, <1>3, <1>4, <1>6, <2>1, CompletingSame DEF Whole
<1>10. scene.scope = "test" => TestWorker(q)
  <2> HAVE scene.scope = "test"
  <2>1. Idle(p)
    BY <1>1, <1>6 DEF Whole, TestWorker, TestFilm, Aside
  <2>2. Idle(q)
    BY <1>3, <2>1 DEF Idle
  <2> QED
    BY <1>3, <2>2 DEF TestWorker
<1>11. \A o \in Range(q.outcomes) : o.execution[2] # p.at + 1
  <2> TAKE o \in Range(q.outcomes)
  <2>1. /\ o.execution \in Executions /\ o.execution[1] = p.retry
        /\ Earlier(o.execution, Place(p)) \/ o.execution = Place(p)
    BY <1>3, <1>5 DEF ElapsedOf
  <2>2. o.execution[2] <= p.at
    BY <1>1, <2>1, PlaceFacts DEF Earlier, Executions
  <2>3. o.execution[2] \in Nat
    BY <2>1 DEF Executions
  <2> QED
    BY <1>1, <2>2, <2>3
<1>12. /\ ~Over(p)
       /\ ~Over(q) => q.at = p.at \/ q.at = p.at + 1
  BY <1>3, <1>6 DEF Over
<1>13. scene.scope = "spec" => SpecWorker(q)
  <2> HAVE scene.scope = "spec"
  <2>1. Failed(q) <=> \E o \in Range(q.outcomes) : o.result = "failed"
    BY <1>1, <1>3, <1>6 DEF Whole, SpecWorker, Failed
  <2>2. ASSUME Idle(p), NoFilm(p) PROVE Idle(q) /\ NoFilm(q)
    <3>1. Idle(q)
      BY <1>3, <2>2 DEF Idle
    <3>2. NoFilm(q)
      BY <1>3, <1>11, <1>12, <2>2 DEF NoFilm
    <3> QED
      BY <3>1, <3>2
  <2>3. ASSUME SpecFilm(p) PROVE SpecFilm(q)
    <3>1. Covered(q) = Covered(p) /\ Coming(q) = Coming(p)
      BY <1>3, <1>6 DEF Covered, Coming
    <3>2. \E o \in Covered(q) : q.draft.attempt = o.retry + 1
      BY <1>3, <1>6, <2>3, <3>1 DEF SpecFilm
    <3>3. \A x \in q.draft.covers :
             x[1] = q.retry /\ (x \in ElapsedOf(q) \/ x = Place(q))
      BY <1>3, <1>5, <2>3 DEF SpecFilm
    <3>4. ~Over(q) =>
             \A o \in Range(q.outcomes) : o.execution[2] = q.at =>
                \/ o.execution \in q.draft.covers
                \/ scene.attempts = "retries" /\ o.retry = 0
      BY <1>3, <1>11, <1>12, <2>3 DEF SpecFilm
    <3>5. /\ q.draft # NoDraft /\ q.recording # None /\ scene.chromium
          /\ q.active \in Nat
          /\ \A o \in Covered(q) : Recordable(o) => o.retry <= q.active
          /\ q.active > 0 => \E o \in Covered(q) : o.retry > 0
          /\ scene.attempts = "retries" => q.active > 0
      BY <1>3, <1>6, <2>3, <3>1 DEF SpecFilm
    <3>6. Coming(q) = CombineResults(ResultsOf(Covered(q)))
      BY <2>3, <3>1 DEF SpecFilm
    <3> QED
      BY <1>3, <3>2, <3>3, <3>4, <3>5, <3>6 DEF SpecFilm
  <2>4. (Idle(p) /\ NoFilm(p)) \/ SpecFilm(p)
    BY <1>1, <1>6 DEF Whole, SpecWorker
  <2> QED
    BY <1>3, <2>1, <2>2, <2>3, <2>4 DEF SpecWorker
<1> QED
  BY <1>7, <1>8, <1>9, <1>10, <1>13 DEF Whole

LEMMA FinalizeWhole ==
    ASSUME Calm, NEW media, FinalizeTest(media),
           faults' = faults, faults \in Nat,
           NEW q, q = Settle(process'), Follows(q)
    PROVE  Whole(q)
<1>1. DOMAIN process = ProcessFields
  BY DEF Calm, Posed
<1> QED
  BY <1>1, FinalizeEffect, FinalizeFilm, FinalizeNothing

----------------------------------------------------------------------------
(* The recording of a spec file is finalized, the worker torn down.        *)

\* The entry of a spec file that was filmed tells what is heard of it.
LEMMA SpecTold ==
    ASSUME Calm, process.hook = "teardown", scene.scope = "spec",
           SpecFilm(process), GoodDraft(process.draft),
           NEW keep \in BOOLEAN,
           scene.retain = "all" => keep,
           scene.retain = "retries" => (keep <=> process.active > 0),
           scene.retain = "on-failure" => (keep <=> process.failed),
           NEW e, Proper(e), e.covers = process.draft.covers,
           e.attempt = process.draft.attempt, e.scope = "spec",
           e.result = process.draft.result,
           e.decision = IF keep THEN "recorded" ELSE "discarded"
    PROVE  SettledIn(e, process)
<1> DEFINE p == process
           O == OutcomesIn(e, HeardOf(process))
           J == JudgedIn(e, HeardOf(process))
<1>1. /\ Posed(p) /\ Whole(p) /\ scene \in Scenes /\ SpecFilm(p)
      /\ \A o \in Range(p.outcomes) : o.execution[1] = p.retry
      /\ \A o \in Reported : o.execution[1] # p.retry
      /\ \A o \in HeardOf(p) : GoodOutcome(o, ElapsedOf(p))
  BY DEF Calm, Posed
<1>2. /\ \A x \in e.covers : x[1] = p.retry /\ (x \in ElapsedOf(p) \/ x = Place(p))
      /\ p.active \in Nat /\ p.draft.attempt = e.attempt
      /\ p.draft.result = e.result /\ e.covers = p.draft.covers
      /\ p.hook = "teardown" /\ p.resume = "exit"
  BY <1>1 DEF SpecFilm, Whole, Steady
<1>3. O = Covered(p)
  BY <1>1, <1>2 DEF OutcomesIn, Covered, HeardOf
<1>4. \A o \in O : o.retry \in Nat
  <2>1. \A o \in HeardOf(p) : o.execution \in Executions /\ o.retry = Level(o.execution)
    BY <1>1 DEF GoodOutcome, ElapsedOf
  <2> QED
    BY <2>1, LevelFacts DEF OutcomesIn
<1>5. scene.retain = "on-failure" => (keep <=> Failed(p))
  BY <1>2 DEF Failed
<1>6. e.covers \subseteq ElapsedOf(p)
  <2>1. ~Ahead(p) /\ Place(p) \in Executions
    BY <1>1, <1>2, PlaceExecution DEF Ahead
  <2>2. Place(p) \in ElapsedOf(p)
    BY <2>1 DEF ElapsedOf
  <2> QED
    BY <1>2, <2>2
<1>7. p.retry \in ClosedOf(p)
  BY <1>1, <1>2, PlaceExecution DEF ClosedOf, Over
<1>8. O # {} => J = Range(p.outcomes)
  <2> HAVE O # {}
  <2>1. PICK y \in O : TRUE
    OBVIOUS
  <2>2. \A x \in O : x.execution[1] = p.retry
    BY <1>1, <1>3 DEF Covered
  <2>3. J = {o \in HeardOf(p) : \E x \in O : o.execution[1] = x.execution[1]}
    BY DEF JudgedIn
  <2>4. J = {o \in HeardOf(p) : o.execution[1] = p.retry}
    BY <2>1, <2>2, <2>3
  <2> QED
    BY <1>1, <2>4 DEF HeardOf
<1>9. p = process /\ O = OutcomesIn(e, HeardOf(p)) /\ J = JudgedIn(e, HeardOf(p))
      /\ e.decision = IF keep THEN "recorded" ELSE "discarded"
  OBVIOUS
<1> HIDE DEF p, O, J
<1>10. ASSUME O # {} PROVE Told(e, O, J)
  <2>1. {o.result : o \in O} = ResultsOf(Covered(p))
    BY <1>3 DEF ResultsOf
  <2>2. e.result = CombineResults({o.result : o \in O})
    BY <1>1, <1>2, <2>1 DEF SpecFilm, Coming
  <2>3. scene.retain = "on-failure" => (keep <=> \E o \in J : o.result = "failed")
    BY <1>1, <1>2, <1>5, <1>8, <1>10 DEF Whole, SpecWorker
  <2>4. \E o \in O : o.retry = e.attempt - 1
    BY <1>1, <1>2, <1>3, <1>4 DEF SpecFilm
  <2>5. p.active > 0 => \E o \in O : o.retry > 0
    BY <1>1, <1>2, <1>3 DEF SpecFilm
  <2>6. \A o \in O : o.retry \in Nat /\ (Recordable(o) => o.retry <= p.active)
    BY <1>1, <1>3, <1>4 DEF SpecFilm
  <2>7. scene.attempts = "retries" => p.active > 0
    BY <1>1 DEF SpecFilm
  <2> QED
    BY <1>1, <1>2, <1>9, <2>2, <2>3, <2>4, <2>5, <2>6, <2>7, FinishTold
<1> QED
  BY <1>2, <1>6, <1>7, <1>9, <1>10 DEF SettledIn, SettledBy, ToldBy

\* The recording of a spec file is finalized.
LEMMA TeardownFilm ==
    ASSUME Calm, process.hook = "teardown",
           scene.scope = "spec", process.recording # None,
           FinishOf(process', process, ~process.failed, "unknown", "done", "flush"),
           NEW q, q = Settle(process'), Follows(q)
    PROVE  Whole(q)
<1> DEFINE p == process
           keep == ShouldRetain(scene.retain, ~process.failed, p.active)
           options == FinishedOptions(p, keep, "unknown")
           told == CombineResults({p.draft.result, "unknown"})
           e == BuildEntry(p.draft, options, told)
<1>1. DOMAIN p = ProcessFields /\ Posed(p) /\ Whole(p) /\ scene \in Scenes
  BY DEF Calm, Posed
<1>2. SpecFilm(p) /\ GoodDraft(p.draft) /\ p.draft # NoDraft
  BY <1>1 DEF Whole, SpecWorker, Idle, SpecFilm, Drafted
<1>3. /\ keep \in BOOLEAN
      /\ scene.retain = "all" => keep
      /\ scene.retain = "retries" => (keep <=> p.active > 0)
      /\ scene.retain = "on-failure" => (keep <=> p.failed)
  <2>1. (~process.failed) \in BOOLEAN
    OBVIOUS
  <2> QED
    BY <1>1, <2>1, RetainFacts
<1>4. told = p.draft.result /\ told \in Results
  BY <1>2, CombinesOne DEF GoodDraft
<1>5. /\ Like(q, Continue(p, "flush"),
              {"recording", "active", "tasks", "draft", "last", "completed",
               "write", "then"})
      /\ q.recording = None /\ q.draft = NoDraft
      /\ Writes(process', p, e, "flush")
      /\ q.tasks = IF options.outcome = "pending"
                   THEN Append(p.tasks, p.draft.id) ELSE p.tasks
  BY <1>2 DEF FinishOf
<1>6. q.completed = Kept(p.completed, e)
  BY <1>5 DEF Writes
<1> HIDE DEF keep, options, told
<1>7. /\ Proper(e) /\ e.covers = p.draft.covers
      /\ e.attempt = p.draft.attempt /\ e.scope = scene.scope
      /\ e.result = told /\ e.decision = IF keep THEN "recorded" ELSE "discarded"
  BY <1>1, <1>2, <1>3, <1>4, FinishProper DEF options
<1> HIDE DEF e
<1>8. SettledIn(e, p)
  BY <1>2, <1>3, <1>4, <1>7, SpecTold
<1>9. Like(Continue(p, "flush"), p, {"hook"}) /\ Continue(p, "flush").hook = "flush"
  BY <1>1, ContinueLike
<1>10. /\ q.chromium = p.chromium /\ q.reason = p.reason /\ q.resume = p.resume
       /\ q.outcomes = p.outcomes /\ q.seen = p.seen /\ q.begun = p.begun
       /\ q.hook = "flush" /\ q.at = p.at /\ q.try = p.try /\ q.failed = p.failed
  BY <1>5, <1>9 DEF Like, ProcessFields
<1>11. Drafted(q) /\ Completing(q)
  BY <1>1, <1>2, <1>3, <1>4, <1>5, <1>6, <1>8, <1>10, FinishCompletes
     DEF e, options
<1>12. Counted(q)
  BY <1>1, <1>10, CountedSame DEF Whole
<1>13. Steady(q) /\ Identified(q)
  BY <1>1, <1>10 DEF Whole, Steady, Identified
<1>14. Idle(q)
  BY <1>5 DEF Idle
<1>15. Failed(q) <=> \E o \in Range(q.outcomes) : o.result = "failed"
  BY <1>1, <1>10 DEF Whole, SpecWorker, Failed
<1> QED
  BY <1>10, <1>11, <1>12, <1>13, <1>14, <1>15 DEF Whole, SpecWorker

\* What is left when no recording is there: hooks that touch no entry.
LEMMA IdleWhole ==
    ASSUME Calm, process.hook \in {"teardown", "flush"}, Idle(process),
           NEW q, Follows(q),
           Like(q, process, {"seen", "failed", "active", "overlapRecorded",
                             "hook", "resume", "recording"}),
           q.completed = process.completed, q.recording = None, q.resume = "exit",
           \/ /\ q.hook = "flush" /\ q.seen = process.seen
              /\ q.failed = process.failed
           \/ q.hook = "exit" /\ q.seen = <<>>
    PROVE  Whole(q)
<1> DEFINE p == process
<1>1. Posed(p) /\ Whole(p) /\ scene \in Scenes
  BY DEF Calm
<1>2. /\ q.chromium = p.chromium /\ q.reason = p.reason
      /\ q.outcomes = p.outcomes /\ q.begun = p.begun
      /\ q.at = p.at /\ q.try = p.try /\ q.draft = p.draft /\ q.tasks = p.tasks
  BY DEF Like, ProcessFields
<1>3. Steady(q) /\ Identified(q)
  BY <1>1, <1>2 DEF Whole, Steady, Identified
<1>4. Drafted(q) /\ Idle(q)
  BY <1>1, <1>2 DEF Idle, Drafted
<1>5. Completing(q)
  <2>1. Work(p) = {} /\ Work(q) = {}
    BY <1>2 DEF Work, Idle
  <2> QED
    BY <1>1, <1>2, <2>1, CompletingSame DEF Whole
<1>6. Counted(q)
  BY <1>1, <1>2, CountedSame, CountedReset DEF Whole
<1>7. q.hook = "flush" /\ scene.scope = "spec" =>
         (Failed(q) <=> \E o \in Range(q.outcomes) : o.result = "failed")
  BY <1>1, <1>2 DEF Whole, SpecWorker, Failed
<1> QED
  BY <1>3, <1>4, <1>5, <1>6, <1>7 DEF Whole, TestWorker, SpecWorker

LEMMA TeardownWhole ==
    ASSUME Calm, NEW media, Teardown(media),
           faults' = faults, faults \in Nat,
           NEW q, q = Settle(process'), Follows(q)
    PROVE  Whole(q)
<1> DEFINE p == process
<1>1. DOMAIN p = ProcessFields /\ Posed(p) /\ Whole(p) /\ scene \in Scenes
  BY DEF Calm, Posed
<1>2. /\ p.hook = "teardown" /\ media = "done"
      /\ \/ /\ scene.scope = "spec" /\ p.recording # None
            /\ FinishOf(process', p, ~p.failed, "unknown", media, "flush")
         \/ /\ scene.scope # "spec" \/ p.recording = None
            /\ Like(q, p, {"hook", "recording", "active"})
            /\ q.hook = "flush" /\ q.recording = None
            /\ Silent(process', p)
  BY <1>1, TeardownEffect
<1>3. CASE scene.scope = "spec" /\ p.recording # None
  BY <1>2, <1>3, TeardownFilm
<1>4. CASE scene.scope # "spec" \/ p.recording = None
  <2>1. Idle(p)
    BY <1>1, <1>2, <1>4, SceneFacts DEF Whole, TestWorker, SpecWorker, SpecFilm, Idle
  <2>2. /\ q.seen = p.seen /\ q.failed = p.failed /\ q.resume = "exit"
        /\ q.completed = p.completed
    BY <1>1, <1>2, <1>4 DEF Like, ProcessFields, Whole, Steady, Silent, Settle
  <2>3. Like(q, p, {"seen", "failed", "active", "overlapRecorded", "hook",
                    "resume", "recording"})
    BY <1>2, <1>4 DEF Like
  <2> QED
    BY <1>2, <1>4, <2>1, <2>2, <2>3, IdleWhole
<1> QED
  BY <1>3, <1>4

LEMMA FlushedWhole ==
    ASSUME Calm, EndTeardown, NEW q, q = Settle(process'), Follows(q)
    PROVE  Whole(q)
<1> DEFINE p == process
<1>1. DOMAIN p = ProcessFields /\ Posed(p) /\ Whole(p) /\ scene \in Scenes
      /\ p.resume = "exit"
  BY DEF Calm, Posed, Whole, Steady
<1>2. /\ Like(q, p, {"seen", "failed", "active", "overlapRecorded", "hook",
                     "resume"})
      /\ p.hook = "flush" /\ q.hook = "exit" /\ q.resume = "exit"
      /\ Silent(process', p)
  BY <1>1, FlushedEffect
<1>3. q.seen = <<>>
  BY <1>1, <1>2 DEF EndTeardown, ResetWorkerState, ProcessFields, Settle, Silent
<1>4. Idle(p)
  BY <1>1, <1>2, SceneFacts DEF Whole, TestWorker, SpecWorker
<1>5. q.completed = p.completed /\ q.recording = None
  BY <1>2, <1>4 DEF Silent, Settle, Like, ProcessFields, Idle
<1>6. Like(q, p, {"seen", "failed", "active", "overlapRecorded", "hook",
                  "resume", "recording"})
  BY <1>2 DEF Like
<1> QED
  BY <1>2, <1>3, <1>4, <1>5, <1>6, IdleWhole

----------------------------------------------------------------------------
(* Deferred tasks end; every step of a worker.                             *)

\* A deferred task ends: its entry says as before what it told.
LEMMA DeferredWhole ==
    ASSUME Calm, NEW whole, CompleteDeferred(whole),
           faults' = faults, faults \in Nat,
           NEW q, q = Settle(process'), Follows(q)
    PROVE  Whole(q)
<1> DEFINE p == process
<1>1. DOMAIN p = ProcessFields /\ Posed(p) /\ Whole(p) /\ scene \in Scenes
  BY DEF Calm, Posed
<1>2. PICK e : e = CHOOSE x \in p.completed : x.id = Head(p.tasks)
  OBVIOUS
<1>3. /\ Like(q, p, {"tasks", "completed", "write", "then"})
      /\ p.hook = "flush" /\ p.tasks # <<>> /\ q.tasks = Tail(p.tasks)
      /\ \E outcome, decision, operation, reason :
            /\ Writes(process', p,
                  [e EXCEPT !.timing = "after-worker",
                            !.outcome = outcome, !.decision = decision,
                            !.operation = operation, !.reason = reason],
                  "flush")
            /\ operation = Operation(scene.processing)
            /\ outcome = "completed" /\ decision = "recorded"
            /\ reason = None
  BY <1>1, <1>2, DeferredEffect
<1>4. PICK operation :
         /\ operation = Operation(scene.processing)
         /\ Writes(process', p,
                  [e EXCEPT !.timing = "after-worker",
                            !.outcome = "completed", !.decision = "recorded",
                            !.operation = operation, !.reason = None],
                  "flush")
  BY <1>3
<1>5. /\ e \in p.completed /\ DOMAIN e = EntryFields
      /\ e.id \in Range(p.tasks) /\ Range(Tail(p.tasks)) \subseteq Range(p.tasks)
  BY <1>2, <1>3, TaskEntry DEF Calm
<1> DEFINE f == [e EXCEPT !.timing = "after-worker",
                          !.outcome = "completed", !.decision = "recorded",
                          !.operation = operation, !.reason = None]
<1>6. Idle(p)
  BY <1>1, <1>3, SceneFacts DEF Whole, TestWorker, SpecWorker
<1>7. Work(p) = {}
  BY <1>3, <1>6 DEF Work, Idle
<1>8. SettledIn(e, p) /\ e.decision = "recorded" /\ Proper(e)
  BY <1>1, <1>5, <1>7 DEF Whole, Completing
<1>9. /\ f.id = e.id /\ f.run = e.run /\ f.cid = e.cid /\ f.spec = e.spec
      /\ f.test = e.test /\ f.scope = e.scope /\ f.attempt = e.attempt
      /\ f.result = e.result /\ f.segments = e.segments /\ f.covers = e.covers
      /\ f.decision = "recorded" /\ f.outcome = "completed"
      /\ f.timing = "after-worker" /\ f.operation = operation
  BY <1>5 DEF EntryFields
<1>10. q.completed = Kept(p.completed, f)
  BY <1>4 DEF Writes
<1> HIDE DEF f, p
<1>11. p = process
  BY DEF p
<1>12. Proper(f)
  <2>1. operation \in {None, "capture", "merge", "transcode"}
    BY <1>4 DEF Operation
  <2>2. ValidCapture(f) /\ ValidProcessing(f)
    BY <1>8, <1>9, <2>1 DEF Proper, ValidEntry, ValidCapture, ValidProcessing
  <2>3. ValidEntry(f)
    BY <1>8, <1>9, <2>2 DEF Proper, ValidEntry
  <2> QED
    BY <1>8, <1>9, <2>3 DEF Proper
<1>13. SettledIn(f, p)
  <2>1. /\ OutcomesIn(f, HeardOf(p)) = OutcomesIn(e, HeardOf(p))
        /\ JudgedIn(f, HeardOf(p)) = JudgedIn(e, HeardOf(p))
    BY <1>9 DEF OutcomesIn, JudgedIn
  <2>2. ToldBy(f, HeardOf(p))
    BY <1>8, <1>9, <2>1 DEF SettledIn, SettledBy, ToldBy, Told
  <2> QED
    BY <1>8, <1>9, <1>12, <2>2 DEF SettledIn, SettledBy
<1>14. SettledIn(f, q)
  BY <1>1, <1>11, <1>13, SettledFollows
<1>15. /\ q.chromium = p.chromium /\ q.reason = p.reason /\ q.resume = p.resume
       /\ q.outcomes = p.outcomes /\ q.seen = p.seen /\ q.begun = p.begun
       /\ q.hook = "flush" /\ q.at = p.at /\ q.try = p.try /\ q.failed = p.failed
       /\ q.draft = p.draft /\ q.recording = p.recording /\ q.result = p.result
  BY <1>3 DEF Like, ProcessFields
<1>16. Completing(q)
  <2>1. Range(q.tasks) \subseteq Range(p.tasks)
    BY <1>3, <1>5
  <2> QED
    BY <1>1, <1>7, <1>9, <1>10, <1>11, <1>12, <1>14, <2>1, CompletingKept
       DEF Whole
<1>17. Drafted(q) /\ Idle(q)
  BY <1>1, <1>6, <1>15 DEF Idle, Drafted, Whole
<1>18. Counted(q)
  BY <1>1, <1>15, CountedSame DEF Whole
<1>19. Steady(q) /\ Identified(q)
  BY <1>1, <1>15 DEF Whole, Steady, Identified
<1>20. scene.scope = "spec" =>
         (Failed(q) <=> \E o \in Range(q.outcomes) : o.result = "failed")
  BY <1>1, <1>3, <1>15 DEF Whole, SpecWorker, Failed
<1> QED
  BY <1>15, <1>16, <1>17, <1>18, <1>19, <1>20 DEF Whole, TestWorker, SpecWorker

\* Unless something goes wrong, the worker is whole after each of its steps.
LEMMA WorkerWhole ==
    ASSUME Calm, WorkerStep, process # NoWorker,
           ~\E reported \in BOOLEAN : ExitWorker(reported),
           faults' = faults, faults \in Nat, Follows(Settle(process'))
    PROVE  Whole(Settle(process'))
<1>1. DOMAIN process = ProcessFields /\ process.reason # Parallel
  BY DEF Calm, Posed, Whole, Steady
<1>2. CASE \E pid \in Pids : StartWorker(pid)
  BY <1>2 DEF StartWorker
<1>3. CASE RecordParallelEntity
  BY <1>1, <1>3, ParallelEffect
<1>4. CASE JoinSpecEntry
  BY <1>4, JoinWhole
<1>5. CASE BeginEntity
  BY <1>5, BeginWhole
<1>6. CASE SkipIneligible
  BY <1>6, SkipWhole
<1>7. CASE SkipFirstAttempt
  BY <1>7, FirstWhole
<1>8. CASE ContinueSpec
  BY <1>8, GoOnWhole
<1>9. CASE StartRecording
  BY <1>9, StartWhole
<1>10. CASE \E disables \in BOOLEAN : StartFails(disables)
  BY <1>1, <1>10, StartFailsEffect
<1>11. CASE \E result \in {"passed", "failed", "skipped"} : RunTest(result)
  BY <1>11, TestWhole
<1>12. CASE \E chromium \in BOOLEAN : ReloadSession(chromium)
  BY <1>1, <1>12, ReloadEffect
<1>13. CASE EndEntity
  BY <1>13, EndWhole
<1>14. CASE \E media \in {"done", "capture-failed", "error"} : FinalizeTest(media)
  BY <1>14, FinalizeWhole
<1>15. CASE \E media \in {"done", "capture-failed", "error"} : Teardown(media)
  BY <1>15, TeardownWhole
<1>16. CASE \E whole \in BOOLEAN : CompleteDeferred(whole)
  BY <1>16, DeferredWhole
<1>17. CASE EndTeardown
  BY <1>17, FlushedWhole
<1> QED
  BY <1>2, <1>3, <1>4, <1>5, <1>6, <1>7, <1>8, <1>9, <1>10, <1>11, <1>12,
     <1>13, <1>14, <1>15, <1>16, <1>17 DEF WorkerStep

----------------------------------------------------------------------------
(* What a step of a worker completes.                                      *)

\* A step completes at most the entry it writes, and forgets no outcome.
Adds(q, p) ==
    \/ q.hook # "write" /\ Settle(q).completed = p.completed
    \/ q.hook = "write" /\ Settle(q).completed = Kept(p.completed, q.write)
Grows(q, p) ==
    Adds(q, p) /\ Range(p.outcomes) \subseteq Range(Settle(q).outcomes)

LEMMA WritesAdds ==
    ASSUME NEW q, NEW p, Silent(q, p) \/ \E e, then : Writes(q, p, e, then)
    PROVE  Adds(q, p)
BY DEF Silent, Writes, Adds, Settle

LEMMA SkipOfAdds ==
    ASSUME NEW q, NEW p, NEW reason, SkipOf(q, p, reason)
    PROVE  Adds(q, p)
BY WritesAdds DEF SkipOf

LEMMA FinishOfAdds ==
    ASSUME NEW q, NEW p, NEW passed, NEW result, NEW media, NEW then,
           FinishOf(q, p, passed, result, media, then)
    PROVE  Adds(q, p)
BY WritesAdds DEF FinishOf

LEMMA WorkerGrows ==
    ASSUME Ready, process # NoWorker, WorkerStep,
           ~\E reported \in BOOLEAN : ExitWorker(reported)
    PROVE  Grows(process', process)
<1> DEFINE p == process
           q == Settle(process')
           m == Attempted
<1>1. /\ DOMAIN p = ProcessFields /\ p.resume \in {"exit", "test"}
      /\ p.outcomes \in Seq(Range(p.outcomes))
      /\ p.draft # NoDraft => DOMAIN p.draft = DraftFields
  BY DEF Ready, Posed, Holds
<1>2. q.outcomes = p.outcomes /\ Adds(process', p) => Grows(process', p)
  BY DEF Grows
<1>3. m.outcomes = p.outcomes /\ m.completed = p.completed
  <2>1. Like(m, p, {"seen", "draft"})
    BY <1>1, AttemptedLike
  <2> HIDE DEF m, p
  <2> QED
    BY <2>1 DEF Like, ProcessFields
<1>4. CASE RecordParallelEntity
  <2>1. /\ Like(q, p, {"hook", "completed", "write", "then", "begun",
                       "overlapRecorded"})
        /\ Adds(process', p)
    BY <1>1, <1>4, ParallelEffect, WritesAdds
  <2> HIDE DEF p, q
  <2> QED
    BY <1>2, <2>1 DEF Like, ProcessFields, p
<1>5. CASE JoinSpecEntry
  <2>0. p.draft # NoDraft
    BY <1>5 DEF JoinSpecEntry
  <2>1. /\ Like(q, p, {"hook", "already", "draft"}) /\ Adds(process', p)
    BY <1>1, <1>5, <2>0, JoinEffect, WritesAdds
  <2> HIDE DEF p, q
  <2> QED
    BY <1>2, <2>1 DEF Like, ProcessFields, p
<1>6. CASE BeginEntity
  <2>1. /\ Like(q, p, {"hook", "completed", "write", "then", "begun",
                       "already", "draft"})
        /\ Adds(process', p)
    BY <1>1, <1>6, BeginEffect, WritesAdds
  <2> HIDE DEF p, q
  <2> QED
    BY <1>2, <2>1 DEF Like, ProcessFields, p
<1>7. CASE SkipIneligible \/ SkipFirstAttempt
  <2>1. \E s \in {p, m} : \E reason : SkipOf(process', s, reason)
    BY <1>1, <1>7, SkipEffect, FirstEffect
  <2>2. PICK s \in {p, m} : \E reason : SkipOf(process', s, reason)
    BY <2>1
  <2>3. /\ Like(q, s, {"hook", "completed", "write", "then", "draft", "last"})
        /\ Adds(process', s)
    BY <2>2, SkipOfAdds DEF SkipOf
  <2> HIDE DEF p, q, m
  <2>4. q.outcomes = s.outcomes
    BY <2>3 DEF Like, ProcessFields
  <2>5. s.outcomes = p.outcomes /\ s.completed = p.completed
    BY <1>3, <2>2
  <2> QED
    BY <1>2, <2>3, <2>4, <2>5 DEF Adds, p
<1>8. CASE ContinueSpec \/ StartRecording
  <2>1. /\ \/ Like(q, m, {"hook", "active"})
           \/ Like(q, m, {"hook", "active", "recording"})
        /\ Adds(process', p)
    BY <1>1, <1>8, GoOnEffect, StartEffect, WritesAdds
  <2> HIDE DEF p, q, m
  <2>2. q.outcomes = m.outcomes
    BY <2>1 DEF Like, ProcessFields
  <2> QED
    BY <1>2, <1>3, <2>1, <2>2 DEF p
<1>9. ASSUME NEW disables, StartFails(disables) PROVE Grows(process', p)
  <2>1. /\ Like(q, m, {"hook", "completed", "write", "then", "draft",
                       "last", "recording", "active", "reason"})
        /\ Adds(process', p)
    BY <1>1, <1>9, StartFailsEffect, WritesAdds
  <2> HIDE DEF p, q, m
  <2>2. q.outcomes = m.outcomes
    BY <2>1 DEF Like, ProcessFields
  <2> QED
    BY <1>2, <1>3, <2>1, <2>2 DEF p
<1>10. ASSUME NEW result, RunTest(result) PROVE Grows(process', p)
  <2>1. q.outcomes = Captured(p.outcomes, result) /\ Adds(process', p)
    BY <1>1, <1>10, TestEffect, WritesAdds
  <2> QED
    BY <1>1, <2>1, CapturedAdds DEF Grows
<1>11. ASSUME NEW chromium, ReloadSession(chromium) PROVE Grows(process', p)
  <2>1. /\ Like(q, p, {"hook", "resume", "chromium", "reloaded"})
        /\ Adds(process', p)
    BY <1>1, <1>11, ReloadEffect, WritesAdds
  <2> HIDE DEF p, q
  <2> QED
    BY <1>2, <2>1 DEF Like, ProcessFields, p
<1>12. CASE EndEntity
  <2>1. CASE p.reason = Parallel
    <3>1. q = Advance(p) /\ Adds(process', p)
      BY <1>1, <1>12, <2>1, EndParallelEffect, WritesAdds
    <3>2. q.outcomes = p.outcomes
      BY <1>1, <3>1, AdvanceLike DEF Like, ProcessFields
    <3> QED
      BY <1>2, <3>1, <3>2
  <2>2. CASE p.reason # Parallel
    <3>1. /\ Like(q, p, {"hook", "failed", "draft", "completed", "write",
                         "then"})
          /\ Adds(process', p)
      BY <1>1, <1>12, <2>2, EndEffect, WritesAdds
    <3> HIDE DEF p, q
    <3> QED
      BY <1>2, <3>1 DEF Like, ProcessFields, p
  <2> QED
    BY <2>1, <2>2
<1>13. ASSUME NEW media, FinalizeTest(media) PROVE Grows(process', p)
  <2>1. \/ FinishOf(process', p, NonFailing(TestOutcome),
                    TestOutcome.manifestResult, media, "next")
        \/ q = Advance(p) /\ Silent(process', p)
    BY <1>1, <1>13, FinalizeEffect
  <2>2. Adds(process', p)
    BY <2>1, FinishOfAdds, WritesAdds
  <2>3. Like(q, Advance(p), {"recording", "active", "tasks", "draft",
                             "last", "completed", "write", "then"})
    <3>1. Continue(p, "next") = Advance(p)
      BY DEF Continue
    <3>2. Like(Advance(p), Advance(p), {})
      BY <1>1, AdvanceLike DEF Like
    <3> QED
      BY <2>1, <3>1, <3>2 DEF FinishOf, Like
  <2>4. Like(Advance(p), p, {"try", "at", "bad", "result", "hook"})
    BY <1>1, AdvanceLike
  <2> HIDE DEF p, q
  <2>5. q.outcomes = p.outcomes
    BY <2>3, <2>4 DEF Like, ProcessFields
  <2> QED
    BY <1>2, <2>2, <2>5 DEF p
<1>14. ASSUME NEW media, Teardown(media) PROVE Grows(process', p)
  <2>1. \/ FinishOf(process', p, ~p.failed, "unknown", media, "flush")
        \/ /\ Like(q, p, {"hook", "recording", "active"})
           /\ Silent(process', p)
    BY <1>1, <1>14, TeardownEffect
  <2>2. Adds(process', p)
    BY <2>1, FinishOfAdds, WritesAdds
  <2>3. Like(Continue(p, "flush"), p, {"hook"})
    BY <1>1, ContinueLike
  <2>4. \/ Like(q, Continue(p, "flush"),
                {"recording", "active", "tasks", "draft", "last",
                 "completed", "write", "then"})
        \/ Like(q, p, {"hook", "recording", "active"})
    BY <2>1 DEF FinishOf
  <2> HIDE DEF p, q
  <2>5. q.outcomes = p.outcomes
    BY <2>3, <2>4 DEF Like, ProcessFields
  <2> QED
    BY <1>2, <2>2, <2>5 DEF p
<1>15. ASSUME NEW whole, CompleteDeferred(whole) PROVE Grows(process', p)
  <2>1. PICK e : e = CHOOSE x \in process.completed : x.id = Head(process.tasks)
    OBVIOUS
  <2>2. /\ Like(q, p, {"tasks", "completed", "write", "then"})
        /\ Adds(process', p)
    BY <1>1, <1>15, <2>1, DeferredEffect, WritesAdds
  <2> HIDE DEF p, q
  <2> QED
    BY <1>2, <2>2 DEF Like, ProcessFields, p
<1>16. CASE EndTeardown
  <2>1. /\ Like(q, p, {"seen", "failed", "active", "overlapRecorded",
                       "hook", "resume"})
        /\ Adds(process', p)
    BY <1>1, <1>16, FlushedEffect, WritesAdds
  <2> HIDE DEF p, q
  <2> QED
    BY <1>2, <2>1 DEF Like, ProcessFields, p
<1>17. \A pid : ~StartWorker(pid)
  BY DEF StartWorker
<1> HIDE DEF q, m
<1> QED
  BY <1>4, <1>5, <1>6, <1>7, <1>8, <1>9, <1>10, <1>11, <1>12, <1>13, <1>14,
     <1>15, <1>16, <1>17 DEF WorkerStep

----------------------------------------------------------------------------
(* Truth of the whole run.                                                 *)

\* Whatever was recorded tells exactly, or is with the worker that is still
\* at it.
RecordedTold ==
    \A e \in recorded :
        \/ Settled(e)
        \/ /\ Alive
           /\ \/ e \in Now.completed
              \/ process.hook = "write" /\ e.id = process.write.id

\* No line is open at its end.
AllEnded(files) ==
    \A f \in DOMAIN files : \A i \in DOMAIN files[f] : files[f][i].ended

\* The worker agrees with what the reporter heard, and only what was recorded
\* gets into a journal, into a launcher's run and into the manifest.
Truth ==
    /\ Alive => Whole(Now)
    /\ RecordedTold
    /\ At(Us, "running") =>
          /\ AllEnded(journals[Us])
          /\ LatestEntries(journals[Us], Us) \subseteq recorded
    /\ launcher[Us].stage \in Stages =>
          Range(launcher[Us].run.entries) \subseteq recorded
    /\ PublishedEntries \subseteq recorded

\* As long as nothing goes wrong.
TruthInv == faults = 0 /\ scene.reason # Parallel => Truth

----------------------------------------------------------------------------
(* What is told does not depend on anything but the scene.                 *)

LEMMA SameTold ==
    ASSUME scene' = scene, NEW e, NEW past, NEW closed, NEW heard
    PROVE  SettledBy(e, past, closed, heard)' <=> SettledBy(e, past, closed, heard)
<1>1. Proper(e)' <=> Proper(e)
  BY DEF Proper, Executions
<1>2. /\ OutcomesIn(e, heard)' = OutcomesIn(e, heard)
      /\ JudgedIn(e, heard)' = JudgedIn(e, heard)
  BY DEF OutcomesIn, JudgedIn
<1>3. \A o : Recordable(o)' <=> Recordable(o)
  BY DEF Recordable
<1>4. \A O, J : Told(e, O, J)' <=> Told(e, O, J)
  BY <1>3 DEF Told
<1>5. ToldBy(e, heard)' <=> ToldBy(e, heard)
  BY <1>2, <1>4 DEF ToldBy
<1> QED
  BY <1>1, <1>5 DEF SettledBy

\* More has run, and what was not heard of before is none of what had.
Advances ==
    /\ Elapsed \subseteq Elapsed' /\ Closed \subseteq Closed'
    /\ Heard \subseteq Heard'
    /\ \A o \in Heard' : \/ o \in Heard
                         \/ /\ o.execution \notin Elapsed
                            /\ o.execution[1] \notin Closed

LEMMA SettledAdvances ==
    ASSUME scene' = scene, Advances, NEW e, Settled(e)
    PROVE  Settled(e)'
<1> DEFINE past == Elapsed
           closed == Closed
           heard == Heard
<1>1. PICK after, shut, more : after = Elapsed' /\ shut = Closed' /\ more = Heard'
  OBVIOUS
<1>2. SettledBy(e, past, closed, heard)
  BY DEF Settled
<1>3. /\ past \subseteq after /\ closed \subseteq shut /\ heard \subseteq more
      /\ \A o \in more : \/ o \in heard
                         \/ o.execution \notin past /\ o.execution[1] \notin closed
  BY <1>1 DEF Advances
<1> HIDE DEF past, closed, heard
<1>4. SettledBy(e, after, shut, more)
  BY <1>2, <1>3, SettledStays
<1>5. SettledBy(e, after, shut, more)'
  BY <1>4, SameTold
<1> QED
  BY <1>1, <1>5 DEF Settled

LEMMA SameSettledIn ==
    ASSUME UNCHANGED <<scene, fragments>>, NEW e, NEW q
    PROVE  SettledIn(e, q)' <=> SettledIn(e, q)
<1>1. PICK past, closed, heard :
         past = ElapsedOf(q) /\ closed = ClosedOf(q) /\ heard = HeardOf(q)
  OBVIOUS
<1>2. ElapsedOf(q)' = past /\ ClosedOf(q)' = closed /\ HeardOf(q)' = heard
  BY <1>1, SamePlace DEF ClosedOf, HeardOf, Over, Reported
<1>3. SettledIn(e, q)' <=> SettledBy(e, past, closed, heard)'
  BY <1>2 DEF SettledIn
<1> QED
  BY <1>1, <1>3, SameTold DEF SettledIn

LEMMA SameWhole ==
    ASSUME UNCHANGED <<scene, fragments>>, NEW q, Whole(q)
    PROVE  Whole(q)'
<1>1. Steady(q)' /\ Identified(q)'
  BY DEF Whole, Steady, Identified
<1>2. Listed(q.at)' = Listed(q.at) /\ \A i : /\ Listed(i)' = Listed(i)
                                             /\ KeyAt(i)' = KeyAt(i)
  BY DEF Listed, KeyAt, PlanAt
<1>3. Counted(q)'
  BY <1>2 DEF Whole, Counted
<1>4. Drafted(q)'
  BY DEF Whole, Drafted, GoodDraft, Executions
<1>5. Completing(q)'
  <2>1. \A e : /\ Proper(e)' <=> Proper(e)
               /\ SettledIn(e, q)' <=> SettledIn(e, q)
    BY SameSettledIn DEF Proper, Executions
  <2>2. Work(q)' = Work(q)
    BY DEF Work
  <2> QED
    BY <2>1, <2>2 DEF Whole, Completing
<1>6. \A x : Level(x)' = Level(x) /\ Unfilmed(x)' = Unfilmed(x)
  BY <1>2 DEF Level, Unfilmed
<1>7. Place(q)' = Place(q)
  BY DEF Place
<1>8. Aside(q)' <=> Aside(q)
  BY <1>6, <1>7 DEF Aside, SkippedForm, Idle
<1>9. Fresh(q)' <=> Fresh(q)
  BY <1>7 DEF Fresh
<1>10. TestFilm(q)' <=> TestFilm(q)
  BY <1>6, <1>7 DEF TestFilm
<1>11. SpecFilm(q)' <=> SpecFilm(q)
  <2>1. /\ Covered(q)' = Covered(q) /\ Coming(q)' = Coming(q)
        /\ ElapsedOf(q)' = ElapsedOf(q) /\ Over(q)' = Over(q)
        /\ \A o : Recordable(o)' = Recordable(o)
    BY SamePlace DEF Covered, Coming, Over, Recordable
  <2>2. ResultsOf(Covered(q))' = ResultsOf(Covered(q))
    BY <2>1 DEF ResultsOf
  <2> QED
    BY <1>2, <1>6, <1>7, <2>1, <2>2 DEF SpecFilm
<1>12. NoFilm(q)' <=> NoFilm(q)
  BY <1>6 DEF NoFilm, Over
<1>13. TestWorker(q)' <=> TestWorker(q)
  BY <1>8, <1>9, <1>10 DEF TestWorker, Idle
<1>14. SpecWorker(q)' <=> SpecWorker(q)
  BY <1>7, <1>8, <1>9, <1>11, <1>12 DEF SpecWorker, Idle, Failed
<1> QED
  BY <1>1, <1>3, <1>4, <1>5, <1>13, <1>14 DEF Whole

----------------------------------------------------------------------------
(* A worker starts.                                                        *)

\* What no step of the worker touches.
LEMMA StepRest ==
    ASSUME WorkerStep
    PROVE  /\ scene' = scene /\ recorded' = recorded
           /\ faults' \in {faults, faults + 1}
BY DEF WorkerStep, StartWorker, RecordParallelEntity, JoinSpecEntry,
       BeginEntity, SkipIneligible, SkipFirstAttempt, ContinueSpec,
       StartRecording, StartFails, RunTest, ReloadSession, EndEntity,
       FinalizeTest, Teardown, CompleteDeferred, EndTeardown, ExitWorker, Fault

\* What is in the journals and in the run is left alone.
LEMMA RestTold ==
    ASSUME Truth, UNCHANGED <<journals, launcher, manifest>>,
           recorded \subseteq recorded',
           Alive' => Whole(Now)', RecordedTold'
    PROVE  Truth'
<1>1. PublishedEntries' = PublishedEntries
  BY DEF PublishedEntries, OurRuns, Published
<1>2. At(Us, "running")' <=> At(Us, "running")
  BY DEF At
<1>3. LatestEntries(journals[Us], Us)' = LatestEntries(journals[Us], Us)
  BY DEF LatestEntries, Usable
<1>4. AllEnded(journals[Us])' <=> AllEnded(journals[Us])
  BY DEF AllEnded
<1>5. launcher[Us].stage \in Stages =>
         Range(launcher[Us].run.entries) \subseteq recorded
  BY DEF Truth
<1>6. PICK entries : entries = Range(launcher[Us].run.entries)
  OBVIOUS
<1>7. Range(launcher[Us].run.entries)' = entries /\ Stages' = Stages
  BY <1>6 DEF Range, Stages
<1>8. (launcher[Us].stage \in Stages =>
         Range(launcher[Us].run.entries) \subseteq recorded)'
  BY <1>5, <1>6, <1>7
<1>9. PublishedEntries' \subseteq recorded'
  BY <1>1 DEF Truth
<1>10. (At(Us, "running") =>
          /\ AllEnded(journals[Us])
          /\ LatestEntries(journals[Us], Us) \subseteq recorded)'
  BY <1>2, <1>3, <1>4 DEF Truth
<1> QED
  BY <1>8, <1>9, <1>10 DEF Truth

\* A new worker has nothing yet.
LEMMA NewWhole ==
    ASSUME scene \in Scenes, scene.reason # Parallel, NEW pid, NEW n,
           NEW q, q = NewProcess(pid, n)
    PROVE  Whole(q)
<1>1. /\ q.chromium = scene.chromium /\ q.reason = scene.reason
      /\ q.resume = "exit" /\ q.hook = "begin" /\ q.at = 1 /\ q.try = 0
      /\ q.draft = NoDraft /\ q.completed = {} /\ q.seen = <<>> /\ q.begun = <<>>
      /\ q.recording = None /\ q.failed = FALSE /\ q.tasks = <<>>
      /\ q.outcomes = <<>> /\ q.result = None
  BY DEF NewProcess
<1>2. scene.reason = None
  BY SceneFacts
<1>3. Range(<<>>) = {}
  BY DEF Range
<1>4. Steady(q)
  BY <1>1, <1>2 DEF Steady
<1>5. Identified(q)
  BY <1>1, <1>3 DEF Identified
<1>6. Counted(q)
  BY <1>1, NothingOccurs DEF Counted
<1>7. Drafted(q)
  BY <1>1 DEF Drafted
<1>8. Completing(q)
  BY <1>1 DEF Completing
<1>9. Idle(q) /\ NoFilm(q)
  BY <1>1, <1>3 DEF Idle, NoFilm
<1>10. TestWorker(q)
  BY <1>1, <1>9 DEF TestWorker
<1>11. SpecWorker(q)
  BY <1>1, <1>3, <1>9 DEF SpecWorker, Failed
<1> QED
  BY <1>4, <1>5, <1>6, <1>7, <1>8, <1>10, <1>11 DEF Whole

LEMMA StartTruth ==
    ASSUME WorkerSound, Truth, scene.reason # Parallel, NEW pid, StartWorker(pid),
           UNCHANGED <<journals, launcher, manifest>>
    PROVE  Truth'
<1>1. /\ process = NoWorker /\ ~Alive /\ scene \in Scenes
      /\ UNCHANGED <<scene, fragments, recorded>>
      /\ starts \in Seq({TheKey}) /\ Len(starts) \in Nat
      /\ process' = NewProcess(pid, Len(starts))
  BY OneKey, AllOccur DEF StartWorker, WorkerSound, Alive
<1>2. PICK q : q = process'
  OBVIOUS
<1>3. PICK n : n = Len(starts)
  OBVIOUS
<1>4. /\ "pid" \in DOMAIN q /\ q.retry = n /\ q.hook = "begin" /\ q.outcomes = <<>>
  BY <1>1, <1>2, <1>3 DEF NewProcess
<1>5. Whole(q)
  BY <1>1, <1>2, NewWhole
<1>6. Now' = q /\ Alive'
  <2>1. process' # NoWorker
    BY <1>2, <1>4 DEF NoWorker
  <2> QED
    BY <1>1, <1>2, <1>4, <2>1, SameScene DEF Settle, Alive
<1>7. Whole(Now)'
  BY <1>1, <1>5, <1>6, SameWhole
<1>8. Elapsed \subseteq Elapsed'
  BY StartSound DEF Progress
<1>9. Closed' = Closed
  <2>1. Closed' = {w \in Nat : w < n}
    BY <1>4, <1>6 DEF Closed, ClosedOf, Over
  <2>2. Closed = {w \in Nat : w < n}
    BY <1>1, <1>3 DEF Closed
  <2> QED
    BY <2>1, <2>2
<1>10. Heard' = Heard
  <2>1. Range(<<>>) = {} /\ Reported' = Reported
    BY <1>1 DEF Range, Reported
  <2> QED
    BY <1>1, <1>4, <1>6, <2>1 DEF Heard, HeardOf
<1>11. Advances
  BY <1>8, <1>9, <1>10 DEF Advances
<1>12. \A e \in recorded' : Settled(e)'
  BY <1>1, <1>11, SettledAdvances DEF Truth, RecordedTold
<1>13. RecordedTold'
  BY <1>12 DEF RecordedTold
<1> QED
  BY <1>1, <1>7, <1>13, RestTold

----------------------------------------------------------------------------
(* A worker goes on, and exits.                                            *)

LEMMA NowCalm ==
    ASSUME WorkerSound, WorkerInv, Truth, Alive, process.hook # "write"
    PROVE  Ready /\ Calm
<1>1. Now = process /\ process # NoWorker
  BY Quiet DEF Alive
<1>2. /\ scene \in Scenes /\ Posed(process) /\ Whole(process)
      /\ SoundWorker(process, ElapsedOf(process), HeardOf(process))
  BY <1>1 DEF WorkerSound, Truth
<1>3. /\ nextId \in Nat \ {0}
      /\ \E ids \in SUBSET (1 .. nextId - 1) : Holds(process, ids, {})
  <2>1. OwnIds(process.pid) \in SUBSET (1 .. nextId - 1)
    BY DEF OwnIds
  <2> QED
    BY <1>1, <2>1 DEF WorkerInv
<1>4. Unreported = process.retry /\ process.retry \in Nat
  BY <1>1, <1>2 DEF Unreported, Posed
<1>5. \A o \in Reported : o.execution[1] # process.retry
  <2>1. \A o \in Reported : o.execution[1] < process.retry
    BY <1>4 DEF WorkerSound
  <2> QED
    BY <1>4, <2>1
<1>6. \A o \in HeardOf(process) : GoodOutcome(o, ElapsedOf(process))
  BY <1>1 DEF WorkerSound, Heard, Elapsed
<1>7. \A o \in HeardOf(process) : o.execution \in ElapsedOf(process)
  BY <1>6 DEF GoodOutcome
<1> QED
  BY <1>2, <1>3, <1>5, <1>6, <1>7 DEF Ready, Calm

\* The worker goes on.
LEMMA GoesOnTruth ==
    ASSUME WorkerSound, WorkerInv, Truth, WorkerStep, process # NoWorker,
           ~\E reported \in BOOLEAN : ExitWorker(reported),
           faults' = faults, UNCHANGED <<journals, launcher, manifest>>
    PROVE  Truth'
<1>1. /\ Alive /\ process.hook # "write" /\ Now = process /\ Ready /\ Calm
      /\ faults \in Nat
  BY HookGuards, NowCalm, Quiet DEF Alive, WorkerInv
<1>2. UNCHANGED <<scene, starts, fragments, recorded>>
  BY StepFrame, StepRest
<1>3. PICK p : p = process
  OBVIOUS
<1>4. PICK q : q = Settle(process')
  OBVIOUS
<1>5. /\ Onward(q) /\ Grows(process', p)
      /\ \A o \in Range(q.outcomes) :
            \/ o \in Range(p.outcomes)
            \/ /\ o.execution = Place(p) /\ o.retry = Level(o.execution)
               /\ Ahead(p) /\ ~Ahead(q) /\ Place(q) = Place(p)
  BY <1>1, <1>3, <1>4, WorkerOnward, WorkerGrows
<1>6. Follows(q)
  BY <1>3, <1>4, <1>5 DEF Onward, Grows, Follows
<1>7. Whole(q)
  BY <1>1, <1>4, <1>6, WorkerWhole
<1>8. Now' = q /\ Alive'
  <2>1. Now' = q
    BY <1>2, <1>4, SameScene
  <2>2. "pid" \in DOMAIN q
    BY <1>5 DEF Onward, Posed, ProcessFields
  <2>3. Settle(NoWorker) = NoWorker /\ DOMAIN NoWorker = {"hook"}
    BY DEF Settle, NoWorker
  <2> QED
    BY <1>4, <2>1, <2>2, <2>3 DEF Alive
<1>9. Whole(Now)'
  BY <1>2, <1>7, <1>8, SameWhole
<1>10. \A e : Settled(e) => Settled(e)'
  <2> SUFFICES ASSUME NEW e, Settled(e) PROVE Settled(e)'
    OBVIOUS
  <2>1. SettledIn(e, p)
    BY <1>1, <1>3 DEF Settled, SettledIn, Elapsed, Closed, Heard
  <2>2. SettledIn(e, q)
    BY <1>1, <1>3, <1>6, <2>1, SettledFollows DEF Calm
  <2>3. SettledIn(e, q)'
    BY <1>2, <2>2, SameSettledIn
  <2> QED
    BY <1>8, <2>3 DEF Settled, SettledIn, Elapsed, Closed, Heard
<1>11. RecordedTold'
  <2> SUFFICES ASSUME NEW e \in recorded
               PROVE  \/ Settled(e)'
                      \/ e \in q.completed
                      \/ process'.hook = "write" /\ e.id = process'.write.id
    BY <1>2, <1>8 DEF RecordedTold
  <2>1. Settled(e) \/ e \in p.completed
    BY <1>1, <1>3 DEF Truth, RecordedTold
  <2>2. ASSUME e \in p.completed
        PROVE  e \in q.completed \/ (process'.hook = "write" /\ e.id = process'.write.id)
    BY <1>4, <1>5, <2>2 DEF Grows, Adds, Kept
  <2> QED
    BY <1>10, <2>1, <2>2
<1> QED
  BY <1>2, <1>8, <1>9, <1>11, RestTold

\* The worker exits, its outcomes reported.
LEMMA ExitTruth ==
    ASSUME WorkerSound, WorkerInv, Truth, NEW reported \in BOOLEAN,
           ExitWorker(reported), process # NoWorker,
           faults' = faults, UNCHANGED <<journals, launcher, manifest>>
    PROVE  Truth'
<1>1. /\ process.hook = "exit" /\ process' = NoWorker
      /\ UNCHANGED <<scene, starts, recorded>> /\ faults \in Nat
      /\ fragments' = Append(fragments, process.outcomes)
  BY DEF ExitWorker, WorkerEnds, Fault, WorkerInv
<1>2. Now = process /\ Alive /\ Calm
  BY <1>1, NowCalm, Quiet DEF Alive
<1>3. PICK p : p = process
  OBVIOUS
<1>4. /\ Posed(p) /\ Whole(p) /\ p.retry = Len(starts) - 1 /\ p.retry \in Nat
      /\ starts \in Seq({TheKey}) /\ Len(starts) \in Nat /\ p.hook = "exit"
      /\ fragments \in Seq(Range(fragments)) /\ scene \in Scenes
  BY <1>1, <1>2, <1>3 DEF Calm, Posed, WorkerSound
<1>5. Over(p) /\ Work(p) = {}
  BY <1>4, SceneFacts DEF Whole, Steady, Over, Work, TestWorker, SpecWorker, Idle
<1>6. ~Alive' /\ Heard' = Reported'
  BY <1>1 DEF Alive, Heard
<1>7. Elapsed \subseteq Elapsed' /\ \A o \in Heard' : o \in Heard \/ o.execution \notin Elapsed
  BY <1>1, <1>2, GoneSound DEF Progress
<1>8. Closed' = Closed
  <2>1. Closed' = {w \in Nat : w < Len(starts)}
    BY <1>1, <1>6 DEF Closed
  <2>2. Closed = {w \in Nat : w < p.retry \/ w = p.retry}
    BY <1>2, <1>3, <1>5 DEF Closed, ClosedOf
  <2>3. \A w \in Nat : w < Len(starts) <=> w < p.retry \/ w = p.retry
    BY <1>4
  <2> QED
    BY <2>1, <2>2, <2>3
<1>9. Heard' = Heard
  <2> DEFINE n == Len(fragments)
  <2>1. /\ n \in Nat /\ DOMAIN fragments = 1 .. n
        /\ DOMAIN fragments' = 1 .. n + 1
        /\ \A i \in 1 .. n : fragments'[i] = fragments[i]
        /\ fragments'[n + 1] = p.outcomes
    BY <1>1, <1>3, <1>4
  <2> HIDE DEF n
  <2>2. \A i \in 1 .. n + 1 : i \in 1 .. n \/ i = n + 1
    BY <2>1
  <2>3. n + 1 \in 1 .. n + 1 /\ 1 .. n \subseteq 1 .. n + 1
    BY <2>1
  <2>4. Reported' = UNION {Range(fragments'[i]) : i \in DOMAIN fragments'}
    BY DEF Reported
  <2>5. Reported' \subseteq Reported \union Range(p.outcomes)
    BY <2>1, <2>2, <2>4 DEF Reported
  <2>6. Reported \union Range(p.outcomes) \subseteq Reported'
    BY <2>1, <2>3, <2>4 DEF Reported
  <2> QED
    BY <1>2, <1>3, <1>6, <2>5, <2>6 DEF Heard, HeardOf
<1>10. Advances
  BY <1>7, <1>8, <1>9 DEF Advances
<1>11. \A e \in recorded : Settled(e)
  <2> SUFFICES ASSUME NEW e \in recorded PROVE Settled(e)
    OBVIOUS
  <2>1. Settled(e) \/ e \in p.completed
    BY <1>2, <1>1, <1>3 DEF Truth, RecordedTold
  <2>2. e \in p.completed => SettledIn(e, p)
    BY <1>4, <1>5 DEF Whole, Completing
  <2>3. SettledIn(e, p) => Settled(e)
    BY <1>2, <1>3 DEF Settled, SettledIn, Elapsed, Closed, Heard
  <2> QED
    BY <2>1, <2>2, <2>3
<1>12. \A e \in recorded' : Settled(e)'
  BY <1>1, <1>10, <1>11, SettledAdvances
<1>13. RecordedTold'
  BY <1>12 DEF RecordedTold
<1> QED
  BY <1>1, <1>6, <1>13, RestTold

----------------------------------------------------------------------------
(* A line is written.                                                      *)

\* Of the entry that is written only the new line counts, of the others the
\* line that did before.
LEMMA LatestOnly ==
    ASSUME NEW files, \A f \in DOMAIN files : LineList(files[f]), AllEnded(files),
           NEW file, NEW line, line.ended = TRUE, Usable(line, Us),
           \A f \in DOMAIN files \ {file} : \A i \in DOMAIN files[f] :
               Usable(files[f][i], Us) => files[f][i].entry.id # line.entry.id,
           NEW new, new = Appended(files, file, line)
    PROVE  /\ AllEnded(new)
           /\ \A e \in LatestEntries(new, Us) :
                 \/ e = line.entry
                 \/ e \in LatestEntries(files, Us) /\ e.id # line.entry.id
<1>1. file \notin OpenIn(files)
  <2> SUFFICES ASSUME file \in OpenIn(files) PROVE FALSE
    OBVIOUS
  <2>1. file \in DOMAIN files /\ files[file] # <<>>
        /\ ~files[file][Len(files[file])].ended
    BY DEF OpenIn
  <2>2. Len(files[file]) \in DOMAIN files[file]
    BY <2>1, LineLengths
  <2> QED
    BY <2>1, <2>2 DEF AllEnded
<1>0. line.ended \in BOOLEAN
  OBVIOUS
<1>2. \A f \in DOMAIN new : LineList(new[f])
  BY <1>0, AppendedFacts
<1>3. PICK n : Extends(new, files, file, n, line)
  BY <1>0, <1>1, AppendedFacts
<1>4. /\ n \in Nat /\ DOMAIN new = DOMAIN files \union {file}
      /\ \A f \in DOMAIN files \ {file} : new[f] = files[f]
      /\ file \in DOMAIN files => DOMAIN files[file] = 1 .. n
      /\ file \notin DOMAIN files => n = 0
      /\ DOMAIN new[file] = 1 .. n + 1
      /\ \A i \in 1 .. n : new[file][i] = files[file][i]
      /\ new[file][n + 1] = line
  BY <1>3 DEF Extends
<1>5. \A i \in 1 .. n + 1 : i = n + 1 \/ (i \in 1 .. n /\ file \in DOMAIN files)
  BY <1>4
<1>6. AllEnded(new)
  <2> SUFFICES ASSUME NEW f \in DOMAIN new, NEW i \in DOMAIN new[f]
               PROVE  new[f][i].ended
    BY DEF AllEnded
  <2>1. CASE f # file
    BY <1>4, <2>1 DEF AllEnded
  <2>2. CASE f = file
    BY <1>4, <1>5, <2>2 DEF AllEnded
  <2> QED
    BY <2>1, <2>2
<1>7. ASSUME NEW e \in LatestEntries(new, Us)
      PROVE  \/ e = line.entry
             \/ e \in LatestEntries(files, Us) /\ e.id # line.entry.id
  <2>1. PICK f \in DOMAIN new : \E i \in DOMAIN new[f] :
                 LastAt(new, f, i) /\ e = new[f][i].entry
    BY <1>7, LatestMeans
  <2>2. PICK i \in DOMAIN new[f] : LastAt(new, f, i) /\ e = new[f][i].entry
    BY <2>1
  <2>3. CASE f # file
    <3>1. f \in DOMAIN files /\ new[f] = files[f]
      BY <1>4, <2>3
    <3>2. LastAt(files, f, i) /\ i \in DOMAIN files[f] /\ e = files[f][i].entry
      BY <2>2, <3>1 DEF LastAt
    <3>3. e \in LatestEntries(files, Us)
      BY <3>1, <3>2, LatestMeans
    <3>4. e.id # line.entry.id
      BY <2>3, <3>1, <3>2 DEF LastAt
    <3> QED
      BY <3>3, <3>4
  <2>4. CASE f = file /\ i = n + 1
    BY <1>4, <2>2, <2>4
  <2>5. CASE f = file /\ i # n + 1
    <3>1. i \in 1 .. n /\ file \in DOMAIN files
      BY <1>4, <1>5, <2>5
    <3>2. Len(files[file]) = n /\ Len(new[file]) = n + 1
      <4>1. n + 1 \in Nat
        BY <1>4
      <4> QED
        BY <1>2, <1>4, <3>1, <4>1, LineLengths
    <3>3. LastAt(files, file, i)
      <4>1. \A j \in i + 1 .. n : j \in 1 .. n /\ j \in i + 1 .. n + 1
        BY <1>4, <3>1
      <4> QED
        BY <1>4, <2>2, <2>5, <3>1, <3>2, <4>1 DEF LastAt
    <3>4. e = files[file][i].entry
      BY <1>4, <2>2, <2>5, <3>1
    <3>5. e \in LatestEntries(files, Us)
      BY <1>4, <3>1, <3>3, <3>4, LatestMeans
    <3>6. e.id # line.entry.id
      <4>1. n + 1 \in i + 1 .. n + 1
        BY <1>4, <3>1
      <4> QED
        BY <1>4, <2>2, <2>5, <3>2, <4>1 DEF LastAt
    <3> QED
      BY <3>5, <3>6
  <2> QED
    BY <2>3, <2>4, <2>5
<1> QED
  BY <1>6, <1>7

\* A line is written: it tells what the worker has completed.
LEMMA WriteTruth ==
    ASSUME WorkerSound, RecordedInv, PublicationInv, Truth, WorkerWrites,
           faults' = faults
    PROVE  Truth'
<1>1. /\ process.hook = "write" /\ Append1(Line(process.write))
      /\ recorded' = Kept(recorded, process.write)
      /\ process' = Continue([process EXCEPT !.write = NoEntry], process.then)
      /\ UNCHANGED <<scene, starts, fragments, launcher, manifest>>
  <2>1. faults \in Nat
    BY DEF RecordedInv, WorkerInv
  <2>2. \A torn, left : ~WriteFails(torn) /\ ~KillWorker(left)
    <3>1. ~Fault
      BY <2>1 DEF Fault
    <3>2. \A torn : WriteFails(torn) => Fault
      BY Zenon DEF WriteFails
    <3>3. \A left : KillWorker(left) => Fault
      BY Zenon DEF KillWorker
    <3> QED
      BY <3>1, <3>2, <3>3
  <2>3. WriteLine
    BY <2>2 DEF WorkerWrites, JournalStep
  <2> QED
    BY <2>3 DEF WriteLine, WorkerWrites
<1>2. Alive
  BY <1>1 DEF Alive, NoWorker
<1>3. PICK q : q = Now
  OBVIOUS
<1>4. PICK w : w = process.write
  OBVIOUS
<1>5. process' = q
  BY <1>1, <1>3 DEF Now, Settle
<1>6. Posed(q) /\ Whole(q) /\ w \in q.completed
  BY <1>1, <1>2, <1>3, <1>4 DEF WorkerSound, Truth, Tells, Now
<1>7. q.hook # "write" /\ "pid" \in DOMAIN q
  BY <1>6 DEF Posed, Hooks, ProcessFields
<1>8. Now' = q /\ Alive'
  <2>1. Now' = q
    BY <1>1, <1>5, <1>7, SameScene DEF Settle
  <2> QED
    BY <1>5, <1>7, <2>1 DEF Alive, NoWorker
<1>9. Whole(Now)'
  BY <1>1, <1>6, <1>8, SameWhole
<1>10. Advances
  <2>1. Reported' = Reported
    BY <1>1 DEF Reported
  <2>2. ElapsedOf(q)' = ElapsedOf(q) /\ ClosedOf(q)' = ClosedOf(q)
        /\ HeardOf(q)' = HeardOf(q)
    BY <2>1, SamePlace DEF ClosedOf, Over, HeardOf
  <2>3. Elapsed' = Elapsed /\ Closed' = Closed /\ Heard' = Heard
    BY <1>2, <1>3, <1>8, <2>2 DEF Elapsed, Closed, Heard
  <2> QED
    BY <2>3 DEF Advances
<1>11. RecordedTold'
  <2> SUFFICES ASSUME NEW e \in recorded' PROVE Settled(e)' \/ e \in q.completed
    BY <1>8 DEF RecordedTold
  <2>1. e = w \/ (e \in recorded /\ e.id # w.id)
    BY <1>1, <1>4 DEF Kept
  <2>2. e \in recorded /\ e.id # w.id => Settled(e) \/ e \in q.completed
    BY <1>3, <1>4 DEF Truth, RecordedTold
  <2>3. Settled(e) => Settled(e)'
    BY <1>1, <1>10, SettledAdvances
  <2> QED
    BY <1>6, <2>1, <2>2, <2>3
<1>12. At(Us, "running") /\ launcher[Us].stage = "running"
       /\ FilesOK(journals[Us]) /\ DOMAIN journals = Launchers
  BY <1>2 DEF RecordedInv, WorkerInv, JournalsInv, Alive, At
<1> DEFINE line == Line(w)
           file == JournalFile
<1>13. line.ended = TRUE /\ line.entry = w /\ Usable(line, Us)
  <2>1. line.ended = TRUE /\ line.entry = w
    BY DEF Line
  <2>2. Proper(w)
    BY <1>6 DEF Whole, Completing
  <2> QED
    BY <2>1, <2>2 DEF Proper, Usable
<1>14. journals'[Us] = Appended(journals[Us], file, line)
  BY <1>1, <1>4, <1>12, UsAssumption, AppendsOne
<1>15. w.id \in OwnIds(process.pid)
  <2>1. w # NoEntry
    BY <1>13, NoEntryUnusable
  <2>2. Holds(process, OwnIds(process.pid), {})
    BY <1>2 DEF RecordedInv, WorkerInv, Alive
  <2> QED
    BY <1>4, <2>1, <2>2 DEF Holds, OneOf
<1>16. \A f \in DOMAIN journals[Us] \ {file} : \A i \in DOMAIN journals[Us][f] :
          Usable(journals[Us][f][i], Us) => journals[Us][f][i].entry.id # line.entry.id
  BY <1>13, <1>15 DEF OwnIds, JournalFile
<1> HIDE DEF line, file
<1>17. PICK new : new = Appended(journals[Us], file, line)
  OBVIOUS
<1>18. /\ AllEnded(new)
       /\ \A e \in LatestEntries(new, Us) :
             \/ e = line.entry
             \/ e \in LatestEntries(journals[Us], Us) /\ e.id # line.entry.id
  BY <1>12, <1>13, <1>16, <1>17, LatestOnly DEF Truth, FilesOK
<1>19. /\ AllEnded(journals[Us])'
       /\ (LatestEntries(journals[Us], Us) \subseteq recorded)'
  <2>1. LatestEntries(journals[Us], Us) \subseteq recorded
    BY <1>12 DEF Truth
  <2>2. LatestEntries(new, Us) \subseteq recorded'
    BY <1>1, <1>4, <1>13, <1>18, <2>1 DEF Kept
  <2>3. AllEnded(journals[Us])' = AllEnded(journals'[Us])
    BY DEF AllEnded
  <2>4. LatestEntries(journals[Us], Us)' = LatestEntries(journals'[Us], Us)
    BY DEF LatestEntries, Usable
  <2> QED
    BY <1>14, <1>17, <1>18, <2>2, <2>3, <2>4
<1>20. ~(launcher[Us].stage \in Stages)'
  BY <1>1, <1>12 DEF Stages
<1>21. PublishedEntries' \subseteq recorded'
  <2>1. PublishedEntries' = PublishedEntries
    BY <1>1 DEF PublishedEntries, OurRuns, Published
  <2>2. OurRuns = {}
    BY <1>12 DEF PublicationInv, RunsNamed, AfterPublishing, OurRuns
  <2> QED
    BY <2>1, <2>2 DEF PublishedEntries
<1> QED
  BY <1>9, <1>11, <1>19, <1>20, <1>21 DEF Truth

----------------------------------------------------------------------------
(* Launchers publish what was recorded.                                    *)

\* The worker is left alone.
LEMMA SameWorkerTruth ==
    ASSUME UNCHANGED <<scene, process, starts, fragments, recorded>>, Truth
    PROVE  (Alive' => Whole(Now)') /\ RecordedTold'
<1>1. PICK q : q = Now
  OBVIOUS
<1>2. Now' = q /\ Alive' = Alive /\ Reported' = Reported
  BY <1>1, SameScene DEF Now, Alive, Reported
<1>3. Alive' => Whole(Now)'
  <2>1. Alive => Whole(q)'
    BY <1>1, SameWhole DEF Truth
  <2> QED
    BY <1>2, <2>1
<1>4. Advances
  <2>1. ElapsedOf(q)' = ElapsedOf(q) /\ ClosedOf(q)' = ClosedOf(q)
        /\ HeardOf(q)' = HeardOf(q)
    BY <1>2, SamePlace DEF ClosedOf, Over, HeardOf
  <2>2. Elapsed' = Elapsed /\ Closed' = Closed /\ Heard' = Heard
    BY <1>1, <1>2, <2>1 DEF Elapsed, Closed, Heard, Executions
  <2> QED
    BY <2>2 DEF Advances
<1>5. \A e \in recorded : Settled(e) => Settled(e)'
  BY <1>4, SettledAdvances
<1>6. RecordedTold'
  BY <1>1, <1>2, <1>5 DEF Truth, RecordedTold
<1> QED
  BY <1>3, <1>6

\* The launchers add nothing to what was recorded.
LEMMA LauncherTruth ==
    ASSUME Truth, LauncherEffect
    PROVE  Truth'
<1>1. /\ UNCHANGED <<scene, process, starts, recorded, fragments>>
      /\ At(Us, "running")' => At(Us, "running") /\ journals'[Us] = journals[Us]
      /\ launcher'[Us].stage \in Stages =>
            \/ /\ At(Us, "running")
               /\ Range(launcher'[Us].run.entries) = LatestEntries(journals[Us], Us)
            \/ /\ launcher[Us].stage \in Stages
               /\ launcher'[Us].run = launcher[Us].run
      /\ \A e \in PublishedEntries' :
            \/ e \in PublishedEntries
            \/ launcher[Us].stage \in Stages /\ e \in Range(launcher[Us].run.entries)
  BY DEF LauncherEffect
<1>2. (Alive' => Whole(Now)') /\ RecordedTold'
  BY <1>1, SameWorkerTruth
<1>3. PublishedEntries' \subseteq recorded'
  BY <1>1 DEF Truth
<1>4. launcher'[Us].stage \in Stages =>
         Range(launcher'[Us].run.entries) \subseteq recorded
  BY <1>1 DEF Truth
<1>5. PICK entries : entries = Range(launcher'[Us].run.entries)
  OBVIOUS
<1>6. Range(launcher[Us].run.entries)' = entries /\ Stages' = Stages
  BY <1>5 DEF Range, Stages
<1>7. (launcher[Us].stage \in Stages =>
         Range(launcher[Us].run.entries) \subseteq recorded)'
  BY <1>1, <1>4, <1>5, <1>6
<1>8. (At(Us, "running") =>
          /\ AllEnded(journals[Us])
          /\ LatestEntries(journals[Us], Us) \subseteq recorded)'
  <2>1. /\ LatestEntries(journals[Us], Us)' = LatestEntries(journals'[Us], Us)
        /\ AllEnded(journals[Us])' = AllEnded(journals'[Us])
    BY DEF LatestEntries, Usable, AllEnded
  <2> QED
    BY <1>1, <2>1 DEF Truth
<1> QED
  BY <1>2, <1>3, <1>7, <1>8 DEF Truth

LEMMA InitTruth ==
    ASSUME Init
    PROVE  TruthInv
<1>1. /\ process = NoWorker /\ recorded = {}
      /\ journals[Us] = NoJournals /\ Published = {}
      /\ launcher[Us].stage = "running"
  BY UsAssumption DEF Init, InitWorkers, InitManifest, Published, NoManifest,
     InvalidManifest, Manifest
<1>2. ~Alive /\ RecordedTold
  BY <1>1 DEF Alive, RecordedTold
<1>3. AllEnded(NoJournals) /\ LatestEntries(NoJournals, Us) = {}
  BY DEF AllEnded, LatestEntries, NoJournals
<1>4. PublishedEntries = {}
  BY <1>1 DEF PublishedEntries, OurRuns
<1> QED
  BY <1>1, <1>2, <1>3, <1>4 DEF TruthInv, Truth, Stages

LEMMA TruthKeeps ==
    ASSUME TruthInv, SoundInv, RecordedInv, PublicationInv, [Next]_vars
    PROVE  TruthInv'
<1> SUFFICES ASSUME faults' = 0, scene'.reason # Parallel
             PROVE  Truth'
  BY DEF TruthInv, Parallel
<1>1. WorkerSound /\ WorkerInv /\ faults \in Nat
  BY DEF SoundInv, RecordedInv, WorkerInv
<1>2. /\ scene' = scene /\ (faults' = faults \/ faults' = faults + 1)
  <2>1. WorkerActs => /\ scene' = scene
                      /\ (faults' = faults \/ faults' = faults + 1)
    BY StepRest DEF WorkerActs
  <2>2. WorkerWrites => /\ scene' = scene
                        /\ (faults' = faults \/ faults' = faults + 1)
    BY JournalEffect, JournalSteps DEF WorkerWrites
  <2>3. LauncherEffect => /\ scene' = scene
                          /\ (faults' = faults \/ faults' = faults + 1)
    BY DEF LauncherEffect
  <2>4. UNCHANGED vars => scene' = scene /\ faults' = faults
    BY DEF vars, workerVars
  <2> QED
    BY <2>1, <2>2, <2>3, <2>4, NextEffect
<1>3. faults = 0 /\ faults' = faults
  BY <1>1, <1>2
<1>4. Truth /\ scene.reason # Parallel
  BY <1>2, <1>3 DEF TruthInv
<1>5. CASE WorkerActs
  <2>1. WorkerStep /\ UNCHANGED <<journals, launcher, manifest>>
    BY <1>5 DEF WorkerActs, manifestVars
  <2>2. CASE process = NoWorker
    <3>1. \E pid \in Pids : StartWorker(pid)
      <4>1. process.hook = "none" /\ ~Eligible
        BY <2>2 DEF NoWorker, Eligible
      <4> QED
        BY <2>1, <4>1 DEF WorkerStep, RecordParallelEntity, JoinSpecEntry,
           BeginEntity, SkipIneligible, SkipFirstAttempt, ContinueSpec,
           StartRecording, StartFails, RunTest, ReloadSession, EndEntity,
           FinalizeTest, Teardown, CompleteDeferred, EndTeardown, ExitWorker
    <3> QED
      BY <1>1, <1>4, <2>1, <3>1, StartTruth
  <2>3. CASE process # NoWorker /\ \E reported \in BOOLEAN : ExitWorker(reported)
    BY <1>1, <1>3, <1>4, <2>1, <2>3, ExitTruth
  <2>4. CASE process # NoWorker /\ ~\E reported \in BOOLEAN : ExitWorker(reported)
    BY <1>1, <1>3, <1>4, <2>1, <2>4, GoesOnTruth
  <2> QED
    BY <2>2, <2>3, <2>4
<1>6. CASE WorkerWrites
  BY <1>1, <1>3, <1>4, <1>6, WriteTruth
<1>7. CASE LauncherEffect
  BY <1>4, <1>7, LauncherTruth
<1>8. CASE UNCHANGED vars
  <2>1. /\ UNCHANGED <<scene, process, starts, fragments, recorded>>
        /\ UNCHANGED <<journals, launcher, manifest>>
    BY <1>8 DEF vars, workerVars, manifestVars
  <2> QED
    BY <1>4, <2>1, SameWorkerTruth, RestTold
<1> QED
  BY <1>5, <1>6, <1>7, <1>8, NextEffect

\* As long as nothing goes wrong, and tests do not overlap, a worker settles each
\* entry before it leaves the entity: with what the reporter heard of all its
\* executions, the retry counters of the framework, the launcher and the worker
\* agreeing; and nothing else gets into a journal or into a manifest.
THEOREM TruthInvariant ==
    Spec => [](PublicationInv /\ RecordedInv /\ SoundInv /\ TruthInv)
<1>1. Init => TruthInv
  BY InitTruth
<1>2. TruthInv /\ (PublicationInv /\ RecordedInv /\ SoundInv) /\ [Next]_vars
         => TruthInv'
  BY TruthKeeps
<1> QED
  BY <1>1, <1>2, ResultsInvariant, PTL DEF Spec

\* No worker is left when a run is published, so all is settled.
LEMMA PublishedSettled ==
    ASSUME RecordedInv, PublicationInv, TruthInv, faults = 0,
           scene.reason # Parallel, NEW e \in PublishedEntries
    PROVE  SettledBy(e, Elapsed, Closed, Reported)
<1>1. Truth /\ e \in recorded
  BY DEF TruthInv, Truth
<1>2. launcher[Us].stage # "running"
  BY DEF PublishedEntries, OurRuns, PublicationInv, RunsNamed, AfterPublishing
<1>3. ~Alive /\ Heard = Reported
  BY <1>2 DEF RecordedInv, WorkerInv, Alive, Heard
<1> QED
  BY <1>1, <1>3 DEF Truth, RecordedTold, Settled

LEMMA PublishedTruthful ==
    ASSUME RecordedInv, PublicationInv, SoundInv, TruthInv
    PROVE  EntryTruthful
<1> SUFFICES ASSUME NEW e \in PublishedEntries, OutcomesOf(e) # {}
             PROVE  LET outcomes == OutcomesOf(e)
                        results == {o.result : o \in outcomes}
                        retries == {o.retry : o \in outcomes}
                        retried == \E o \in outcomes : o.retry > 0
                        failed == \E o \in Judged(e) : o.result = "failed"
                    IN
                    /\ e.covers \subseteq {o.execution : o \in outcomes} =>
                          e.result \in results \union {"unknown"}
                    /\ faults = 0 /\ scene.reason # Parallel =>
                          /\ e.result = CombineResults(results)
                          /\ e.decision # "skipped" \/ e.reason = "first-attempt" =>
                                e.attempt - 1 \in retries
                          /\ e.decision = "recorded" =>
                                /\ scene.retain = "on-failure" => failed
                                /\ scene.retain = "retries" => retried
                                /\ scene.attempts = "retries" => retried
                          /\ e.decision = "discarded" =>
                                /\ scene.retain # "all"
                                /\ scene.retain = "on-failure" => ~failed
                                /\ scene.retain = "retries" =>
                                      \A o \in outcomes : Recordable(o) => o.retry = 0
                          /\ e.decision = "skipped" =>
                                \/ e.reason = "filtered"
                                \/ ~scene.chromium
                                \/ scene.attempts = "retries" /\ ~retried
                          /\ e.decision # "failed"
  BY DEF EntryTruthful
<1> DEFINE O == OutcomesOf(e)
           J == Judged(e)
<1>1. e.covers \subseteq {o.execution : o \in O} =>
         e.result \in {o.result : o \in O} \union {"unknown"}
  BY SoundOwned DEF ResultsOwned
<1>2. ASSUME faults = 0, scene.reason # Parallel PROVE Told(e, O, J)
  <2>1. SettledBy(e, Elapsed, Closed, Reported)
    BY <1>2, PublishedSettled
  <2>2. OutcomesIn(e, Reported) = O
    BY DEF OutcomesIn, OutcomesOf
  <2>3. JudgedIn(e, Reported) = J
    BY <2>2 DEF JudgedIn, Judged
  <2> QED
    BY <2>1, <2>2, <2>3 DEF SettledBy, ToldBy
<1> HIDE DEF O, J
<1>3. ASSUME Told(e, O, J)
      PROVE  e.decision # "skipped" \/ e.reason = "first-attempt" =>
                e.attempt - 1 \in {o.retry : o \in O}
  BY <1>3 DEF Told
<1> QED
  BY <1>1, <1>2, <1>3 DEF Told, O, J

\* A published entry has a result of one of its executions, and, when nothing
\* went wrong, exactly the result, the attempt and the decision that the
\* outcomes in the report call for (decideStart, shouldRetain,
\* combineResults), for every scene, any number of workers, tests and retries.
THEOREM EntryTruthfulHolds == Spec => []EntryTruthful
<1>1. PublicationInv /\ RecordedInv /\ SoundInv /\ TruthInv => EntryTruthful
  BY PublishedTruthful
<1> QED
  BY <1>1, TruthInvariant, PTL

----------------------------------------------------------------------------
(* What the report of the run is made of.                                  *)

\* The run is in manifest.json, and nothing has failed since.
Written ==
    \/ launcher[Us].stage \in {"cleaning", "reporting"}
    \/ launcher[Us].stage = "releasing" /\ launcher[Us].ok

\* The report is made last, of all that reporters wrote and of a run that is
\* published; the entries of that are told apart by their numbers.
ReportInv ==
    /\ \A i \in DOMAIN fragments : fragments[i] \in Seq(Range(fragments[i]))
    /\ launcher[Us].stage \in Stages => Numbered(Range(launcher[Us].run.entries))
    /\ \A run \in OurRuns : Numbered(Range(run.entries))
    /\ Written => launcher[Us].run \in OurRuns
    /\ report # None =>
          /\ At(Us, "done") /\ launcher[Us].run \in OurRuns
          /\ report \in Seq(Range(report)) /\ Range(report) = Reported

LEMMA EndsWith ==
    ASSUME LauncherShape, NEW ok,
           launcher' = [launcher EXCEPT ![Us].stage = "releasing", ![Us].ok = ok]
    PROVE  /\ launcher'[Us].stage = "releasing" /\ launcher'[Us].ok = ok
           /\ launcher'[Us].run = launcher[Us].run
BY UsAssumption DEF LauncherShape, Fields

\* The run is in the manifest before the launcher goes on.
LEMMA OurWritten ==
    ASSUME PublicationInv, Written => launcher[Us].run \in OurRuns, NEW code,
           \/ Aggregate(Us, code) \/ Persist(Us) \/ PersistFails(Us)
           \/ /\ At(Us, "reporting") /\ Moves(Us, "done")
              /\ UNCHANGED <<journals, manifest, lock>>
    PROVE  Written' => launcher'[Us].run \in OurRuns'
<1> USE UsAssumption
<1>0. LauncherShape
  BY DEF PublicationInv
<1>1. ASSUME NEW stage \in {"locked", "done", "dead"}, Moves(Us, stage)
      PROVE  ~Written'
  <2>1. launcher'[Us].stage = stage
    BY <1>0, <1>1, MovesOne
  <2> QED
    BY <2>1 DEF Written
<1>2. CASE Aggregate(Us, code)
  <2>1. launcher'[Us].stage = "locking"
    BY <1>0, <1>2 DEF Aggregate, LauncherShape, Fields
  <2> QED
    BY <2>1 DEF Written
<1>3. ASSUME Fails(Us) PROVE ~Written'
  <2>1. launcher'[Us].stage = "releasing" /\ launcher'[Us].ok = FALSE
    BY <1>0, <1>3, EndsWith DEF Fails
  <2> QED
    BY <2>1 DEF Written
<1>4. CASE PublishRun(Us)
  <2>1. launcher[Us].run.id = Us
    BY <1>4 DEF PublishRun, At, PublicationInv, RunsNamed, Holding
  <2>2. launcher'[Us].run = launcher[Us].run
    BY <1>0, <1>4, MovesOne DEF PublishRun
  <2>3. launcher[Us].run \in Published'
    BY <1>4 DEF PublishRun, Published, Manifest
  <2> QED
    BY <2>1, <2>2, <2>3 DEF OurRuns
<1>5. CASE CleanupRun(Us)
  <2>1. launcher'[Us].run = launcher[Us].run
    BY <1>0, <1>5, EndsWith DEF CleanupRun
  <2>2. Written /\ OurRuns' = OurRuns
    BY <1>5 DEF CleanupRun, At, Written, OurRuns, Published
  <2> QED
    BY <2>1, <2>2
<1>6. CASE ReleaseManifestLock(Us)
  <2>1. CASE launcher[Us].ok
    <3>1. launcher'[Us].run = launcher[Us].run
      BY <1>0, <1>6, <2>1, MovesOne DEF ReleaseManifestLock
    <3>2. Written /\ OurRuns' = OurRuns
      BY <1>6, <2>1 DEF ReleaseManifestLock, At, Written, OurRuns, Published
    <3> QED
      BY <3>1, <3>2
  <2>2. CASE ~launcher[Us].ok
    BY <1>1, <1>6, <2>2 DEF ReleaseManifestLock
  <2> QED
    BY <2>1, <2>2
<1>7. CASE ReadExisting(Us)
  <2>1. CASE launcher' = [launcher EXCEPT ![Us].stage = "publishing",
                                         ![Us].existing = Published]
    <3>1. launcher'[Us].stage = "publishing"
      BY <1>0, <2>1 DEF LauncherShape, Fields
    <3> QED
      BY <3>1 DEF Written
  <2> QED
    BY <1>3, <1>7, <2>1 DEF ReadExisting
<1>8. CASE PersistFails(Us)
  BY <1>1, <1>3, <1>8 DEF PersistFails, GiveUpManifest, PublishFails,
     CleanupFails, KillLauncher
<1>9. CASE AcquireManifestLock(Us)
  BY <1>1, <1>9 DEF AcquireManifestLock
<1>10. CASE At(Us, "reporting") /\ Moves(Us, "done")
  BY <1>1, <1>10
<1> QED
  BY <1>2, <1>4, <1>5, <1>6, <1>7, <1>8, <1>9, <1>10 DEF Persist

\* A launcher that is done does nothing more.
LEMMA DoneIsDone ==
    ASSUME At(Us, "done"), NEW code
    PROVE  /\ ~Aggregate(Us, code) /\ ~Persist(Us) /\ ~PersistFails(Us)
           /\ ~At(Us, "reporting") /\ ~Written
BY DEF At, Aggregate, Persist, PersistFails, AcquireManifestLock, ReadExisting,
       PublishRun, CleanupRun, ReleaseManifestLock, GiveUpManifest,
       PublishFails, CleanupFails, KillLauncher, Written

\* The launcher of the run goes on.
LEMMA OurReport ==
    ASSUME ReportInv, SoundInv, RecordedInv, PublicationInv, NEW code,
           \/ Aggregate(Us, code) \/ Persist(Us) \/ PersistFails(Us)
           \/ /\ At(Us, "reporting") /\ Moves(Us, "done")
              /\ UNCHANGED <<journals, manifest, lock>>,
           UNCHANGED fragments,
           \/ UNCHANGED report
           \/ /\ At(Us, "reporting") /\ Moves(Us, "done")
              /\ UNCHANGED manifest
              /\ report' # None =>
                    /\ report' \in Seq(Range(report'))
                    /\ Range(report') = Reported
    PROVE  ReportInv'
<1> USE UsAssumption
<1>1. /\ launcher'[Us].stage \in Stages =>
            \/ At(Us, "running") /\ launcher'[Us].run = AggregatedRun(Us, code)
            \/ /\ launcher[Us].stage \in Stages
               /\ launcher'[Us].run = launcher[Us].run
      /\ \A run \in Published' :
            \/ run \in Published
            \/ launcher[Us].stage = "publishing" /\ run = launcher[Us].run
  BY LauncherSteps DEF WorkerInv, RecordedInv, Stages, Aggregate
<1>2. Written' => launcher'[Us].run \in OurRuns'
  BY OurWritten DEF ReportInv
<1>3. ~At(Us, "done")
  BY DoneIsDone
<1>4. report = None
  BY <1>3 DEF ReportInv
<1>5. \A run \in OurRuns' : Numbered(Range(run.entries))
  BY <1>1 DEF ReportInv, OurRuns, Stages
<1>6. launcher'[Us].stage \in Stages => Numbered(Range(launcher'[Us].run.entries))
  <2>1. ASSUME At(Us, "running")
        PROVE  Numbered(Range(AggregatedRun(Us, code).entries))
    <3>1. FilesOK(journals[Us])
      BY <2>1 DEF RecordedInv, JournalsInv, At
    <3>2. AggregatedRun(Us, code).entries =
             InOrderStarted(LatestEntries(journals[Us], Us))
      BY DEF AggregatedRun
    <3>3. Numbered(LatestEntries(journals[Us], Us))
      BY <3>1, LatestNumbered DEF RecordedInv, WorkerInv
    <3> QED
      BY <3>2, <3>3, AllInOrder
  <2> QED
    BY <1>1, <2>1 DEF ReportInv
<1>7. report' # None =>
         /\ At(Us, "done")' /\ launcher'[Us].run \in OurRuns'
         /\ report' \in Seq(Range(report')) /\ Range(report') = Reported'
  <2> SUFFICES ASSUME report' # None
               PROVE  /\ At(Us, "done")' /\ launcher'[Us].run \in OurRuns'
                      /\ report' \in Seq(Range(report'))
                      /\ Range(report') = Reported'
    OBVIOUS
  <2>1. /\ At(Us, "reporting") /\ Moves(Us, "done") /\ UNCHANGED manifest
        /\ report' \in Seq(Range(report')) /\ Range(report') = Reported
    BY <1>4
  <2>2. launcher'[Us].stage = "done" /\ launcher'[Us].run = launcher[Us].run
    BY <2>1, MovesOne DEF PublicationInv
  <2>3. launcher[Us].run \in OurRuns
    BY <2>1 DEF ReportInv, Written, At
  <2>4. OurRuns' = OurRuns /\ Reported' = Reported
    BY <2>1 DEF OurRuns, Published, Reported
  <2> QED
    BY <2>1, <2>2, <2>3, <2>4 DEF At
<1>8. \A i \in DOMAIN fragments' : fragments'[i] \in Seq(Range(fragments'[i]))
  BY DEF ReportInv
<1>9. PICK entries : entries = launcher'[Us].run.entries
  OBVIOUS
<1>10. launcher'[Us].stage \in Stages' => Numbered(Range(entries))'
  BY <1>6, <1>9 DEF Numbered, Stages
<1>11. \A run \in OurRuns' : Numbered(Range(run.entries))'
  BY <1>5 DEF Numbered
<1> QED
  BY <1>2, <1>7, <1>8, <1>9, <1>10, <1>11 DEF ReportInv

\* The others do not touch it.
LEMMA OtherReport ==
    ASSUME ReportInv, RecordedInv, PublicationInv, PublicationInv',
           Published \subseteq Published', NEW l \in Others,
           \/ Aggregate(l, 0) \/ Persist(l) \/ PersistFails(l)
           \/ /\ At(l, "reporting") /\ Moves(l, "done")
              /\ UNCHANGED <<journals, manifest, lock>>,
           UNCHANGED <<fragments, report>>
    PROVE  ReportInv'
<1>0. l \in Launchers /\ Us \in Launchers \ {l}
  BY UsAssumption DEF Others
<1>1. /\ launcher'[Us] = launcher[Us]
      /\ \A run \in Published' :
            \/ run \in Published
            \/ launcher[l].stage = "publishing" /\ run = launcher[l].run
  BY <1>0, LauncherSteps DEF WorkerInv, RecordedInv
<1>2. launcher[l].stage = "publishing" => launcher[l].run.id = l
  BY <1>0 DEF PublicationInv, RunsNamed, Holding
<1>3. OurRuns' = OurRuns
  BY <1>0, <1>1, <1>2 DEF OurRuns
<1>4. /\ Reported' = Reported /\ Written' = Written
      /\ At(Us, "done")' = At(Us, "done")
  BY <1>1 DEF Reported, Written, At
<1>5. PICK run : run = launcher[Us].run
  OBVIOUS
<1>6. Stages' = Stages /\ Numbered(Range(run.entries))' = Numbered(Range(run.entries))
  BY DEF Stages, Numbered
<1>7. \A r \in OurRuns : Numbered(Range(r.entries)) => Numbered(Range(r.entries))'
  BY DEF Numbered
<1> QED
  BY <1>1, <1>3, <1>4, <1>5, <1>6, <1>7 DEF ReportInv

\* Workers end before it is made.
LEMMA WorkersReport ==
    ASSUME ReportInv, At(Us, "running"), UNCHANGED <<manifest, launcher, report>>,
           \A i \in DOMAIN fragments' : fragments'[i] \in Seq(Range(fragments'[i]))
    PROVE  ReportInv'
<1>1. report = None
  BY DEF ReportInv, At
<1>2. OurRuns' = OurRuns
  BY DEF OurRuns, Published
<1>3. ~(launcher[Us].stage \in Stages) /\ ~Written /\ Stages' = Stages
  BY DEF Stages, Written, At
<1>4. ~Written'
  BY <1>3 DEF Written
<1>5. \A r \in OurRuns : Numbered(Range(r.entries)) => Numbered(Range(r.entries))'
  BY DEF Numbered
<1> QED
  BY <1>1, <1>2, <1>3, <1>4, <1>5 DEF ReportInv

\* The reporter of a worker writes its outcomes when it ends.
LEMMA WorkerReports ==
    ASSUME WorkerStep
    PROVE  \/ fragments' = fragments
           \/ /\ process # NoWorker /\ process.hook = "exit"
              /\ fragments' = Append(fragments, process.outcomes)
<1>1. CASE \E pid \in Pids : StartWorker(pid)
  BY <1>1 DEF StartWorker
<1>2. CASE \E reported \in BOOLEAN : ExitWorker(reported)
  BY <1>2 DEF ExitWorker, NoWorker
<1>3. CASE process = NoWorker
  BY <1>1, <1>3 DEF WorkerStep, NoWorker, RecordParallelEntity, JoinSpecEntry,
     BeginEntity, SkipIneligible, SkipFirstAttempt, ContinueSpec,
     StartRecording, StartFails, Eligible, RunTest, ReloadSession, EndEntity,
     FinalizeTest, Teardown, CompleteDeferred, EndTeardown, ExitWorker
<1> QED
  BY <1>1, <1>2, <1>3, StepFrame

LEMMA WorkerActsReport ==
    ASSUME ReportInv, SoundInv, RecordedInv, WorkerActs
    PROVE  ReportInv'
<1>1. At(Us, "running")
  <2>1. CASE process = NoWorker
    BY <2>1 DEF WorkerActs, WorkerStep, NoWorker, StartWorker,
       RecordParallelEntity, JoinSpecEntry, BeginEntity, SkipIneligible,
       SkipFirstAttempt, ContinueSpec, StartRecording, StartFails, Eligible,
       RunTest, ReloadSession, EndEntity, FinalizeTest, Teardown,
       CompleteDeferred, EndTeardown, ExitWorker
  <2> QED
    BY <2>1 DEF RecordedInv, WorkerInv, At
<1>2. \A i \in DOMAIN fragments' : fragments'[i] \in Seq(Range(fragments'[i]))
  <2>1. CASE fragments' = fragments
    BY <2>1 DEF ReportInv
  <2>2. CASE /\ process # NoWorker /\ process.hook = "exit"
             /\ fragments' = Append(fragments, process.outcomes)
    <3>1. process.outcomes \in Seq(Range(process.outcomes))
      <4>1. Now = process
        BY <2>2, Quiet
      <4> QED
        BY <2>2, <4>1 DEF SoundInv, WorkerSound, Alive, Posed
    <3> DEFINE n == Len(fragments)
    <3>2. fragments \in Seq(Range(fragments))
      BY DEF SoundInv, WorkerSound
    <3>3. /\ n \in Nat /\ DOMAIN fragments = 1 .. n
          /\ DOMAIN fragments' = 1 .. n + 1
          /\ \A i \in 1 .. n : fragments'[i] = fragments[i]
          /\ fragments'[n + 1] = process.outcomes
      BY <2>2, <3>2
    <3> HIDE DEF n
    <3>4. \A i \in 1 .. n + 1 : i \in 1 .. n \/ i = n + 1
      BY <3>3
    <3> QED
      BY <3>1, <3>3, <3>4 DEF ReportInv
  <2> QED
    BY <2>1, <2>2, WorkerReports DEF WorkerActs
<1> QED
  BY <1>1, <1>2, WorkersReport DEF WorkerActs, manifestVars

\* generateVideoReportForRun shows each captured outcome, in whatever order it
\* read them.
LEMMA GeneratedReport ==
    ASSUME ReportInv, SoundInv, GenerateReport, report' # None
    PROVE  report' \in Seq(Range(report')) /\ Range(report') = Reported
<1>1. Lists(fragments) /\ AllOf(fragments) = Reported
  BY DEF Lists, AllOf, Reported, ReportInv, SoundInv, WorkerSound
<1>2. PICK read \in {fragments, Reverse(fragments)} :
         report' = IF fragments = <<>> THEN None ELSE FlattenSeq(read)
  BY DEF GenerateReport
<1>3. fragments # <<>> /\ report' = FlattenSeq(read)
  BY <1>2
<1>4. Lists(read) /\ AllOf(read) = Reported /\ read # <<>>
  BY <1>1, <1>2, <1>3, ReverseFacts
<1> QED
  BY <1>3, <1>4, FlattenFacts

LEMMA ReportKeeps ==
    ASSUME ReportInv, SoundInv, RecordedInv, PublicationInv, [Next]_vars
    PROVE  ReportInv'
<1>0. PublicationInv' /\ Published \subseteq Published'
  BY StepKeeps, UsAssumption, LauncherAssumption
<1>1. CASE WorkerActs
  BY <1>1, WorkerActsReport
<1>2. CASE WorkerWrites
  <2>1. process # NoWorker /\ UNCHANGED fragments
    BY <1>2, JournalEffect DEF WorkerWrites
  <2>2. At(Us, "running")
    BY <2>1 DEF RecordedInv, WorkerInv, At
  <2> QED
    BY <1>2, <2>1, <2>2, WorkersReport DEF WorkerWrites, ReportInv
<1>3. CASE CompleteRun
  <2>1. PICK code : Aggregate(Us, code)
    BY <1>3 DEF CompleteRun
  <2> QED
    BY <1>3, <2>1, OurReport DEF CompleteRun, workerVars
<1>4. CASE PersistRun
  BY <1>4, OurReport DEF PersistRun, workerVars
<1>5. CASE PersistRunFails
  BY <1>5, OurReport DEF PersistRunFails
<1>6. CASE GenerateReport
  <2>1. /\ At(Us, "reporting") /\ Moves(Us, "done")
        /\ UNCHANGED <<journals, manifest, lock, fragments>>
    BY <1>6 DEF GenerateReport, workerVars
  <2>2. report' # None =>
           report' \in Seq(Range(report')) /\ Range(report') = Reported
    BY <1>6, GeneratedReport
  <2> QED
    BY <2>1, <2>2, OurReport
<1>7. CASE ReportFails
  BY <1>7, OurReport DEF ReportFails
<1>8. ASSUME NEW l \in Others, OtherCompletes(l) PROVE ReportInv'
  BY <1>0, <1>8, OtherReport DEF OtherCompletes, workerVars
<1>9. ASSUME NEW l \in Others, OtherFails(l) PROVE ReportInv'
  BY <1>0, <1>9, OtherReport DEF OtherFails
<1>10. CASE UNCHANGED vars
  <2>1. UNCHANGED <<manifest, launcher, fragments, report>>
    BY <1>10 DEF vars, manifestVars, workerVars
  <2>2. PICK run : run = launcher[Us].run
    OBVIOUS
  <2>3. Stages' = Stages /\ Numbered(Range(run.entries))' = Numbered(Range(run.entries))
    BY DEF Stages, Numbered
  <2>4. /\ OurRuns' = OurRuns /\ Written' = Written /\ Reported' = Reported
        /\ At(Us, "done")' = At(Us, "done")
    BY <2>1 DEF OurRuns, Published, Written, Reported, At
  <2>5. \A r \in OurRuns : Numbered(Range(r.entries)) => Numbered(Range(r.entries))'
    BY DEF Numbered
  <2> QED
    BY <2>1, <2>2, <2>3, <2>4, <2>5 DEF ReportInv
<1> QED
  BY <1>1, <1>2, <1>3, <1>4, <1>5, <1>6, <1>7, <1>8, <1>9, <1>10 DEF Next

LEMMA InitReport ==
    ASSUME Init
    PROVE  ReportInv
<1>1. /\ report = None /\ fragments = <<>> /\ Published = {}
      /\ launcher[Us].stage = "running"
  BY UsAssumption DEF Init, InitWorkers, InitManifest, Published, NoManifest,
     InvalidManifest, Manifest
<1> QED
  BY <1>1 DEF ReportInv, OurRuns, Stages, Written

\* What the report is made of: the outcomes are those of the reporters that
\* could write them, in one order or another, and the entries those that were
\* published (onComplete of the launcher, generateVideoReportForRun).
THEOREM ReportInvariant ==
    Spec => [](PublicationInv /\ RecordedInv /\ SoundInv /\ ReportInv)
<1>1. Init => ReportInv
  BY InitReport
<1>2. ReportInv /\ (PublicationInv /\ RecordedInv /\ SoundInv) /\ [Next]_vars
         => ReportInv'
  BY ReportKeeps
<1> QED
  BY <1>1, <1>2, ResultsInvariant, PTL DEF Spec

\* The report leaves nothing out and makes nothing up: each outcome of its
\* reporters and each entry of its run is shown, an outcome only with an entry
\* of the same run, session, spec file and attempt that is called like it, and
\* no entry of a test with two tests.
ReportFits ==
    report # None =>
        /\ \A o \in Reported : \E item \in Shown : item.outcome = o
        /\ \A e \in Range(launcher[Us].run.entries) :
              \E item \in Shown : item.entry = e
        /\ \A item \in Shown : item.outcome # None =>
              /\ item.outcome \in Reported
              /\ item.entry # None =>
                    item.entry \in PublishedEntries /\ Fits(item.entry, item.outcome)
        /\ \A x, y \in Shown :
              /\ x.outcome # None /\ y.outcome # None /\ x.outcome # y.outcome
              /\ x.entry # None /\ x.entry = y.entry /\ x.entry.scope = "test"
              => ScenarioKey(x.outcome) = ScenarioKey(y.outcome)
                 /\ x.outcome.test.container # None

LEMMA ItemFacts ==
    ASSUME NEW outcome, NEW match
    PROVE  /\ Item(outcome, match).outcome = outcome
           /\ Item(outcome, match).entry =
                 IF match.kind = "matched" THEN match.entry ELSE None
<1>1. PICK why : why = CASE match.kind = "matched" -> None
                         [] match.kind = "ambiguous" -> "ambiguous-test-outcome"
                         [] match.kind = "missing" -> "unmatched-test-outcome"
  OBVIOUS
<1>2. PICK entry : entry = IF match.kind = "matched" THEN match.entry ELSE None
  OBVIOUS
<1>3. Item(outcome, match) = [outcome |-> outcome, entry |-> entry, why |-> why]
  BY <1>1, <1>2, Zenon DEF Item
<1> QED
  BY <1>2, <1>3

LEMMA ReportShows ==
    ASSUME ReportInv
    PROVE  ReportFits
<1> SUFFICES ASSUME report # None
             PROVE  /\ \A o \in Reported : \E item \in Shown : item.outcome = o
                    /\ \A e \in Range(launcher[Us].run.entries) :
                          \E item \in Shown : item.entry = e
                    /\ \A item \in Shown : item.outcome # None =>
                          /\ item.outcome \in Reported
                          /\ item.entry # None =>
                                /\ item.entry \in PublishedEntries
                                /\ Fits(item.entry, item.outcome)
                    /\ \A x, y \in Shown :
                          /\ x.outcome # None /\ y.outcome # None
                          /\ x.outcome # y.outcome
                          /\ x.entry # None /\ x.entry = y.entry
                          /\ x.entry.scope = "test"
                          => ScenarioKey(x.outcome) = ScenarioKey(y.outcome)
                             /\ x.outcome.test.container # None
  BY DEF ReportFits
<1> DEFINE entries == launcher[Us].run.entries
           joined == MatchAll(entries, report)
           Of(i) == Item(report[i], joined.matches[i])
<1>1. /\ launcher[Us].run \in OurRuns /\ Numbered(Range(entries))
      /\ report \in Seq(Range(report)) /\ Range(report) = Reported
  BY DEF ReportInv
<1>2. Range(entries) \subseteq PublishedEntries
  BY <1>1 DEF PublishedEntries
<1>3. Len(report) \in Nat /\ DOMAIN report = 1 .. Len(report)
  BY <1>1
<1>4. Joined(joined, entries, report)
  BY <1>1, <1>3, MatchAllJoins DEF Ids, Numbered
<1>5. Shown = {Of(i) : i \in DOMAIN report} \union
                 {ManifestOnlyItem(e) :
                    e \in {e \in Range(entries) : e.id \notin joined.state.matched}}
  BY DEF Shown, ReportItems
<1> HIDE DEF joined
<1>6. \A i \in DOMAIN report : /\ Of(i) \in Shown /\ Of(i).outcome = report[i]
                               /\ report[i] \in Reported
                               /\ joined.matches[i].kind = "matched" =>
                                     Of(i).entry = joined.matches[i].entry
                               /\ Of(i).entry # None =>
                                     joined.matches[i].kind = "matched"
  BY <1>1, <1>5, ItemFacts DEF Range
<1>7. \A item \in Shown : item.outcome # None =>
         \E i \in DOMAIN report : item = Of(i)
  BY <1>5 DEF ManifestOnlyItem
<1> HIDE DEF Of
<1>8. \A o \in Reported : \E item \in Shown : item.outcome = o
  BY <1>1, <1>6 DEF Range
<1>9. ASSUME NEW e \in Range(entries)
      PROVE  \E item \in Shown : item.entry = e
  <2>1. CASE e.id \in joined.state.matched
    <3>1. PICK i \in DOMAIN report :
             joined.matches[i].kind = "matched" /\ joined.matches[i].entry.id = e.id
      BY <1>4, <2>1 DEF Joined
    <3>2. joined.matches[i].entry \in Range(entries)
      BY <1>4, <3>1 DEF Joined
    <3>3. joined.matches[i].entry = e
      BY <1>1, <3>1, <3>2 DEF Numbered
    <3> QED
      BY <1>6, <3>1, <3>3
  <2>2. CASE e.id \notin joined.state.matched
    <3>1. ManifestOnlyItem(e) \in Shown
      BY <1>5, <2>2
    <3> QED
      BY <3>1 DEF ManifestOnlyItem
  <2> QED
    BY <2>1, <2>2
<1>10. ASSUME NEW item \in Shown, item.outcome # None
       PROVE  /\ item.outcome \in Reported
              /\ item.entry # None =>
                    /\ item.entry \in PublishedEntries
                    /\ Fits(item.entry, item.outcome)
  <2>1. PICK i \in DOMAIN report : item = Of(i)
    BY <1>7, <1>10
  <2>2. joined.matches[i].kind = "matched" =>
           /\ joined.matches[i].entry \in Range(entries)
           /\ Fits(joined.matches[i].entry, report[i])
    BY <1>4 DEF Joined
  <2> QED
    BY <1>2, <1>6, <2>1, <2>2
<1>11. ASSUME NEW x \in Shown, NEW y \in Shown,
              x.outcome # None, y.outcome # None, x.outcome # y.outcome,
              x.entry # None, x.entry = y.entry, x.entry.scope = "test"
       PROVE  ScenarioKey(x.outcome) = ScenarioKey(y.outcome)
              /\ x.outcome.test.container # None
  <2>1. PICK i \in DOMAIN report : x = Of(i)
    BY <1>7, <1>11
  <2>2. PICK j \in DOMAIN report : y = Of(j)
    BY <1>7, <1>11
  <2>3. i # j
    BY <1>11, <2>1, <2>2
  <2>4. /\ joined.matches[i].kind = "matched" /\ joined.matches[j].kind = "matched"
        /\ joined.matches[i].entry = x.entry /\ joined.matches[j].entry = x.entry
    BY <1>6, <1>11, <2>1, <2>2
  <2>5. /\ report[i].test.container # None
        /\ ScenarioKey(report[i]) = ScenarioKey(report[j])
    BY <1>4, <1>11, <2>3, <2>4 DEF Joined
  <2> QED
    BY <1>6, <2>1, <2>2, <2>5
<1> QED
  BY <1>8, <1>9, <1>10, <1>11

\* The report shows all there is, under names that fit, and no video of a test
\* twice, whatever the tests are called, whatever went wrong and in whatever
\* order the files of the reporters were read (matchOutcomes of
\* manifest-matcher.ts, createReportModel).
THEOREM ReportFitsHolds == Spec => []ReportFits
<1>1. ReportInv => ReportFits
  BY ReportShows
<1> QED
  BY <1>1, ReportInvariant, PTL

----------------------------------------------------------------------------
(* Entries bear the names of the tests they are of.                        *)

\* The name a test is recorded under.
Called(i) == [name |-> scene.plan[i].test.name,
              fullName |-> scene.plan[i].test.fullName]

\* What can run in this scene.
InPlan(x) ==
    /\ x \in Executions /\ x[2] \in 1 .. Len(scene.plan)
    /\ x[3] <= scene.plan[x[2]].retries
    /\ scene.specRetries = 0 => x[1] = 0

NamedFor(d, i) ==
    /\ d.spec = ManifestSpec(scene.plan[i].test.file)
    /\ d.test = Called(i)

Named(d) ==
    /\ d.scope = "test" /\ d.covers # {}
    /\ \A x \in d.covers : InPlan(x) /\ NamedFor(d, x[2])

Ours(e) == e.run = Us /\ e.cid = Cid /\ Named(e)

\* The worker is about an entity.
Busy(s) ==
    s.hook \in {"eligible", "test", "result", "finalize"} \/ s.resume = "test"

\* It has the draft of that entity, or has completed its entry last.
AtWork(s) ==
    IF s.draft # NoDraft THEN Named(s.draft) /\ NamedFor(s.draft, s.at)
    ELSE /\ s.hook # "eligible"
         /\ s.reason # Parallel =>
               \A e \in s.completed : e.id = s.last => NamedFor(e, s.at)

NamedWorker(s) ==
    /\ InPlan(Place(s))
    /\ \A e \in s.completed : Ours(e)
    /\ Busy(s) => AtWork(s)

\* A draft or an entry keeps its names while its result, its attempt and what
\* became of its recording change.
SameNames(c, d) ==
    /\ c.scope = d.scope /\ c.spec = d.spec /\ c.test = d.test
    /\ c.covers = d.covers

LEMMA NamesSame ==
    ASSUME NEW c, NEW d, SameNames(c, d)
    PROVE  /\ Named(d) => Named(c)
           /\ \A i : NamedFor(d, i) => NamedFor(c, i)
BY DEF SameNames, Named, NamedFor

LEMMA BuiltNames ==
    ASSUME NEW d, Named(d), NEW options, NEW result
    PROVE  LET e == BuildEntry(d, options, result) IN
           /\ Ours(e) /\ e.id = d.id
           /\ \A i : NamedFor(d, i) => NamedFor(e, i)
<1> DEFINE e == BuildEntry(d, options, result)
<1>1. /\ e.run = Us /\ e.cid = Cid /\ e.id = d.id
      /\ e.spec = d.spec /\ e.test = d.test /\ e.scope = d.scope
      /\ e.covers = d.covers
  BY DEF BuildEntry
<1> HIDE DEF e
<1>2. SameNames(e, d)
  BY <1>1 DEF SameNames
<1> QED
  BY <1>1, <1>2, NamesSame DEF Ours, e

\* The draft of the current entity.
LEMMA DraftNames ==
    ASSUME scene \in Scenes, scene.scope = "test",
           process.at \in 1 .. Len(scene.plan), InPlan(Place(process)), NEW p
    PROVE  LET d == CreateDraft(p, Current) IN
           Named(d) /\ NamedFor(d, process.at)
<1> DEFINE d == CreateDraft(p, Current)
<1>1. /\ d.spec = ManifestSpec(Test.file) /\ d.scope = "test"
      /\ d.test = [name |-> FirstGiven(<<Current.name, Current.fullName>>),
                   fullName |-> Current.fullName]
      /\ d.covers = {Place(process)}
  BY Here DEF CreateDraft
<1> HIDE DEF d
<1>2. /\ Current.name = scene.plan[process.at].test.name
      /\ Current.fullName = scene.plan[process.at].test.fullName
      /\ Current.name # None
      /\ Test.file = scene.plan[process.at].test.file
  BY TestFacts DEF Current, Entity
<1>3. d.test = Called(process.at)
  BY <1>1, <1>2, FirstFacts DEF Called
<1>4. NamedFor(d, process.at)
  BY <1>1, <1>2, <1>3 DEF NamedFor
<1>5. Named(d)
  BY <1>1, <1>4, PlaceFacts DEF Named
<1> QED
  BY <1>4, <1>5 DEF d

----------------------------------------------------------------------------
(* The names a worker holds.                                               *)

\* The worker goes on with what it has at work.
LEMMA NamesStay ==
    ASSUME NEW s, NamedWorker(s), NEW q, Place(q) = Place(s), q.at = s.at,
           q.completed = s.completed, q.last = s.last,
           s.reason = Parallel => q.reason = Parallel,
           Busy(q) => Busy(s), q.hook = "eligible" => s.hook = "eligible",
           q.draft = NoDraft <=> s.draft = NoDraft,
           q.draft # NoDraft => SameNames(q.draft, s.draft)
    PROVE  NamedWorker(q)
<1>1. Busy(q) => AtWork(q)
  <2> SUFFICES ASSUME Busy(q) PROVE AtWork(q)
    OBVIOUS
  <2>1. AtWork(s)
    BY DEF NamedWorker
  <2>2. CASE q.draft = NoDraft
    BY <2>1, <2>2 DEF AtWork
  <2>3. CASE q.draft # NoDraft
    BY <2>1, <2>3, NamesSame DEF AtWork
  <2> QED
    BY <2>2, <2>3
<1> QED
  BY <1>1 DEF NamedWorker

\* An entry is written, which is the last of the entity at work.
LEMMA NamesWritten ==
    ASSUME NEW s, NamedWorker(s), NEW q, InPlan(Place(q)),
           NEW e, Ours(e), q.completed = Kept(s.completed, e),
           Busy(q) =>
              /\ q.hook # "eligible" /\ q.draft = NoDraft
              /\ q.reason # Parallel => e.id = q.last /\ NamedFor(e, q.at)
    PROVE  NamedWorker(q)
<1>1. \A f \in q.completed : f = e \/ (f \in s.completed /\ f.id # e.id)
  BY DEF Kept
<1>2. \A f \in q.completed : Ours(f)
  BY <1>1 DEF NamedWorker
<1>3. Busy(q) => AtWork(q)
  BY <1>1 DEF AtWork
<1> QED
  BY <1>2, <1>3 DEF NamedWorker

\* The try of the worker stays within the retries.
LEMMA AdvanceInPlan ==
    ASSUME scene \in Scenes, NEW p, Posed(p), InPlan(Place(p)),
           p.resume = "exit"
    PROVE  InPlan(Place(Advance(p))) /\ ~Busy(Advance(p))
<1>1. /\ DOMAIN p = ProcessFields /\ p.at \in 1 .. Len(scene.plan)
      /\ p.try \in Nat /\ p.retry \in Nat
      /\ Len(scene.plan) \in Nat
  BY PlanLength DEF Posed
<1>2. /\ p.try <= scene.plan[p.at].retries
      /\ scene.specRetries = 0 => p.retry = 0
  BY PlaceFacts DEF InPlan
<1> DEFINE q == Advance(p)
<1>3. /\ Like(q, p, {"try", "at", "bad", "result", "hook"})
      /\ q.hook \in {"begin", "teardown"}
  BY <1>1, AdvanceLike
<1>4. q.retry = p.retry /\ q.resume = "exit"
  BY <1>3 DEF Like, ProcessFields
<1>5. \/ /\ q.at = p.at /\ q.try = p.try + 1 /\ p.try < scene.plan[p.at].retries
      \/ q.at = p.at + 1 /\ q.try = 0 /\ p.at < Len(scene.plan)
      \/ q.at = p.at /\ q.try = p.try
  <2> DEFINE retried == p.result = "failed" /\ p.try < scene.plan[p.at].retries
             m == [p EXCEPT !.bad = @ \/ (p.result = "failed" /\ ~retried),
                            !.result = None]
  <2>1. /\ m.at = p.at /\ m.try = p.try /\ DOMAIN m = ProcessFields
    BY <1>1 DEF ProcessFields
  <2>2. q = CASE retried -> [m EXCEPT !.try = @ + 1, !.hook = "begin"]
              [] ~retried /\ p.at < Len(scene.plan) ->
                    [m EXCEPT !.at = @ + 1, !.try = 0, !.hook = "begin"]
              [] OTHER -> [m EXCEPT !.hook = "teardown"]
    BY DEF Advance
  <2> HIDE DEF m, q
  <2>3. CASE retried
    BY <2>1, <2>2, <2>3 DEF ProcessFields
  <2>4. CASE ~retried /\ p.at < Len(scene.plan)
    <3>1. q = [m EXCEPT !.at = @ + 1, !.try = 0, !.hook = "begin"]
      BY <2>2, <2>4
    <3> QED
      BY <2>1, <2>4, <3>1 DEF ProcessFields
  <2>5. CASE ~retried /\ ~(p.at < Len(scene.plan))
    BY <2>1, <2>2, <2>5 DEF ProcessFields
  <2> QED
    BY <2>3, <2>4, <2>5
<1> HIDE DEF q
<1>6. q.at \in 1 .. Len(scene.plan) /\ q.try \in Nat
  BY <1>1, <1>5
<1>7. scene.plan[p.at].retries \in Nat /\ scene.plan[q.at].retries \in Nat
  BY <1>1, <1>6, PlanFacts
<1>8. q.try <= scene.plan[q.at].retries
  BY <1>1, <1>2, <1>5, <1>7
<1>9. InPlan(Place(q))
  BY <1>1, <1>2, <1>4, <1>6, <1>8 DEF InPlan, Place, Executions
<1>10. ~Busy(q)
  BY <1>3, <1>4 DEF Busy
<1> QED
  BY <1>9, <1>10 DEF q

\* Overlapping tests each write an entry of their own.
LEMMA ParallelNames ==
    ASSUME Ready, scene.scope = "test", NamedWorker(process),
           RecordParallelEntity,
           NEW q, q = Settle(process')
    PROVE  NamedWorker(q)
<1>1. /\ scene \in Scenes /\ Posed(process) /\ DOMAIN process = ProcessFields
      /\ process.at \in 1 .. Len(scene.plan) /\ InPlan(Place(process))
  BY DEF Ready, Posed, NamedWorker
<1>2. /\ Like(q, process, {"hook", "completed", "write", "then", "begun",
                           "overlapRecorded"})
      /\ process.reason = Parallel /\ q.hook = "test"
      /\ \/ Silent(process', process)
         \/ \E d, options :
               Writes(process', process,
                      BuildEntry(CreateDraft(d, Current), options,
                                 Current.skippedResult), "test")
  BY <1>1, ParallelEffect
<1>3. q.completed = process.completed \/
         \E d, options : q.completed = Kept(process.completed,
             BuildEntry(CreateDraft(d, Current), options, Current.skippedResult))
  BY <1>2 DEF Silent, Writes, Settle
<1>4. /\ q.draft = process.draft /\ q.reason = Parallel /\ Place(q) = Place(process)
      /\ q.at = process.at
  BY <1>2 DEF Like, ProcessFields, Place
<1>5. q.draft = NoDraft
  BY <1>1, <1>2, <1>4 DEF Posed
<1>6. CASE q.completed = process.completed
  BY <1>2, <1>4, <1>5, <1>6 DEF NamedWorker, AtWork
<1>7. CASE q.completed # process.completed
  <2>1. PICK d, options : q.completed = Kept(process.completed,
             BuildEntry(CreateDraft(d, Current), options, Current.skippedResult))
    BY <1>3, <1>7
  <2>2. Ours(BuildEntry(CreateDraft(d, Current), options, Current.skippedResult))
    BY <1>1, DraftNames, BuiltNames
  <2> QED
    BY <1>1, <1>2, <1>4, <1>5, <2>1, <2>2, NamesWritten
<1> QED
  BY <1>6, <1>7

\* An entity begins with a draft of its names.
LEMMA BeginNames ==
    ASSUME Ready, scene.scope = "test", NamedWorker(process), BeginEntity,
           NEW q, q = Settle(process')
    PROVE  NamedWorker(q)
<1> DEFINE d == CreateDraft(process, Current)
<1>1. /\ scene \in Scenes /\ Posed(process) /\ DOMAIN process = ProcessFields
      /\ process.at \in 1 .. Len(scene.plan) /\ InPlan(Place(process))
  BY DEF Ready, Posed, NamedWorker
<1>2. /\ Like(q, process, {"hook", "completed", "write", "then", "begun",
                           "already", "draft"})
      /\ q.draft = d
      /\ Writes(process', process, BuildEntry(d, Checkpoint, "unknown"),
                "eligible")
  BY <1>1, BeginEffect
<1>3. Named(d) /\ NamedFor(d, process.at)
  BY <1>1, DraftNames
<1>4. d # NoDraft
  <2>1. d.scope = "test"
    BY <1>3 DEF Named
  <2>2. d.id = nextId /\ DOMAIN d = DraftFields
    BY DEF CreateDraft, DraftFields
  <2> HIDE DEF d
  <2> QED
    BY <2>2 DEF NoDraft, DraftFields
<1>5. q.completed = Kept(process.completed, BuildEntry(d, Checkpoint, "unknown"))
  BY <1>2 DEF Writes
<1>6. Ours(BuildEntry(d, Checkpoint, "unknown"))
  BY <1>3, BuiltNames
<1> HIDE DEF d
<1>7. Place(q) = Place(process) /\ q.at = process.at
  BY <1>2 DEF Like, ProcessFields, Place
<1>8. AtWork(q)
  BY <1>2, <1>3, <1>4, <1>7 DEF AtWork
<1>9. \A e \in q.completed : Ours(e)
  BY <1>5, <1>6 DEF Kept, NamedWorker
<1> QED
  BY <1>1, <1>7, <1>8, <1>9 DEF NamedWorker

\* The draft that is at work, whatever its attempt.
LEMMA WorkNames ==
    ASSUME Ready, scene.scope = "test", NamedWorker(process),
           process.hook = "eligible"
    PROVE  /\ process.draft # NoDraft /\ Named(process.draft)
           /\ NamedFor(process.draft, process.at)
           /\ Attempted.draft # NoDraft /\ Named(Attempted.draft)
           /\ NamedFor(Attempted.draft, process.at)
           /\ SameNames(Attempted.draft, process.draft)
           /\ Attempted.draft.id = process.draft.id
           /\ Like(Attempted, process, {"seen", "draft"})
<1>1. AtWork(process) /\ process.draft # NoDraft
  BY DEF NamedWorker, Busy, AtWork
<1>2. Posed(process) /\ DOMAIN process = ProcessFields /\ DOMAIN process.draft = DraftFields
  BY <1>1 DEF Ready, Posed
<1>3. /\ Like(Attempted, process, {"seen", "draft"})
      /\ Attempted.draft = [process.draft EXCEPT !.attempt = Retry + 1]
  BY <1>1, <1>2, AttemptedLike
<1> DEFINE d == process.draft
           c == Attempted.draft
           n == Retry + 1
<1>4. c = [d EXCEPT !.attempt = n] /\ DOMAIN d = DraftFields
  BY <1>2, <1>3
<1> HIDE DEF c, d, n
<1>5. SameNames(c, d) /\ c.id = d.id /\ DOMAIN c = DraftFields
  BY <1>4 DEF SameNames, DraftFields
<1>6. c # NoDraft
  BY <1>5 DEF DraftFields, NoDraft
<1>7. Named(d) /\ (\A i : i = process.at => NamedFor(d, i))
  BY <1>1 DEF AtWork, d
<1> QED
  BY <1>1, <1>3, <1>5, <1>6, <1>7, NamesSame DEF c, d

\* It is not recorded.
LEMMA SkipNames ==
    ASSUME Ready, scene.scope = "test", NamedWorker(process),
           SkipIneligible \/ SkipFirstAttempt,
           NEW q, q = Settle(process')
    PROVE  NamedWorker(q)
<1>1. /\ Posed(process) /\ DOMAIN process = ProcessFields
  BY DEF Ready, Posed
<1>2. PICK m, reason :
         /\ m \in {process, Attempted} /\ process.hook = "eligible"
         /\ SkipOf(process', m, reason)
  BY <1>1, SkipEffect, FirstEffect
<1>3. PICK s : s = process
  OBVIOUS
<1>4. /\ m.draft # NoDraft /\ Named(m.draft) /\ NamedFor(m.draft, s.at)
      /\ SameNames(m.draft, s.draft)
      /\ Like(m, s, {"seen", "draft"}) /\ s.draft # NoDraft
  <2>1. Like(process, process, {"seen", "draft"}) /\ SameNames(process.draft, process.draft)
    BY <1>1 DEF Like, SameNames
  <2> QED
    BY <1>2, <1>3, <2>1, WorkNames
<1>5. NamedWorker(s) /\ InPlan(Place(s)) /\ s.hook = "eligible"
  BY <1>2, <1>3 DEF NamedWorker
<1>6. /\ Like(q, m, {"hook", "completed", "write", "then", "draft", "last"})
      /\ q.hook = "test"
      /\ \/ q.draft = m.draft /\ q.last = m.last /\ q.completed = m.completed
         \/ /\ q.draft = NoDraft /\ q.last = m.draft.id
            /\ \E options, result :
                  q.completed = Kept(m.completed, BuildEntry(m.draft, options, result))
  BY <1>2 DEF SkipOf, Silent, Writes, Settle
<1>7. /\ q.at = s.at /\ Place(q) = Place(s) /\ q.reason = s.reason
      /\ m.last = s.last /\ m.completed = s.completed
  BY <1>4, <1>6 DEF Like, ProcessFields, Place
<1>8. Busy(s) /\ q.hook # "eligible"
  BY <1>5, <1>6 DEF Busy
<1>9. CASE q.draft = m.draft /\ q.last = m.last /\ q.completed = m.completed
  BY <1>4, <1>5, <1>7, <1>8, <1>9, NamesStay
<1>10. CASE ~(q.draft = m.draft /\ q.last = m.last /\ q.completed = m.completed)
  <2>1. PICK options, result :
           q.completed = Kept(m.completed, BuildEntry(m.draft, options, result))
    BY <1>6, <1>10
  <2>2. /\ Ours(BuildEntry(m.draft, options, result))
        /\ BuildEntry(m.draft, options, result).id = q.last
        /\ NamedFor(BuildEntry(m.draft, options, result), q.at)
    BY <1>4, <1>6, <1>7, <1>10, BuiltNames
  <2>3. q.draft = NoDraft /\ InPlan(Place(q))
    BY <1>5, <1>6, <1>7, <1>10
  <2> QED
    BY <1>5, <1>7, <1>8, <2>1, <2>2, <2>3, NamesWritten
<1> QED
  BY <1>9, <1>10

\* It is recorded, or should have been.
LEMMA StartNames ==
    ASSUME Ready, scene.scope = "test", NamedWorker(process),
           StartRecording \/ \E disables \in BOOLEAN : StartFails(disables),
           NEW q, q = Settle(process')
    PROVE  NamedWorker(q)
<1>1. /\ Posed(process) /\ DOMAIN process = ProcessFields
  BY DEF Ready, Posed
<1>2. PICK s, m : s = process /\ m = Attempted
  OBVIOUS
<1>3. /\ s.hook = "eligible"
      /\ Like(q, m, {"hook", "completed", "write", "then", "draft", "last",
                     "recording", "active", "reason"})
      /\ q.reason \in {s.reason, "no-connection"} /\ q.hook = "test"
      /\ \/ q.draft = m.draft /\ q.last = m.last /\ q.completed = s.completed
         \/ m.draft = NoDraft
         \/ /\ q.draft = NoDraft /\ q.last = m.draft.id
            /\ \E options, result :
                  q.completed = Kept(s.completed, BuildEntry(m.draft, options, result))
  <2>1. CASE StartRecording
    <3>1. /\ Like(q, m, {"hook", "active", "recording"})
          /\ s.hook = "eligible" /\ q.hook = "test"
          /\ Silent(process', s)
      BY <1>1, <1>2, <2>1, StartEffect
    <3>2. q.completed = s.completed
      BY <3>1 DEF Silent, Settle
    <3>3. Like(m, s, {"seen", "draft"})
      BY <1>1, <1>2, AttemptedLike
    <3> QED
      BY <3>1, <3>2, <3>3 DEF Like, ProcessFields
  <2>2. CASE \E disables \in BOOLEAN : StartFails(disables)
    <3>1. PICK disables : StartFails(disables)
      BY <2>2
    <3>2. /\ Like(q, m, {"hook", "completed", "write", "then", "draft",
                         "last", "recording", "active", "reason"})
          /\ s.hook = "eligible" /\ q.hook = "test"
          /\ q.reason \in {s.reason, "no-connection"} /\ q.draft = NoDraft
          /\ \/ m.draft = NoDraft
             \/ /\ q.last = m.draft.id
                /\ \E options : Writes(process', s,
                       BuildEntry(m.draft, options,
                           CombineResults({m.draft.result, "unknown"})), "test")
      BY <1>1, <1>2, <3>1, StartFailsEffect
    <3> QED
      BY <3>2 DEF Writes
  <2> QED
    BY <2>1, <2>2
<1>4. /\ m.draft # NoDraft /\ Named(m.draft) /\ NamedFor(m.draft, s.at)
      /\ SameNames(m.draft, s.draft) /\ Like(m, s, {"seen", "draft"})
      /\ s.draft # NoDraft
  BY <1>2, <1>3, WorkNames
<1>5. NamedWorker(s) /\ InPlan(Place(s)) /\ s.reason # Parallel
  BY <1>1, <1>2, <1>4 DEF NamedWorker, Posed
<1>6. /\ q.at = s.at /\ Place(q) = Place(s) /\ m.last = s.last
  BY <1>3, <1>4 DEF Like, ProcessFields, Place
<1>7. Busy(s) /\ q.hook # "eligible"
  BY <1>3 DEF Busy
<1>8. CASE q.draft = m.draft /\ q.last = m.last /\ q.completed = s.completed
  BY <1>4, <1>5, <1>6, <1>7, <1>8, NamesStay
<1>9. CASE ~(q.draft = m.draft /\ q.last = m.last /\ q.completed = s.completed)
  <2>1. PICK options, result :
           q.completed = Kept(s.completed, BuildEntry(m.draft, options, result))
    BY <1>3, <1>4, <1>9
  <2>2. /\ Ours(BuildEntry(m.draft, options, result))
        /\ BuildEntry(m.draft, options, result).id = q.last
        /\ NamedFor(BuildEntry(m.draft, options, result), q.at)
    BY <1>3, <1>4, <1>6, <1>9, BuiltNames
  <2>3. q.draft = NoDraft /\ InPlan(Place(q))
    BY <1>3, <1>4, <1>5, <1>6, <1>9
  <2> QED
    BY <1>5, <1>7, <2>1, <2>2, <2>3, NamesWritten
<1> QED
  BY <1>8, <1>9

\* The hooks between an entity and the next one.
LEMMA QuietNames ==
    ASSUME Ready, scene.scope = "test", NamedWorker(process),
           \/ \E result \in {"passed", "failed", "skipped"} : RunTest(result)
           \/ \E chromium \in BOOLEAN : ReloadSession(chromium)
           \/ \E media \in {"done", "capture-failed", "error"} : Teardown(media)
           \/ EndTeardown,
           NEW q, q = Settle(process')
    PROVE  NamedWorker(q)
<1>1. /\ Posed(process) /\ DOMAIN process = ProcessFields
      /\ process.resume \in {"exit", "test"}
  BY DEF Ready, Posed
<1>2. PICK s : s = process
  OBVIOUS
<1>3. /\ Like(q, s, {"hook", "result", "outcomes", "resume", "chromium",
                     "reloaded", "recording", "active", "seen", "failed",
                     "overlapRecorded"})
      /\ Silent(process', s)
      /\ \/ s.hook = "test" /\ q.hook = "result" /\ q.resume = s.resume
         \/ s.hook = "test" /\ q.hook = "teardown"
         \/ s.hook = "teardown" /\ q.hook = "flush" /\ q.resume = s.resume
         \/ /\ s.hook = "flush" /\ q.hook = s.resume /\ q.resume = "exit"
            /\ s.resume \in {"exit", "test"}
  <2>1. ASSUME NEW result, RunTest(result)
        PROVE  /\ Like(q, s, {"hook", "result", "outcomes"})
               /\ Silent(process', s) /\ s.hook = "test" /\ q.hook = "result"
    BY <1>1, <1>2, <2>1, TestEffect
  <2>2. ASSUME NEW chromium, ReloadSession(chromium)
        PROVE  /\ Like(q, s, {"hook", "resume", "chromium", "reloaded"})
               /\ Silent(process', s) /\ s.hook = "test" /\ q.hook = "teardown"
    BY <1>1, <1>2, <2>2, ReloadEffect
  <2>3. ASSUME NEW media, Teardown(media)
        PROVE  /\ Like(q, s, {"hook", "recording", "active"})
               /\ Silent(process', s) /\ s.hook = "teardown" /\ q.hook = "flush"
    BY <1>1, <1>2, <2>3, TeardownEffect
  <2>4. CASE EndTeardown
    <3>1. /\ Like(q, s, {"seen", "failed", "active", "overlapRecorded", "hook",
                         "resume"})
          /\ Silent(process', s) /\ s.hook = "flush" /\ q.hook = s.resume
          /\ q.resume = "exit"
      BY <1>1, <1>2, <2>4, FlushedEffect
    <3> QED
      BY <1>1, <1>2, <3>1 DEF Like
  <2>5. CASE \E result \in {"passed", "failed", "skipped"} : RunTest(result)
    BY <2>1, <2>5 DEF Like, ProcessFields
  <2>6. CASE \E chromium \in BOOLEAN : ReloadSession(chromium)
    BY <2>2, <2>6 DEF Like
  <2>7. CASE \E media \in {"done", "capture-failed", "error"} : Teardown(media)
    BY <2>3, <2>7 DEF Like, ProcessFields
  <2> QED
    BY <2>4, <2>5, <2>6, <2>7
<1>4. /\ q.at = s.at /\ Place(q) = Place(s) /\ q.last = s.last
      /\ q.draft = s.draft /\ q.reason = s.reason
  BY <1>3 DEF Like, ProcessFields, Place
<1>5. q.completed = s.completed
  BY <1>3 DEF Silent, Settle
<1>6. /\ Busy(q) => Busy(s)
      /\ q.hook = "eligible" => s.hook = "eligible"
  BY <1>3 DEF Busy
<1>7. SameNames(q.draft, s.draft)
  BY <1>4 DEF SameNames
<1> QED
  BY <1>2, <1>4, <1>5, <1>6, <1>7, NamesStay

\* The result of the entity is told.
LEMMA EndNames ==
    ASSUME Ready, scene.scope = "test", NamedWorker(process), EndEntity,
           NEW q, q = Settle(process')
    PROVE  NamedWorker(q)
<1>1. /\ Posed(process) /\ DOMAIN process = ProcessFields /\ scene \in Scenes
      /\ process.hook = "result" /\ process.resume = "exit"
  BY DEF Ready, Posed, EndEntity
<1>2. PICK s : s = process
  OBVIOUS
<1>3. NamedWorker(s) /\ Busy(s) /\ AtWork(s) /\ InPlan(Place(s)) /\ Posed(s)
  BY <1>1, <1>2 DEF NamedWorker, Busy
<1>4. CASE s.reason = Parallel
  <2>1. q = Advance(s) /\ Silent(process', s) /\ q = process'
    BY <1>1, <1>2, <1>4, EndParallelEffect
  <2>2. InPlan(Place(q)) /\ ~Busy(q)
    BY <1>1, <1>2, <1>3, <2>1, AdvanceInPlan
  <2> QED
    BY <1>3, <2>1, <2>2 DEF Silent, NamedWorker
<1>5. CASE s.reason # Parallel
  <2> DEFINE told == TestOutcome.manifestResult
             last == {e \in s.completed : e.id = s.last}
  <2>1. /\ Like(q, s, {"hook", "failed", "draft", "completed", "write", "then"})
        /\ q.hook = "finalize"
        /\ \/ /\ s.draft # NoDraft
              /\ q.draft = [s.draft EXCEPT !.result = CombineResults({@, told})]
              /\ Silent(process', s)
           \/ /\ s.draft = NoDraft /\ q.draft = NoDraft /\ Silent(process', s)
           \/ /\ s.draft = NoDraft /\ q.draft = NoDraft
              /\ \E e \in last :
                    Writes(process', s,
                           [e EXCEPT !.result = CombineResults({@, told}),
                                     !.covers = @ \union {Execution}],
                           "finalize")
    BY <1>1, <1>2, <1>3, <1>5, EndEffect DEF Posed
  <2> HIDE DEF told
  <2>2. /\ q.at = s.at /\ Place(q) = Place(s) /\ q.last = s.last
        /\ q.reason = s.reason
    BY <2>1 DEF Like, ProcessFields, Place
  <2>3. q.hook # "eligible"
    BY <2>1
  <2>4. CASE s.draft # NoDraft
    <3> DEFINE d == s.draft
               result == CombineResults({d.result, told})
    <3>1. q.draft = [d EXCEPT !.result = result] /\ Silent(process', s)
          /\ DOMAIN d = DraftFields
      BY <1>3, <2>1, <2>4 DEF Posed
    <3> HIDE DEF d, result
    <3>2. SameNames(q.draft, d) /\ DOMAIN q.draft = DraftFields
      BY <3>1 DEF SameNames, DraftFields
    <3>3. q.draft # NoDraft
      BY <3>2 DEF NoDraft, DraftFields
    <3>4. q.completed = s.completed
      BY <3>1 DEF Silent, Settle
    <3> QED
      BY <1>3, <2>2, <2>3, <2>4, <3>2, <3>3, <3>4, NamesStay DEF d
  <2>5. CASE s.draft = NoDraft /\ Silent(process', s)
    <3>1. q.completed = s.completed /\ q.draft = NoDraft
      BY <2>1, <2>5 DEF Silent, Settle
    <3> QED
      BY <1>3, <2>2, <2>3, <2>5, <3>1, NamesStay
  <2>6. CASE s.draft = NoDraft /\ ~Silent(process', s)
    <3>1. PICK e \in last :
             Writes(process', s,
                    [e EXCEPT !.result = CombineResults({@, told}),
                              !.covers = @ \union {Execution}],
                    "finalize")
      BY <2>1, <2>6
    <3> DEFINE more == e.covers \union {Place(s)}
               result == CombineResults({e.result, told})
               f == [e EXCEPT !.result = result, !.covers = more]
    <3>2. q.completed = Kept(s.completed, f) /\ q.draft = NoDraft
      BY <1>2, <2>1, <2>6, <3>1, Here DEF Writes
    <3>3. DOMAIN e = EntryFields
      BY <1>2, <3>1 DEF Ready, Holds, OneOf
    <3> HIDE DEF result
    <3>4. /\ f.run = e.run /\ f.cid = e.cid /\ f.scope = e.scope
          /\ f.spec = e.spec /\ f.test = e.test /\ f.id = e.id
          /\ f.covers = more
      BY <3>3 DEF EntryFields
    <3> HIDE DEF f
    <3>5. Ours(e) /\ NamedFor(e, s.at) /\ e.id = s.last
      BY <1>3, <1>5, <2>6, <3>1 DEF NamedWorker, AtWork
    <3>6. \A i : NamedFor(e, i) => NamedFor(f, i)
      BY <3>4 DEF NamedFor
    <3>7. Ours(f)
      BY <1>3, <3>4, <3>5, <3>6, PlaceFacts DEF Ours, Named
    <3> QED
      BY <1>3, <2>2, <2>3, <3>2, <3>4, <3>5, <3>6, <3>7, NamesWritten
  <2> QED
    BY <2>4, <2>5, <2>6
<1> QED
  BY <1>4, <1>5

\* The entity is over.
LEMMA FinalizeNames ==
    ASSUME Ready, scene.scope = "test", NamedWorker(process),
           NEW media, FinalizeTest(media),
           NEW q, q = Settle(process')
    PROVE  NamedWorker(q)
<1>1. /\ Posed(process) /\ DOMAIN process = ProcessFields /\ scene \in Scenes
      /\ process.hook = "finalize" /\ process.resume = "exit"
  BY DEF Ready, Posed, FinalizeTest
<1>2. PICK s : s = process
  OBVIOUS
<1>3. NamedWorker(s) /\ Busy(s) /\ AtWork(s) /\ InPlan(Place(s)) /\ Posed(s)
  BY <1>1, <1>2 DEF NamedWorker, Busy
<1>4. InPlan(Place(Advance(s))) /\ ~Busy(Advance(s))
  BY <1>1, <1>2, <1>3, AdvanceInPlan
<1>5. /\ Like(q, Advance(s), {"recording", "active", "tasks", "draft", "last",
                              "completed", "write", "then"})
      /\ \/ Silent(process', s)
         \/ /\ s.draft # NoDraft
            /\ \E options, result :
                  Writes(process', s, BuildEntry(s.draft, options, result), "next")
  <2>1. \/ FinishOf(process', s, NonFailing(TestOutcome),
                    TestOutcome.manifestResult, media, "next")
        \/ process' = Advance(s) /\ q = process' /\ Silent(process', s)
    BY <1>1, <1>2, FinalizeEffect
  <2>2. Continue(s, "next") = Advance(s) /\ DOMAIN Advance(s) = ProcessFields
    BY <1>1, <1>2, AdvanceLike DEF Continue, Like
  <2> QED
    BY <2>1, <2>2 DEF FinishOf, Like
<1>6. Place(q) = Place(Advance(s)) /\ ~Busy(q)
  BY <1>4, <1>5 DEF Like, ProcessFields, Place, Busy
<1>7. CASE Silent(process', s)
  BY <1>3, <1>4, <1>6, <1>7 DEF Silent, Settle, NamedWorker
<1>8. CASE ~Silent(process', s)
  <2>1. PICK options, result :
           Writes(process', s, BuildEntry(s.draft, options, result), "next")
    BY <1>5, <1>8
  <2>2. Ours(BuildEntry(s.draft, options, result))
    BY <1>3, <1>5, <1>8, BuiltNames DEF AtWork
  <2>3. q.completed = Kept(s.completed, BuildEntry(s.draft, options, result))
    BY <2>1 DEF Writes
  <2> QED
    BY <1>3, <1>4, <1>6, <2>2, <2>3, NamesWritten
<1> QED
  BY <1>7, <1>8

\* A deferred task changes what became of the recording, no names.
LEMMA DeferredNames ==
    ASSUME Ready, scene.scope = "test", NamedWorker(process),
           NEW whole, CompleteDeferred(whole),
           NEW q, q = Settle(process')
    PROVE  NamedWorker(q)
<1>1. /\ Posed(process) /\ DOMAIN process = ProcessFields
      /\ process.hook = "flush" /\ process.tasks # <<>>
  BY DEF Ready, Posed, CompleteDeferred
<1>2. PICK s : s = process
  OBVIOUS
<1>3. PICK e : e = CHOOSE x \in s.completed : x.id = Head(s.tasks)
  OBVIOUS
<1>4. e \in s.completed /\ DOMAIN e = EntryFields
  BY <1>1, <1>2, <1>3, TaskEntry DEF Ready
<1>5. /\ Like(q, s, {"tasks", "completed", "write", "then"})
      /\ \E outcome, decision, operation, reason :
            Writes(process', s,
                [e EXCEPT !.timing = "after-worker",
                          !.outcome = outcome, !.decision = decision,
                          !.operation = operation, !.reason = reason],
                "flush")
  <2>1. e = CHOOSE x \in process.completed : x.id = Head(process.tasks)
    BY <1>2, <1>3
  <2>2. /\ Like(q, process, {"tasks", "completed", "write", "then"})
        /\ \E outcome, decision, operation, reason :
              Writes(process', process,
                  [e EXCEPT !.timing = "after-worker",
                            !.outcome = outcome, !.decision = decision,
                            !.operation = operation, !.reason = reason],
                  "flush")
    BY <1>1, <2>1, DeferredEffect
  <2> QED
    BY <1>2, <2>2, Zenon
<1>6. PICK f : /\ q.completed = Kept(s.completed, f)
               /\ f.run = e.run /\ f.cid = e.cid /\ f.id = e.id
               /\ f.scope = e.scope /\ f.spec = e.spec /\ f.test = e.test
               /\ f.covers = e.covers
  <2>1. PICK outcome, decision, operation, reason :
            Writes(process', s,
                [e EXCEPT !.timing = "after-worker",
                          !.outcome = outcome, !.decision = decision,
                          !.operation = operation, !.reason = reason],
                "flush")
    BY <1>5
  <2> DEFINE g == [e EXCEPT !.timing = "after-worker",
                            !.outcome = outcome, !.decision = decision,
                            !.operation = operation, !.reason = reason]
  <2>2. q.completed = Kept(s.completed, g)
    BY <2>1 DEF Writes
  <2>3. /\ g.run = e.run /\ g.cid = e.cid /\ g.id = e.id
        /\ g.scope = e.scope /\ g.spec = e.spec /\ g.test = e.test
        /\ g.covers = e.covers
    BY <1>4 DEF EntryFields
  <2> HIDE DEF g
  <2> QED
    BY <2>2, <2>3
<1>7. SameNames(f, e) /\ Ours(e) /\ NamedWorker(s)
  BY <1>2, <1>4, <1>6 DEF SameNames, NamedWorker
<1>8. Ours(f) /\ \A i : NamedFor(e, i) => NamedFor(f, i)
  BY <1>6, <1>7, NamesSame DEF Ours
<1>9. /\ q.at = s.at /\ Place(q) = Place(s) /\ q.last = s.last
      /\ q.draft = s.draft /\ q.reason = s.reason /\ q.hook = s.hook
      /\ q.resume = s.resume
  BY <1>5 DEF Like, ProcessFields, Place
<1>10. \A x \in q.completed : x = f \/ x \in s.completed
  BY <1>6 DEF Kept
<1>11. Busy(q) => AtWork(q)
  <2> SUFFICES ASSUME Busy(q) PROVE AtWork(q)
    OBVIOUS
  <2>1. AtWork(s)
    BY <1>7, <1>9 DEF NamedWorker, Busy
  <2>2. CASE s.draft # NoDraft
    BY <1>9, <2>1, <2>2 DEF AtWork
  <2>3. CASE s.draft = NoDraft
    BY <1>4, <1>6, <1>8, <1>9, <1>10, <2>1, <2>3 DEF AtWork
  <2> QED
    BY <2>2, <2>3
<1> QED
  BY <1>7, <1>8, <1>9, <1>10, <1>11 DEF NamedWorker

LEMMA OnlySpecGoesOn ==
    ASSUME Decision = "continue-spec"
    PROVE  scene.scope = "spec"
<1> DEFINE skips == scene.attempts = "retries" /\ Retry = 0
           goesOn == scene.scope = "spec" /\ process.recording # None
<1>1. Decision = CASE skips -> "skip"
                   [] ~skips /\ goesOn -> "continue-spec"
                   [] OTHER -> "start"
  BY DEF Decision, StartDecision
<1> HIDE DEF skips
<1>2. goesOn
  BY <1>1
<1> QED
  BY <1>2

\* Whatever the hooks do.
LEMMA WorkerNames ==
    ASSUME Ready, scene.scope = "test", NamedWorker(process),
           process # NoWorker, WorkerStep,
           ~\E reported \in BOOLEAN : ExitWorker(reported),
           NEW q, q = Settle(process')
    PROVE  NamedWorker(q)
<1>1. \A pid : ~StartWorker(pid)
  BY DEF StartWorker
<1>2. ~JoinSpecEntry
  BY DEF JoinSpecEntry
<1>3. ~ContinueSpec
  <2>1. ASSUME Decision = "continue-spec" PROVE FALSE
    BY <2>1, OnlySpecGoesOn
  <2> QED
    BY <2>1 DEF ContinueSpec
<1>4. CASE \E media \in {"done", "capture-failed", "error"} : FinalizeTest(media)
  BY <1>4, FinalizeNames
<1>5. CASE \E whole \in BOOLEAN : CompleteDeferred(whole)
  BY <1>5, DeferredNames
<1>6. CASE \/ \E result \in {"passed", "failed", "skipped"} : RunTest(result)
           \/ \E chromium \in BOOLEAN : ReloadSession(chromium)
           \/ \E media \in {"done", "capture-failed", "error"} : Teardown(media)
           \/ EndTeardown
  BY <1>6, QuietNames
<1>7. CASE StartRecording \/ \E disables \in BOOLEAN : StartFails(disables)
  BY <1>7, StartNames
<1>8. CASE SkipIneligible \/ SkipFirstAttempt
  BY <1>8, SkipNames
<1> QED
  BY <1>1, <1>2, <1>3, <1>4, <1>5, <1>6, <1>7, <1>8, ParallelNames, BeginNames,
     EndNames DEF WorkerStep

----------------------------------------------------------------------------
(* Outcomes bear the names of the tests they are of.                       *)

SaidOf(o) ==
    LET i == o.execution[2]
        test == scene.plan[i].test
    IN
    /\ InPlan(o.execution)
    /\ o.run = Us /\ o.cid = Cid /\ o.spec = scene.plan[i].spec
    /\ scene.framework = "mocha" =>
          /\ o.test.container = None
          /\ o.test.name = test.name /\ o.test.fullName = test.fullName
          /\ o.attempt = o.execution[1] + o.execution[3] + 1
    /\ scene.framework = "cucumber" =>
          /\ o.test.container = test.name /\ o.test.parent = test.id
          /\ o.attempt = Level(o.execution) + 1

LEMMA SaidMore ==
    ASSUME NEW uid, NEW test, NEW retries, NEW scenarioRetries, NEW status,
           NEW result
    PROVE  LET o == Said(uid, test, retries, scenarioRetries, status, result) IN
           /\ o.execution = Place(process) /\ o.run = Us /\ o.cid = Cid
           /\ o.spec = scene.plan[process.at].spec /\ o.test = test
BY Here DEF Said, Planned

LEMMA SaidNames ==
    ASSUME scene \in Scenes, Posed(process), InPlan(Place(process)), NEW result,
           NEW o,
           \/ scene.framework = "mocha" /\ o = TestSaid(result)
           \/ /\ scene.framework # "mocha"
              /\ o \in {StepSaid(1, "passed", result), StepSaid(2, result, result)}
    PROVE  SaidOf(o)
<1>1. /\ Place(process)[1] = process.retry /\ Place(process)[2] = process.at
      /\ Place(process)[3] = process.try /\ process.at \in 1 .. Len(scene.plan)
  BY PlaceFacts DEF Posed
<1>2. /\ Test.name = scene.plan[process.at].test.name
      /\ Test.fullName = scene.plan[process.at].test.fullName
      /\ Test.id = scene.plan[process.at].test.id
  BY <1>1, TestFacts
<1>3. CASE scene.framework = "mocha" /\ o = TestSaid(result)
  <2>1. /\ o.execution = Place(process) /\ o.run = Us /\ o.cid = Cid
        /\ o.spec = scene.plan[process.at].spec
        /\ o.test = [name |-> Test.name, fullName |-> Test.fullName,
                     parent |-> None, container |-> None]
    BY <1>3, SaidMore DEF TestSaid
  <2>2. /\ o.test.container = None /\ o.test.name = Test.name
        /\ o.test.fullName = Test.fullName
    BY <2>1
  <2>3. o.attempt = process.retry + process.try + 1
    BY <1>3, SaidIdentified
  <2> QED
    BY <1>1, <1>2, <1>3, <2>1, <2>2, <2>3 DEF SaidOf
<1>4. CASE scene.framework # "mocha"
  <2>1. /\ o.execution = Place(process) /\ o.run = Us /\ o.cid = Cid
        /\ o.spec = scene.plan[process.at].spec
        /\ o.test.container = Test.name /\ o.test.parent = Test.id
    <3>1. ASSUME NEW step, NEW status, o = StepSaid(step, status, result)
          PROVE  /\ o.execution = Place(process) /\ o.run = Us /\ o.cid = Cid
                 /\ o.spec = scene.plan[process.at].spec
                 /\ o.test.container = Test.name /\ o.test.parent = Test.id
      <4>1. /\ o.execution = Place(process) /\ o.run = Us /\ o.cid = Cid
            /\ o.spec = scene.plan[process.at].spec
            /\ o.test = [name |-> <<"step", step>>, fullName |-> None,
                         parent |-> Test.id, container |-> Test.name]
        BY <3>1, SaidMore DEF StepSaid
      <4> QED
        BY <4>1
    <3> QED
      BY <1>4, <3>1
  <2>2. o.attempt = Level(Place(process)) + 1
    BY <1>4, SaidIdentified
  <2> QED
    BY <1>1, <1>2, <1>4, <2>1, <2>2 DEF SaidOf
<1> QED
  BY <1>3, <1>4

----------------------------------------------------------------------------
(* Names in the whole run.                                                 *)

\* Spec files that are not retried are tried once.
TriedOnce ==
    scene.specRetries = 0 => Len(starts) <= 1 /\ (due => starts = <<>>)

\* The entries of the run, wherever they are.
Held ==
    (IF At(Us, "running") THEN EntriesIn(journals[Us]) ELSE {})
    \union (IF launcher[Us].stage \in Stages
            THEN Range(launcher[Us].run.entries) ELSE {})
    \union PublishedEntries

NamesInv ==
    scene.scope = "test" =>
        /\ TriedOnce
        /\ Alive => NamedWorker(Now)
        /\ \A e \in Held : e = NoEntry \/ Ours(e)
        /\ \A o \in Heard : SaidOf(o)

\* What is named depends on the settings and tests alone.
LEMMA SameNamed ==
    ASSUME scene' = scene
    PROVE  /\ \A q : NamedWorker(q)' <=> NamedWorker(q)
           /\ \A e : Ours(e)' <=> Ours(e)
           /\ \A o : SaidOf(o)' <=> SaidOf(o)
<1>1. /\ \A x : InPlan(x)' <=> InPlan(x)
      /\ \A d, i : NamedFor(d, i)' <=> NamedFor(d, i)
  BY DEF InPlan, Executions, NamedFor, Called, ManifestSpec
<1>2. \A d : Named(d)' <=> Named(d)
  BY <1>1 DEF Named
<1>3. \A e : Ours(e)' <=> Ours(e)
  BY <1>2 DEF Ours, Cid
<1>4. \A q : NamedWorker(q)' <=> NamedWorker(q)
  <2> SUFFICES ASSUME NEW q PROVE NamedWorker(q)' <=> NamedWorker(q)
    OBVIOUS
  <2>1. InPlan(Place(q))' <=> InPlan(Place(q))
    BY <1>1 DEF Place
  <2>2. AtWork(q)' <=> AtWork(q)
    BY <1>1, <1>2 DEF AtWork, NoDraft, Parallel
  <2> QED
    BY <1>3, <2>1, <2>2 DEF NamedWorker, Busy
<1>5. \A o : SaidOf(o)' <=> SaidOf(o)
  BY <1>1 DEF SaidOf, Cid, Level
<1> QED
  BY <1>3, <1>4, <1>5

\* An entry comes into the run as it is written.
LEMMA HeldGrows ==
    ASSUME RecordedInv, PublicationInv, WorkerSound, [Next]_vars, NEW e \in Held'
    PROVE  \/ e \in Held \/ e = NoEntry
           \/ Alive /\ process.hook = "write" /\ e \in Now.completed
<1>1. CASE UNCHANGED <<journals, manifest, launcher>>
  <2>1. /\ PublishedEntries' = PublishedEntries
        /\ EntriesIn(journals[Us])' = EntriesIn(journals[Us])
        /\ At(Us, "running")' <=> At(Us, "running")
        /\ Stages' = Stages
        /\ Range(launcher[Us].run.entries)' = Range(launcher[Us].run.entries)
    BY <1>1 DEF PublishedEntries, OurRuns, Published, EntriesIn, At, Stages, Range
  <2> QED
    BY <1>1, <2>1 DEF Held
<1>2. CASE WorkerWrites
  <2>0. /\ JournalStep /\ UNCHANGED <<manifest, launcher>>
        /\ process # NoWorker /\ Alive
    BY <1>2, JournalEffect DEF WorkerWrites, Alive
  <2>1. CASE journals' = journals
    BY <1>1, <2>0, <2>1
  <2>2. CASE process.hook = "write" /\ \E line :
                 /\ Append1(line) /\ line.ended \in BOOLEAN
                 /\ line.entry \in {NoEntry, process.write}
    <3>1. PICK line : /\ Append1(line) /\ line.ended \in BOOLEAN
                      /\ line.entry \in {NoEntry, process.write}
      BY <2>2
    <3>2. /\ launcher[Us].stage = "running" /\ FilesOK(journals[Us])
          /\ DOMAIN journals = Launchers
      BY <2>0 DEF RecordedInv, WorkerInv, JournalsInv
    <3>3. journals'[Us] = Appended(journals[Us], JournalFile, line)
      BY <3>1, <3>2, UsAssumption, AppendsOne
    <3>4. EntriesIn(journals'[Us]) \subseteq
             EntriesIn(journals[Us]) \union {line.entry, NoEntry}
      BY <3>1, <3>2, <3>3, AppendedEntries DEF FilesOK
    <3>5. process.write \in Now.completed
      BY <2>0, <2>2 DEF WorkerSound, Tells, Now
    <3>6. /\ PublishedEntries' = PublishedEntries
          /\ EntriesIn(journals[Us])' = EntriesIn(journals'[Us])
          /\ At(Us, "running") /\ launcher'[Us].stage \notin Stages'
      BY <2>0, <3>2 DEF PublishedEntries, OurRuns, Published, EntriesIn, At, Stages
    <3>7. e \in EntriesIn(journals'[Us]) \/ e \in PublishedEntries
      BY <3>6 DEF Held
    <3>8. \/ e \in EntriesIn(journals[Us]) \/ e = NoEntry \/ e = process.write
          \/ e \in PublishedEntries
      BY <3>1, <3>4, <3>7
    <3>9. EntriesIn(journals[Us]) \subseteq Held /\ PublishedEntries \subseteq Held
      BY <3>6 DEF Held
    <3> QED
      BY <2>0, <2>2, <3>5, <3>8, <3>9
  <2> QED
    BY <2>0, <2>1, <2>2, JournalSteps, JournalEffect
<1>3. CASE LauncherEffect
  <2>1. \A f \in LatestEntries(journals[Us], Us) : f \in EntriesIn(journals[Us])
    <3> SUFFICES ASSUME NEW f \in LatestEntries(journals[Us], Us)
                 PROVE  f \in EntriesIn(journals[Us])
      OBVIOUS
    <3>1. PICK g \in DOMAIN journals[Us] : \E i \in DOMAIN journals[Us][g] :
             LastAt(journals[Us], g, i) /\ f = journals[Us][g][i].entry
      BY LatestMeans
    <3> QED
      BY <3>1 DEF EntriesIn
  <2>2. Stages' = Stages /\ EntriesIn(journals[Us])' = EntriesIn(journals'[Us])
    BY DEF Stages, EntriesIn
  <2>3. CASE e \in PublishedEntries'
    BY <1>3, <2>3 DEF LauncherEffect, Held
  <2>4. CASE At(Us, "running")' /\ e \in EntriesIn(journals'[Us])
    BY <1>3, <2>4 DEF LauncherEffect, Held
  <2>5. CASE launcher'[Us].stage \in Stages /\ e \in Range(launcher'[Us].run.entries)
    <3>1. CASE At(Us, "running")
      <4>1. e \in LatestEntries(journals[Us], Us) \/
               (launcher[Us].stage \in Stages /\ e \in Range(launcher[Us].run.entries))
        BY <1>3, <2>5 DEF LauncherEffect
      <4> QED
        BY <2>1, <3>1, <4>1 DEF Held
    <3>2. CASE ~At(Us, "running")
      <4>1. launcher[Us].stage \in Stages /\ e \in Range(launcher[Us].run.entries)
        BY <1>3, <2>5, <3>2 DEF LauncherEffect
      <4> QED
        BY <4>1 DEF Held
    <3> QED
      BY <3>1, <3>2
  <2>6. Range(launcher[Us].run.entries)' = Range(launcher'[Us].run.entries)
    BY DEF Range
  <2> QED
    BY <2>2, <2>3, <2>4, <2>5, <2>6 DEF Held
<1>4. CASE WorkerActs \/ UNCHANGED vars
  BY <1>1, <1>4 DEF WorkerActs, vars, manifestVars
<1> QED
  BY <1>2, <1>3, <1>4, NextEffect

----------------------------------------------------------------------------
(* The reporter hears of a test only while it runs.                        *)

LEMMA OnlyTestsSay ==
    ASSUME Ready, process # NoWorker, WorkerStep,
           ~\E reported \in BOOLEAN : ExitWorker(reported),
           NEW q, q = Settle(process')
    PROVE  \/ q.outcomes = process.outcomes
           \/ \E result \in scene.results :
                 /\ RunTest(result) /\ process.hook = "test"
                 /\ q.outcomes = Captured(process.outcomes, result)
<1>1. /\ DOMAIN process = ProcessFields /\ process.resume \in {"exit", "test"}
      /\ process.draft # NoDraft => DOMAIN process.draft = DraftFields
  BY DEF Ready, Posed
<1>2. PICK s, p : s = process /\ p = Attempted
  OBVIOUS
<1>3. Like(p, s, {"seen", "draft"}) /\ p.outcomes = s.outcomes
  <2>1. Like(p, s, {"seen", "draft"})
    BY <1>1, <1>2, AttemptedLike
  <2> QED
    BY <2>1 DEF Like, ProcessFields
<1>4. Like(Advance(s), s, {"try", "at", "bad", "result", "hook"})
  BY <1>1, <1>2, AdvanceLike
<1> DEFINE Same == q.outcomes = s.outcomes
           rest == ProcessFields \ {"outcomes"}
<1>5. ASSUME NEW m, m.outcomes = s.outcomes, Like(q, m, rest) PROVE Same
  BY <1>5 DEF Like, ProcessFields
<1>6. \A m, changed : changed \subseteq rest /\ Like(q, m, changed) => Like(q, m, rest)
  BY DEF Like
<1>7. CASE RecordParallelEntity
  <2>1. Like(q, s, {"hook", "completed", "write", "then", "begun",
                    "overlapRecorded"})
    BY <1>1, <1>2, <1>7, ParallelEffect
  <2> QED
    BY <2>1, <1>2 DEF Like, ProcessFields
<1>8. CASE JoinSpecEntry
  <2>1. Like(q, s, {"hook", "already", "draft"})
    BY <1>1, <1>2, <1>8, JoinEffect DEF JoinSpecEntry
  <2> QED
    BY <2>1, <1>2 DEF Like, ProcessFields
<1>9. CASE BeginEntity
  <2>1. Like(q, s, {"hook", "completed", "write", "then", "begun",
                    "already", "draft"})
    BY <1>1, <1>2, <1>9, BeginEffect
  <2> QED
    BY <2>1, <1>2 DEF Like, ProcessFields
<1>10. CASE SkipIneligible \/ SkipFirstAttempt
  <2>1. PICK m, reason : m \in {s, p} /\ SkipOf(process', m, reason)
    BY <1>1, <1>2, <1>10, SkipEffect, FirstEffect
  <2>2. Like(q, m, {"hook", "completed", "write", "then", "draft", "last"})
    BY <2>1 DEF SkipOf
  <2>3. q.outcomes = m.outcomes
    BY <2>2 DEF Like, ProcessFields
  <2> QED
    BY <1>2, <1>3, <2>1, <2>3
<1>11. CASE ContinueSpec \/ StartRecording
  <2>1. \/ Like(q, p, {"hook", "active"})
        \/ Like(q, p, {"hook", "active", "recording"})
    BY <1>1, <1>2, <1>11, GoOnEffect, StartEffect
  <2>2. q.outcomes = p.outcomes
    BY <2>1 DEF Like, ProcessFields
  <2> QED
    BY <1>2, <1>3, <2>2
<1>12. ASSUME NEW disables, StartFails(disables) PROVE Same
  <2>1. Like(q, p, {"hook", "completed", "write", "then", "draft",
                    "last", "recording", "active", "reason"})
    BY <1>1, <1>2, <1>12, StartFailsEffect
  <2>2. q.outcomes = p.outcomes
    BY <2>1 DEF Like, ProcessFields
  <2> QED
    BY <1>3, <2>2
<1>13. ASSUME NEW result, RunTest(result)
       PROVE  \E x \in scene.results :
                 /\ RunTest(x) /\ process.hook = "test"
                 /\ q.outcomes = Captured(process.outcomes, x)
  BY <1>1, <1>13, TestEffect
<1>14. ASSUME NEW chromium, ReloadSession(chromium) PROVE Same
  <2>1. Like(q, s, {"hook", "resume", "chromium", "reloaded"})
    BY <1>1, <1>2, <1>14, ReloadEffect
  <2> QED
    BY <2>1 DEF Like, ProcessFields
<1>15. CASE EndEntity
  <2>1. CASE s.reason = Parallel
    <3>1. q = Advance(s)
      BY <1>1, <1>2, <1>15, <2>1, EndParallelEffect
    <3> QED
      BY <1>2, <1>4, <3>1 DEF Like, ProcessFields
  <2>2. CASE s.reason # Parallel
    <3>1. Like(q, s, {"hook", "failed", "draft", "completed", "write", "then"})
      BY <1>1, <1>2, <1>15, <2>2, EndEffect
    <3> QED
      BY <1>2, <3>1 DEF Like, ProcessFields
  <2> QED
    BY <2>1, <2>2
<1>16. ASSUME NEW media, FinalizeTest(media) PROVE Same
  <2>1. \/ FinishOf(process', s, NonFailing(TestOutcome),
                    TestOutcome.manifestResult, media, "next")
        \/ q = Advance(s)
    BY <1>1, <1>2, <1>16, FinalizeEffect
  <2>2. Continue(s, "next") = Advance(s)
    BY DEF Continue
  <2>3. \/ Like(q, Advance(s), {"recording", "active", "tasks", "draft",
                               "last", "completed", "write", "then"})
        \/ q = Advance(s)
    BY <2>1, <2>2 DEF FinishOf
  <2>4. q.outcomes = Advance(s).outcomes
    BY <2>3 DEF Like, ProcessFields
  <2> QED
    BY <1>4, <2>4 DEF Like, ProcessFields
<1>17. ASSUME NEW media, Teardown(media) PROVE Same
  <2>1. \/ FinishOf(process', s, ~s.failed, "unknown", media, "flush")
        \/ Like(q, s, {"hook", "recording", "active"})
    BY <1>1, <1>2, <1>17, TeardownEffect
  <2>2. Like(Continue(s, "flush"), s, {"hook"})
    BY <1>1, <1>2, ContinueLike
  <2>3. \/ Like(q, Continue(s, "flush"),
                {"recording", "active", "tasks", "draft", "last",
                 "completed", "write", "then"})
        \/ Like(q, s, {"hook", "recording", "active"})
    BY <2>1 DEF FinishOf
  <2> QED
    BY <2>2, <2>3 DEF Like, ProcessFields
<1>18. ASSUME NEW whole, CompleteDeferred(whole) PROVE Same
  <2>1. PICK e : e = CHOOSE x \in process.completed : x.id = Head(process.tasks)
    OBVIOUS
  <2>2. Like(q, s, {"tasks", "completed", "write", "then"})
    BY <1>1, <1>2, <1>18, <2>1, DeferredEffect
  <2> QED
    BY <2>2 DEF Like, ProcessFields
<1>19. CASE EndTeardown
  <2>1. Like(q, s, {"seen", "failed", "active", "overlapRecorded",
                    "hook", "resume"})
    BY <1>1, <1>2, <1>19, FlushedEffect
  <2>2. Same
    BY <2>1 DEF Like, ProcessFields
  <2> QED
    BY <1>2, <2>2
<1>20. \A pid : ~StartWorker(pid)
  BY DEF StartWorker
<1> QED
  BY <1>2, <1>7, <1>8, <1>9, <1>10, <1>11, <1>12, <1>13, <1>14, <1>15, <1>16,
     <1>17, <1>18, <1>19, <1>20 DEF WorkerStep

LEMMA NewlySaid ==
    ASSUME scene \in Scenes, Posed(process), InPlan(Place(process)),
           NEW result, NEW o \in Range(Captured(process.outcomes, result))
    PROVE  o \in Range(process.outcomes) \/ SaidOf(o)
<1>1. process.outcomes \in Seq(Range(process.outcomes))
  BY DEF Posed
<1>2. \/ o \in Range(process.outcomes)
      \/ scene.framework = "mocha" /\ o = TestSaid(result)
      \/ /\ scene.framework # "mocha"
         /\ \/ o = StepSaid(1, "passed", result)
            \/ o = StepSaid(2, result, result)
  BY <1>1, TakenDown
<1> QED
  BY <1>2, SaidNames

----------------------------------------------------------------------------
(* Names are kept.                                                         *)

\* A worker is started anew when it failed and retries are left.
DueEffect ==
    \/ due' = due
    \/ \E failed : due' = (failed /\ Len(starts) <= scene.specRetries)

LEMMA DueSteps ==
    ASSUME process # NoWorker, WorkerStep \/ JournalStep
    PROVE  DueEffect
<1>1. CASE WorkerStep
  <2>1. \A pid : ~StartWorker(pid)
    BY DEF StartWorker
  <2>2. ASSUME NEW reported, ExitWorker(reported) PROVE DueEffect
    BY <2>2 DEF ExitWorker, WorkerEnds, DueEffect
  <2>3. CASE ~\E reported \in BOOLEAN : ExitWorker(reported)
    <3>1. due' = due
      BY <1>1, <2>1, <2>3 DEF WorkerStep, RecordParallelEntity, JoinSpecEntry,
         BeginEntity, SkipIneligible, SkipFirstAttempt, ContinueSpec,
         StartRecording, StartFails, RunTest, ReloadSession, EndEntity,
         FinalizeTest, Teardown, CompleteDeferred, EndTeardown
    <3> QED
      BY <3>1 DEF DueEffect
  <2> QED
    BY <2>2, <2>3
<1>2. CASE JournalStep
  <2>1. ASSUME NEW left, KillWorker(left) PROVE DueEffect
    BY <2>1 DEF KillWorker, WorkerEnds, DueEffect
  <2>2. CASE WriteLine \/ \E torn \in BOOLEAN : WriteFails(torn)
    BY <2>2 DEF WriteLine, WriteFails, DueEffect
  <2> QED
    BY <1>2, <2>1, <2>2 DEF JournalStep
<1> QED
  BY <1>1, <1>2

LEMMA TriedStill ==
    ASSUME TriedOnce, UNCHANGED <<scene, starts>>, starts \in Seq({TheKey}),
           starts # <<>>, DueEffect
    PROVE  TriedOnce'
<1> SUFFICES ASSUME scene.specRetries = 0
             PROVE  Len(starts) <= 1 /\ ~due'
  BY DEF TriedOnce
<1>1. Len(starts) \in Nat \ {0} /\ Len(starts) <= 1
  BY DEF TriedOnce
<1>2. ~due
  BY DEF TriedOnce
<1>3. ~(Len(starts) <= scene.specRetries)
  BY <1>1
<1>4. ~due'
  BY <1>2, <1>3, Zenon DEF DueEffect
<1> QED
  BY <1>1, <1>4

LEMMA StartNamed ==
    ASSUME NamesInv, WorkerSound, scene.scope = "test", NEW pid, StartWorker(pid)
    PROVE  TriedOnce' /\ NamedWorker(Now') /\ Heard' \subseteq Heard
<1>1. /\ process = NoWorker /\ ~Alive /\ scene \in Scenes /\ due /\ ~due'
      /\ UNCHANGED <<scene, fragments>>
      /\ starts \in Seq({TheKey}) /\ Len(starts) \in Nat
      /\ process' = NewProcess(pid, Len(starts))
      /\ starts' = Append(starts, TheKey)
  BY OneKey, AllOccur DEF StartWorker, WorkerSound, Alive
<1>2. PICK n, q : n = Len(starts) /\ q = process'
  OBVIOUS
<1>3. /\ DOMAIN q = ProcessFields /\ q.retry = n /\ q.at = 1 /\ q.try = 0
      /\ q.hook = "begin" /\ q.resume = "exit"
      /\ q.outcomes = <<>> /\ q.completed = {}
  BY <1>1, <1>2 DEF NewProcess, ProcessFields
<1>4. Now' = q
  BY <1>1, <1>2, <1>3, SameScene DEF Settle
<1>5. scene.specRetries = 0 => n = 0 /\ Len(starts') = 1
  BY <1>1, <1>2 DEF NamesInv, TriedOnce
<1>6. TriedOnce'
  BY <1>1, <1>5 DEF TriedOnce
<1>7. Len(scene.plan) \in Nat \ {0} /\ 1 \in 1 .. Len(scene.plan)
  BY <1>1, PlanLength
<1>8. scene.plan[1].retries \in Nat
  BY <1>1, <1>7, PlanFacts
<1>9. InPlan(Place(q))
  BY <1>1, <1>2, <1>3, <1>5, <1>7, <1>8 DEF InPlan, Place, Executions
<1>10. NamedWorker(q)
  BY <1>3, <1>9 DEF NamedWorker, Busy
<1>11. Heard' \subseteq Heard
  <2>1. Range(<<>>) = {} /\ Reported' = Reported
    BY <1>1 DEF Range, Reported
  <2>2. Heard' \subseteq Reported
    BY <1>2, <1>3, <1>4, <2>1 DEF Heard, HeardOf
  <2> QED
    BY <1>1, <2>2 DEF Heard
<1> QED
  BY <1>4, <1>6, <1>10, <1>11

LEMMA ReadyNow ==
    ASSUME WorkerSound, WorkerInv, Alive, process.hook # "write"
    PROVE  Ready /\ Now = process
<1>1. Now = process /\ process # NoWorker
  BY Quiet DEF Alive
<1>2. /\ scene \in Scenes /\ Posed(process)
      /\ SoundWorker(process, ElapsedOf(process), HeardOf(process))
  BY <1>1 DEF WorkerSound
<1>3. \E ids : Holds(process, ids, {})
  BY <1>1 DEF WorkerInv
<1>4. Unreported = process.retry /\ process.retry \in Nat
  BY <1>1, <1>2 DEF Unreported, Posed
<1>5. \A o \in Reported : o.execution[1] # process.retry
  <2>1. \A o \in Reported : o.execution[1] < process.retry
    BY <1>4 DEF WorkerSound
  <2> QED
    BY <1>4, <2>1
<1>6. \A o \in HeardOf(process) : o.execution \in ElapsedOf(process)
  BY <1>1 DEF WorkerSound, GoodOutcome, Heard, Elapsed
<1> QED
  BY <1>1, <1>2, <1>3, <1>5, <1>6 DEF Ready

\* The worker is gone.
LEMMA GoneNamed ==
    ASSUME NamesInv, scene.scope = "test", WorkerSound, Alive,
           process' = NoWorker, UNCHANGED <<scene, starts>>, DueEffect,
           fragments' \in {fragments, Append(fragments, Now.outcomes)}
    PROVE  TriedOnce' /\ ~Alive' /\ Heard' \subseteq Heard
<1>1. /\ starts \in Seq({TheKey}) /\ starts # <<>> /\ TriedOnce
  BY DEF WorkerSound, Posed, NamesInv
<1>2. ~Alive' /\ Heard' = Reported'
  BY DEF Alive, Heard
<1>3. Reported' \subseteq Reported \union Range(Now.outcomes)
  <2>1. CASE fragments' = fragments
    BY <2>1 DEF Reported
  <2>2. CASE fragments' = Append(fragments, Now.outcomes)
    <3> DEFINE n == Len(fragments)
    <3>1. /\ n \in Nat /\ DOMAIN fragments' = 1 .. n + 1
          /\ DOMAIN fragments = 1 .. n
          /\ \A i \in 1 .. n : fragments'[i] = fragments[i]
          /\ fragments'[n + 1] = Now.outcomes
      BY <2>2 DEF WorkerSound
    <3>2. \A i \in 1 .. n + 1 : i \in 1 .. n \/ i = n + 1
      BY <3>1
    <3> QED
      BY <3>1, <3>2 DEF Reported
  <2> QED
    BY <2>1, <2>2
<1> QED
  BY <1>1, <1>2, <1>3, TriedStill DEF Heard, HeardOf

LEMMA ActsNamed ==
    ASSUME NamesInv, scene.scope = "test", WorkerSound, WorkerInv, WorkerActs
    PROVE  /\ scene' = scene /\ TriedOnce'
           /\ Alive' => NamedWorker(Now')
           /\ \A o \in Heard' : SaidOf(o)
<1>0. WorkerStep /\ scene' = scene /\ \A o \in Heard : SaidOf(o)
  BY StepRest DEF WorkerActs, NamesInv
<1>1. CASE process = NoWorker
  <2>1. PICK pid \in Pids : StartWorker(pid)
    <3>1. process.hook = "none" /\ ~Eligible
      BY <1>1 DEF NoWorker, Eligible
    <3> QED
      BY <1>0, <3>1 DEF WorkerStep, RecordParallelEntity, JoinSpecEntry,
         BeginEntity, SkipIneligible, SkipFirstAttempt, ContinueSpec,
         StartRecording, StartFails, RunTest, ReloadSession, EndEntity,
         FinalizeTest, Teardown, CompleteDeferred, EndTeardown, ExitWorker
  <2> QED
    BY <1>0, <2>1, StartNamed
<1>2. CASE process # NoWorker
  <2>1. Ready /\ Now = process /\ Alive /\ DueEffect /\ NamedWorker(process)
    BY <1>0, <1>2, HookGuards, ReadyNow, DueSteps DEF Alive, NamesInv
  <2>2. /\ starts \in Seq({TheKey}) /\ starts # <<>> /\ TriedOnce
        /\ scene \in Scenes /\ Posed(process)
    BY <2>1 DEF WorkerSound, Posed, NamesInv
  <2>3. ASSUME NEW reported \in BOOLEAN, ExitWorker(reported)
        PROVE  TriedOnce' /\ ~Alive' /\ Heard' \subseteq Heard
    <3>1. /\ process' = NoWorker /\ UNCHANGED <<scene, starts>>
          /\ fragments' \in {fragments, Append(fragments, process.outcomes)}
      BY <2>3 DEF ExitWorker, WorkerEnds
    <3> QED
      BY <2>1, <3>1, GoneNamed
  <2>4. CASE ~\E reported \in BOOLEAN : ExitWorker(reported)
    <3>1. UNCHANGED <<scene, starts, fragments>>
      BY <1>0, <1>2, <2>4, StepFrame
    <3>2. PICK q : q = Settle(process')
      OBVIOUS
    <3>3. Now' = q /\ Reported' = Reported
      BY <3>1, <3>2, SameScene DEF Reported
    <3>4. NamedWorker(q)
      BY <1>0, <1>2, <2>1, <2>4, <3>2, WorkerNames
    <3>5. \A o \in Range(q.outcomes) : SaidOf(o)
      <4>0. \A o \in Range(process.outcomes) : SaidOf(o)
        BY <1>0, <2>1 DEF Heard, HeardOf
      <4>1. CASE q.outcomes = process.outcomes
        BY <4>0, <4>1
      <4>2. ASSUME NEW result, q.outcomes = Captured(process.outcomes, result)
            PROVE  \A o \in Range(q.outcomes) : SaidOf(o)
        BY <2>1, <2>2, <4>0, <4>2, NewlySaid DEF NamedWorker
      <4> QED
        BY <1>0, <1>2, <2>1, <2>4, <3>2, <4>1, <4>2, OnlyTestsSay
    <3>6. Heard' \subseteq Reported \union Range(q.outcomes)
      BY <3>3 DEF Heard, HeardOf
    <3>7. \A o \in Reported : SaidOf(o)
      BY <1>0, <2>1 DEF Heard, HeardOf
    <3>8. TriedOnce'
      BY <2>1, <2>2, <3>1, TriedStill
    <3> QED
      BY <1>0, <3>3, <3>4, <3>5, <3>6, <3>7, <3>8
  <2> QED
    BY <1>0, <2>3, <2>4
<1> QED
  BY <1>1, <1>2

LEMMA WritesNamed ==
    ASSUME NamesInv, scene.scope = "test", WorkerSound, WorkerInv, JournalStep
    PROVE  /\ scene' = scene /\ TriedOnce'
           /\ Alive' => NamedWorker(Now')
           /\ \A o \in Heard' : SaidOf(o)
<1>1. /\ process # NoWorker /\ Alive /\ UNCHANGED <<scene, starts, fragments>>
      /\ DueEffect
  BY JournalEffect, DueSteps DEF Alive
<1>2. /\ starts \in Seq({TheKey}) /\ starts # <<>> /\ TriedOnce
      /\ NamedWorker(Now) /\ Posed(Now) /\ \A o \in Heard : SaidOf(o)
  BY <1>1 DEF WorkerSound, Posed, NamesInv
<1>3. CASE process' = NoWorker
  BY <1>1, <1>2, <1>3, GoneNamed
<1> DEFINE p == [process EXCEPT !.write = NoEntry]
<1>4. ASSUME process.hook = "write", NEW then, process' = Continue(p, then),
             \/ then = process.then
             \/ process.then = "eligible" /\ then = "test"
             \/ process.then = "flush" /\ then = "reset"
      PROVE  NamedWorker(Now') /\ Heard' \subseteq Heard
  <2>1. DOMAIN process = ProcessFields /\ DOMAIN p = ProcessFields
    BY <1>1 DEF WorkerInv, Holds
  <2>2. Now = Continue(p, process.then)
    BY <1>4 DEF Now, Settle
  <2>3. PICK s, q : s = Now /\ q = process'
    OBVIOUS
  <2> HIDE DEF p
  <2>4. /\ q.retry = s.retry /\ q.at = s.at /\ q.try = s.try
        /\ q.outcomes = s.outcomes /\ q.completed = s.completed
        /\ q.draft = s.draft /\ q.reason = s.reason /\ q.last = s.last
        /\ \/ q = s
           \/ s.hook = "eligible" /\ q.hook = "test" /\ q.resume = s.resume
           \/ s.hook = "flush" /\ q.hook = s.resume /\ q.resume = "exit"
    <3>1. CASE then = process.then
      <4>1. q = s
        BY <1>4, <2>2, <2>3, <3>1
      <4> QED
        BY <4>1
    <3>2. CASE process.then = "eligible" /\ then = "test"
      <4>1. /\ Like(s, p, {"hook"}) /\ s.hook = "eligible"
            /\ Like(q, p, {"hook"}) /\ q.hook = "test"
        BY <1>4, <2>1, <2>2, <2>3, <3>2, ContinueLike
      <4> QED
        BY <4>1 DEF Like, ProcessFields
    <3>3. CASE process.then = "flush" /\ then = "reset"
      <4>1. Like(s, p, {"hook"}) /\ s.hook = "flush"
        BY <1>4, <2>1, <2>2, <2>3, <3>3, ContinueLike
      <4>2. q = ResetWorkerState(p)
        BY <1>4, <2>3, <3>3 DEF Continue
      <4>3. /\ Like(q, p, {"seen", "failed", "active", "overlapRecorded",
                           "hook", "resume"})
            /\ q.hook = p.resume /\ q.resume = "exit"
        BY <2>1, <4>2, ResetLike
      <4> QED
        BY <4>1, <4>3 DEF Like, ProcessFields
    <3> QED
      BY <1>4, <3>1, <3>2, <3>3
  <2>5. /\ s.resume \in {"exit", "test"} /\ s.hook \in Hooks
        /\ s.resume = "test" => s.hook \in {"teardown", "flush"}
        /\ NamedWorker(s)
    BY <1>2, <2>3 DEF Posed
  <2>6. q.hook # "write" /\ Now' = q
    <3>1. q.hook # "write"
      BY <2>4, <2>5 DEF Hooks
    <3>2. Now' = Settle(process')
      BY <1>1, SameScene
    <3> QED
      BY <2>3, <3>1, <3>2 DEF Settle
  <2>7. /\ Busy(q) => Busy(s)
        /\ q.hook = "eligible" => s.hook = "eligible"
    BY <2>4, <2>5 DEF Busy
  <2>8. Place(q) = Place(s) /\ SameNames(q.draft, s.draft)
    BY <2>4 DEF Place, SameNames
  <2>9. NamedWorker(q)
    BY <2>4, <2>5, <2>7, <2>8, NamesStay
  <2>10. Heard' \subseteq Heard
    <3>1. Reported' = Reported
      BY <1>1 DEF Reported
    <3>2. Heard = Reported \union Range(s.outcomes)
      BY <1>1, <2>3 DEF Heard, HeardOf
    <3>3. Heard' \subseteq Reported \union Range(q.outcomes)
      BY <2>6, <3>1 DEF Heard, HeardOf
    <3> QED
      BY <2>4, <3>2, <3>3
  <2> QED
    BY <2>6, <2>9, <2>10
<1>5. TriedOnce'
  BY <1>1, <1>2, TriedStill
<1> QED
  BY <1>1, <1>2, <1>3, <1>4, <1>5, JournalEffect

\* The launchers and stuttering leave the worker and its reports alone.
LEMMA RestNamed ==
    ASSUME NamesInv, scene.scope = "test",
           UNCHANGED <<scene, process, starts, due, fragments>>
    PROVE  /\ TriedOnce'
           /\ Alive' => NamedWorker(Now')
           /\ \A o \in Heard' : SaidOf(o)
<1>1. Reported' = Reported /\ Alive' = Alive /\ TriedOnce' = TriedOnce
  BY DEF Reported, Alive, TriedOnce
<1>2. Now' = Now
  BY SameScene DEF Now
<1>3. Heard' = Heard
  BY <1>1, <1>2 DEF Heard, HeardOf
<1> QED
  BY <1>1, <1>2, <1>3 DEF NamesInv

LEMMA NamesKeeps ==
    ASSUME NamesInv, SoundInv, RecordedInv, PublicationInv, [Next]_vars
    PROVE  NamesInv'
<1>0. WorkerSound /\ WorkerInv
  BY DEF SoundInv, RecordedInv
<1>1. ASSUME scene.scope = "test"
      PROVE  /\ scene' = scene /\ TriedOnce'
             /\ Alive' => NamedWorker(Now')
             /\ \A o \in Heard' : SaidOf(o)
  <2>1. CASE WorkerActs
    BY <1>0, <1>1, <2>1, ActsNamed
  <2>2. CASE WorkerWrites
    BY <1>0, <1>1, <2>2, WritesNamed DEF WorkerWrites
  <2>3. CASE LauncherEffect
    BY <1>1, <2>3, RestNamed DEF LauncherEffect
  <2>4. CASE UNCHANGED vars
    BY <1>1, <2>4, RestNamed DEF vars, workerVars
  <2> QED
    BY <2>1, <2>2, <2>3, <2>4, NextEffect
<1>2. scene' = scene
  <2>1. CASE WorkerActs
    BY <2>1, StepRest DEF WorkerActs
  <2>2. CASE WorkerWrites
    BY <2>2, JournalEffect DEF WorkerWrites
  <2>3. CASE LauncherEffect
    BY <2>3 DEF LauncherEffect
  <2>4. CASE UNCHANGED vars
    BY <2>4 DEF vars, workerVars
  <2> QED
    BY <2>1, <2>2, <2>3, <2>4, NextEffect
<1>3. ASSUME scene.scope = "test", NEW e \in Held'
      PROVE  e = NoEntry \/ Ours(e)
  <2>1. \/ e \in Held \/ e = NoEntry
        \/ Alive /\ process.hook = "write" /\ e \in Now.completed
    BY <1>0, HeldGrows
  <2> QED
    BY <1>3, <2>1 DEF NamesInv, NamedWorker
<1>4. /\ \A q : NamedWorker(q)' <=> NamedWorker(q)
      /\ \A e : Ours(e)' <=> Ours(e)
      /\ \A o : SaidOf(o)' <=> SaidOf(o)
  BY <1>2, SameNamed
<1>5. NoEntry' = NoEntry
  BY DEF NoEntry
<1>6. ASSUME scene.scope = "test"
      PROVE  /\ (Alive => NamedWorker(Now))'
             /\ (\A e \in Held : e = NoEntry \/ Ours(e))'
             /\ (\A o \in Heard : SaidOf(o))'
  BY <1>1, <1>3, <1>4, <1>5, <1>6
<1> QED
  BY <1>1, <1>2, <1>6 DEF NamesInv

LEMMA InitNames ==
    ASSUME Init
    PROVE  NamesInv
<1>1. /\ scene \in Scenes /\ process = NoWorker /\ starts = <<>> /\ due
      /\ fragments = <<>>
      /\ journals[Us] = NoJournals /\ Published = {}
      /\ launcher[Us].stage = "running"
  BY UsAssumption DEF Init, InitWorkers, InitManifest, Published, NoManifest,
     InvalidManifest, Manifest
<1>2. ~Alive /\ Reported = {} /\ Heard = {}
  BY <1>1 DEF Alive, Reported, Heard
<1>3. EntriesIn(NoJournals) = {} /\ PublishedEntries = {}
  BY <1>1 DEF EntriesIn, NoJournals, PublishedEntries, OurRuns
<1>4. Held = {}
  BY <1>1, <1>3 DEF Held, At, Stages
<1>5. TriedOnce
  BY <1>1 DEF TriedOnce
<1> QED
  BY <1>2, <1>4, <1>5 DEF NamesInv

\* Wherever they are, entries of a test bear the name and spec file of the
\* tests whose executions they stand for, and outcomes those of theirs, with
\* the attempt the reporter counts (createDraft of manifest-runtime.ts,
\* _captureOutcome of reporter.ts).
THEOREM NamesInvariant ==
    Spec => [](PublicationInv /\ RecordedInv /\ SoundInv /\ NamesInv)
<1>1. Init => NamesInv
  BY InitNames
<1>2. NamesInv /\ (PublicationInv /\ RecordedInv /\ SoundInv) /\ [Next]_vars
         => NamesInv'
  BY NamesKeeps
<1> QED
  BY <1>1, <1>2, ResultsInvariant, PTL DEF Spec

----------------------------------------------------------------------------
(* What is reported of a Mocha run is reported once.                       *)

Distinct(s) ==
    \A a, b \in DOMAIN s : s[a].execution = s[b].execution => a = b

Disjoint(s, t) ==
    \A a \in DOMAIN s, b \in DOMAIN t : s[a].execution # t[b].execution

Apart(seqs) ==
    /\ \A i \in DOMAIN seqs : Distinct(seqs[i])
    /\ \A i, j \in DOMAIN seqs : i # j => Disjoint(seqs[i], seqs[j])

LEMMA ConcatApart ==
    ASSUME NEW s, s \in Seq(Range(s)), NEW t, t \in Seq(Range(t)),
           Distinct(s), Distinct(t), Disjoint(s, t)
    PROVE  /\ Distinct(s \o t)
           /\ \A u : Disjoint(s, u) /\ Disjoint(t, u) => Disjoint(s \o t, u)
<1>1. PICK T : T = Range(s) \union Range(t)
  OBVIOUS
<1>2. s \in Seq(T) /\ t \in Seq(T)
  <2>1. Range(s) \subseteq T /\ Range(t) \subseteq T
    BY <1>1
  <2> QED
    BY <2>1, SeqOfMore
<1>3. PICK u, n, m : u = s \o t /\ n = Len(s) /\ m = Len(t)
  OBVIOUS
<1>4. /\ n \in Nat /\ m \in Nat
      /\ DOMAIN s = 1 .. n /\ DOMAIN t = 1 .. m /\ DOMAIN u = 1 .. n + m
      /\ \A i \in 1 .. n + m : IF i <= n THEN u[i] = s[i] ELSE u[i] = t[i - n]
  BY <1>2, <1>3
<1>5. \A i \in DOMAIN u : \/ i \in DOMAIN s /\ u[i] = s[i]
                          \/ i - n \in DOMAIN t /\ u[i] = t[i - n]
  BY <1>4
<1>6. \A i, j \in DOMAIN u : i - n = j - n => i = j
  BY <1>4
<1>7. Distinct(u)
  BY <1>5, <1>6 DEF Distinct, Disjoint
<1>8. \A v : Disjoint(s, v) /\ Disjoint(t, v) => Disjoint(u, v)
  BY <1>5 DEF Disjoint
<1> QED
  BY <1>3, <1>7, <1>8

LEMMA FlattenApart ==
    ASSUME NEW seqs, Lists(seqs), seqs # <<>>, Apart(seqs)
    PROVE  Distinct(FlattenSeq(seqs))
<1> DEFINE N == Len(seqs)
           flat == CHOOSE f : Flattened(f, seqs, N)
<1>1. N \in Nat /\ N >= 1 /\ DOMAIN seqs = 1 .. N
  BY DEF Lists
<1>2. Flattened(flat, seqs, N)
  BY <1>1, FlattenExists
<1>3. FlattenSeq(seqs) = flat[N]
  BY <1>1 DEF FlattenSeq, Flattened
<1> HIDE DEF flat
<1>4. \A i \in 1 .. N :
         flat[i] = IF i = 1 THEN seqs[i] ELSE flat[i - 1] \o seqs[i]
  BY <1>2 DEF Flattened
<1> DEFINE Good(n) ==
             /\ flat[n] \in Seq(Range(flat[n]))
             /\ Distinct(flat[n])
             /\ \A j \in 1 .. N : n < j => Disjoint(flat[n], seqs[j])
           wrong == {n \in 1 .. N : ~Good(n)}
<1>5. ASSUME NEW n \in 1 .. N, n # 1 => Good(n - 1)
      PROVE  Good(n)
  <2>0. /\ seqs[n] \in Seq(Range(seqs[n])) /\ Distinct(seqs[n])
        /\ \A j \in 1 .. N : n < j => Disjoint(seqs[n], seqs[j])
    <3>1. \A j \in 1 .. N : n < j => n # j
      BY <1>1
    <3>2. n \in DOMAIN seqs
      BY <1>1
    <3>3. seqs[n] \in Seq(Range(seqs[n]))
      BY <3>2 DEF Lists
    <3>4. Distinct(seqs[n]) /\ \A j \in DOMAIN seqs : n # j => Disjoint(seqs[n], seqs[j])
      BY <3>2, Zenon DEF Apart
    <3>5. ASSUME NEW j \in 1 .. N, n < j PROVE Disjoint(seqs[n], seqs[j])
      <4>1. j \in DOMAIN seqs /\ n # j
        BY <1>1, <3>1, <3>5
      <4> QED
        BY <3>4, <4>1, Zenon
    <3> QED
      BY <3>3, <3>4, <3>5
  <2>1. CASE n = 1
    <3>1. flat[n] = seqs[n]
      BY <1>4, <2>1
    <3> QED
      BY <2>0, <3>1
  <2>2. CASE n # 1
    <3>0. flat[n] = flat[n - 1] \o seqs[n]
      BY <1>4, <2>2
    <3>1. PICK before, piece : before = flat[n - 1] /\ piece = seqs[n]
      OBVIOUS
    <3>2. flat[n] = before \o piece /\ n - 1 < n
      BY <1>1, <3>0, <3>1
    <3>3. /\ before \in Seq(Range(before)) /\ Distinct(before)
          /\ \A j \in 1 .. N : n - 1 < j => Disjoint(before, seqs[j])
      BY <1>5, <2>2, <3>1
    <3>4. Disjoint(before, piece)
      BY <3>1, <3>2, <3>3
    <3>5. /\ before \o piece \in Seq(Range(before \o piece))
          /\ Distinct(before \o piece)
          /\ \A u : Disjoint(before, u) /\ Disjoint(piece, u)
                       => Disjoint(before \o piece, u)
      BY <2>0, <3>1, <3>3, <3>4, ConcatHolds, ConcatApart
    <3>6. \A j \in 1 .. N : n < j => n - 1 < j
      BY <1>1
    <3> QED
      BY <2>0, <3>1, <3>2, <3>3, <3>5, <3>6
  <2> QED
    BY <2>1, <2>2
<1> HIDE DEF Good
<1>6. CASE wrong # {}
  <2>1. wrong \in SUBSET Nat
    OBVIOUS
  <2>2. PICK n : n = Min(wrong)
    OBVIOUS
  <2>3. n \in wrong /\ \A k \in wrong : n <= k
    <3> HIDE DEF wrong
    <3> QED
      BY <1>6, <2>1, <2>2, LeastOf
  <2>4. n \in 1 .. N /\ ~Good(n)
    BY <2>3
  <2>5. n # 1 => n - 1 \in 1 .. N /\ ~(n <= n - 1)
    BY <2>4
  <2>6. n # 1 => Good(n - 1)
    BY <2>3, <2>5
  <2> QED
    BY <1>5, <2>4, <2>6
<1>7. CASE wrong = {}
  <2>1. Good(N)
    BY <1>1, <1>7
  <2> QED
    BY <1>3, <2>1 DEF Good
<1> QED
  BY <1>6, <1>7

LEMMA ReverseApart ==
    ASSUME NEW seqs, Lists(seqs), Apart(seqs)
    PROVE  Apart(Reverse(seqs))
<1> DEFINE N == Len(seqs)
<1>1. N \in Nat /\ DOMAIN seqs = 1 .. N
  BY DEF Lists
<1>2. PICK r : r = Reverse(seqs)
  OBVIOUS
<1>3. r = [i \in 1 .. N |-> seqs[(N - i) + 1]]
  BY <1>2 DEF Reverse
<1>4. \A i \in DOMAIN r : (N - i) + 1 \in DOMAIN seqs /\ r[i] = seqs[(N - i) + 1]
  BY <1>1, <1>3
<1>5. \A i, j \in DOMAIN r : i # j => (N - i) + 1 # (N - j) + 1
  BY <1>1, <1>3
<1>6. Apart(r)
  BY <1>4, <1>5 DEF Apart
<1> QED
  BY <1>2, <1>6

----------------------------------------------------------------------------
(* One run, of entries, with one report.                                   *)

SingleRun == \A run \in OurRuns : run = launcher[Us].run

Readable ==
    /\ launcher[Us].stage \in Stages =>
          NoEntry \notin Range(launcher[Us].run.entries)
    /\ NoEntry \notin PublishedEntries

SaidOnce ==
    scene.framework = "mocha" =>
        /\ Alive => Distinct(Now.outcomes)
        /\ Apart(fragments)
        /\ report # None => Distinct(report)

OnceInv == SingleRun /\ Readable /\ SaidOnce

\* A step of a launcher, by whose it is.
LauncherCases ==
    /\ UNCHANGED <<scene, process, starts, fragments>>
    /\ \/ /\ \E code : \/ Aggregate(Us, code) \/ Persist(Us) \/ PersistFails(Us)
                       \/ /\ At(Us, "reporting") /\ Moves(Us, "done")
                          /\ UNCHANGED <<journals, manifest, lock>>
          /\ report' = report \/ GenerateReport
       \/ /\ \E l \in Others :
                \/ Aggregate(l, 0) \/ Persist(l) \/ PersistFails(l)
                \/ /\ At(l, "reporting") /\ Moves(l, "done")
                   /\ UNCHANGED <<journals, manifest, lock>>
          /\ report' = report

LEMMA NextCases ==
    ASSUME Next
    PROVE  WorkerActs \/ WorkerWrites \/ LauncherCases
<1>1. CASE CompleteRun
  BY <1>1 DEF CompleteRun, workerVars, LauncherCases
<1>2. CASE PersistRun
  BY <1>2 DEF PersistRun, workerVars, LauncherCases
<1>3. CASE PersistRunFails
  BY <1>3 DEF PersistRunFails, LauncherCases
<1>4. CASE GenerateReport
  <2>1. /\ At(Us, "reporting") /\ Moves(Us, "done")
        /\ UNCHANGED <<journals, manifest, lock, scene, process, starts, fragments>>
    BY <1>4 DEF GenerateReport, workerVars
  <2> QED
    BY <1>4, <2>1 DEF LauncherCases
<1>5. CASE ReportFails
  BY <1>5 DEF ReportFails, LauncherCases
<1>6. ASSUME NEW l \in Others, OtherCompletes(l) PROVE LauncherCases
  BY <1>6 DEF OtherCompletes, workerVars, LauncherCases
<1>7. ASSUME NEW l \in Others, OtherFails(l) PROVE LauncherCases
  BY <1>7 DEF OtherFails, LauncherCases
<1> QED
  BY <1>1, <1>2, <1>3, <1>4, <1>5, <1>6, <1>7 DEF Next

\* Only onComplete gives a launcher its run.
LEMMA RunStays ==
    ASSUME PublicationInv,
           \/ Persist(Us) \/ PersistFails(Us)
           \/ /\ At(Us, "reporting") /\ Moves(Us, "done")
              /\ UNCHANGED <<journals, manifest, lock>>
    PROVE  launcher'[Us].run = launcher[Us].run
<1> USE UsAssumption
<1>0. LauncherShape
  BY DEF PublicationInv
<1>1. ASSUME NEW stage, Moves(Us, stage) PROVE launcher'[Us].run = launcher[Us].run
  BY <1>0, <1>1, MovesOne
<1>2. ASSUME NEW ok,
             launcher' = [launcher EXCEPT ![Us].stage = "releasing", ![Us].ok = ok]
      PROVE  launcher'[Us].run = launcher[Us].run
  BY <1>0, <1>2, EndsWith
<1>3. CASE launcher' = [launcher EXCEPT ![Us].stage = "publishing",
                                        ![Us].existing = Published]
  BY <1>0, <1>3 DEF LauncherShape, Fields
<1>4. CASE Persist(Us)
  BY <1>1, <1>2, <1>3, <1>4 DEF Persist, AcquireManifestLock, ReadExisting,
     PublishRun, CleanupRun, ReleaseManifestLock, Fails
<1>5. CASE PersistFails(Us)
  BY <1>1, <1>2, <1>5 DEF PersistFails, GiveUpManifest, PublishFails,
     CleanupFails, KillLauncher, Fails
<1> QED
  BY <1>1, <1>4, <1>5

LEMMA SingleKeeps ==
    ASSUME SingleRun, RecordedInv, PublicationInv, [Next]_vars
    PROVE  SingleRun'
<1> USE UsAssumption
<1>1. CASE UNCHANGED <<manifest, launcher>>
  BY <1>1 DEF SingleRun, OurRuns, Published
<1>2. ASSUME NEW code,
             \/ Aggregate(Us, code) \/ Persist(Us) \/ PersistFails(Us)
             \/ /\ At(Us, "reporting") /\ Moves(Us, "done")
                /\ UNCHANGED <<journals, manifest, lock>>
      PROVE  SingleRun'
  <2>1. \A run \in Published' :
           \/ run \in Published
           \/ launcher[Us].stage = "publishing" /\ run = launcher[Us].run
    BY <1>2, LauncherSteps DEF WorkerInv, RecordedInv
  <2>2. CASE Aggregate(Us, code)
    <3>1. launcher[Us].stage = "running"
      BY <2>2 DEF Aggregate, At
    <3>2. OurRuns' = {}
      BY <2>1, <3>1 DEF OurRuns, PublicationInv, RunsNamed, AfterPublishing
    <3> QED
      BY <3>2 DEF SingleRun
  <2>3. CASE ~Aggregate(Us, code)
    <3>1. launcher'[Us].run = launcher[Us].run
      BY <1>2, <2>3, RunStays
    <3> QED
      BY <2>1, <3>1 DEF SingleRun, OurRuns
  <2> QED
    BY <2>2, <2>3
<1>3. ASSUME NEW l \in Others,
             \/ Aggregate(l, 0) \/ Persist(l) \/ PersistFails(l)
             \/ /\ At(l, "reporting") /\ Moves(l, "done")
                /\ UNCHANGED <<journals, manifest, lock>>
      PROVE  SingleRun'
  <2>0. l \in Launchers /\ Us \in Launchers \ {l}
    BY DEF Others
  <2>1. /\ launcher'[Us] = launcher[Us]
        /\ \A run \in Published' :
              \/ run \in Published
              \/ launcher[l].stage = "publishing" /\ run = launcher[l].run
    BY <1>3, <2>0, LauncherSteps DEF WorkerInv, RecordedInv
  <2>2. launcher[l].stage = "publishing" => launcher[l].run.id = l
    BY <2>0 DEF PublicationInv, RunsNamed, Holding
  <2> QED
    BY <2>0, <2>1, <2>2 DEF SingleRun, OurRuns
<1>4. CASE LauncherCases
  BY <1>2, <1>3, <1>4 DEF LauncherCases
<1>5. CASE WorkerActs \/ WorkerWrites \/ UNCHANGED vars
  BY <1>1, <1>5 DEF WorkerActs, WorkerWrites, vars, manifestVars
<1> QED
  BY <1>4, <1>5, NextCases

LEMMA ReadableKeeps ==
    ASSUME Readable, RecordedInv, PublicationInv, [Next]_vars
    PROVE  Readable'
<1>1. NoEntry' = NoEntry /\ Stages' = Stages
  BY DEF NoEntry, Stages
<1>2. Range(launcher[Us].run.entries)' = Range(launcher'[Us].run.entries)
  BY DEF Range
<1>3. CASE UNCHANGED <<manifest, launcher>>
  <2>1. PublishedEntries' = PublishedEntries
    BY <1>3 DEF PublishedEntries, OurRuns, Published
  <2> QED
    BY <1>1, <1>2, <1>3, <2>1 DEF Readable
<1>4. CASE LauncherEffect
  <2>1. NoEntry \notin LatestEntries(journals[Us], Us)
    <3> SUFFICES ASSUME NEW f \in LatestEntries(journals[Us], Us)
                 PROVE  f # NoEntry
      OBVIOUS
    <3>1. PICK g \in DOMAIN journals[Us] : \E i \in DOMAIN journals[Us][g] :
             LastAt(journals[Us], g, i) /\ f = journals[Us][g][i].entry
      BY LatestMeans
    <3> QED
      BY <3>1, NoEntryUnusable DEF LastAt
  <2> QED
    BY <1>1, <1>2, <1>4, <2>1 DEF Readable, LauncherEffect
<1>5. CASE WorkerActs \/ WorkerWrites \/ UNCHANGED vars
  BY <1>3, <1>5 DEF WorkerActs, WorkerWrites, vars, manifestVars
<1> QED
  BY <1>4, <1>5, NextEffect

LEMMA CapturedOnce ==
    ASSUME Ready, scene.framework = "mocha", process.hook = "test",
           Distinct(process.outcomes), NEW result
    PROVE  Distinct(Captured(process.outcomes, result))
<1>1. /\ process.outcomes \in Seq(Range(process.outcomes))
      /\ TestSaid(result).execution = Place(process)
  BY TakenDown DEF Ready, Posed
<1>2. \A o \in Range(process.outcomes) : o.execution # Place(process)
  <2>1. Place(process) \notin ElapsedOf(process)
    <3>1. Ahead(process) /\ ~Earlier(Place(process), Place(process))
      <4>1. process.retry \in Nat /\ process.at \in Nat /\ process.try \in Nat
        <5>1. process.at \in 1 .. Len(scene.plan) /\ Len(scene.plan) \in Nat
          BY PlanLength DEF Ready, Posed
        <5> QED
          BY <5>1 DEF Ready, Posed
      <4> QED
        BY <4>1 DEF Ahead, Earlier, Place
    <3> QED
      BY <3>1 DEF ElapsedOf
  <2> QED
    BY <2>1 DEF Ready, HeardOf
<1>3. PICK s, o : s = process.outcomes /\ o = TestSaid(result)
  OBVIOUS
<1>4. Captured(s, result) \in {s, Append(s, o)}
  BY <1>3 DEF Captured, CaptureOutcome
<1>5. Distinct(Append(s, o))
  <2>1. s \in Seq(Range(s)) /\ DOMAIN s = 1 .. Len(s) /\ Len(s) \in Nat
    BY <1>1, <1>3
  <2>2. PICK n, t : n = Len(s) /\ t = Append(s, o)
    OBVIOUS
  <2>3. /\ DOMAIN t = 1 .. n + 1 /\ t[n + 1] = o
        /\ \A i \in 1 .. n : t[i] = s[i]
    BY <2>1, <2>2
  <2>4. \A i \in DOMAIN t : i = n + 1 \/ (i \in DOMAIN s /\ t[i] = s[i])
    BY <2>1, <2>2, <2>3
  <2>5. \A i \in DOMAIN s : s[i].execution # o.execution
    BY <1>1, <1>2, <1>3 DEF Range
  <2>6. Distinct(s)
    BY <1>3
  <2>7. Distinct(t)
    BY <2>3, <2>4, <2>5, <2>6 DEF Distinct
  <2> QED
    BY <2>2, <2>7
<1> QED
  BY <1>3, <1>4, <1>5

LEMMA WritesSay ==
    ASSUME WorkerInv, WorkerSound, JournalStep
    PROVE  process' = NoWorker \/ Now'.outcomes = Now.outcomes
<1>1. /\ process # NoWorker /\ scene' = scene
      /\ DOMAIN process = ProcessFields
      /\ Posed(Now)
  BY JournalEffect DEF WorkerInv, Holds, WorkerSound, Alive
<1> DEFINE p == [process EXCEPT !.write = NoEntry]
<1>2. CASE process' = NoWorker
  BY <1>2
<1>3. ASSUME process.hook = "write", NEW then, process' = Continue(p, then),
             \/ then = process.then
             \/ process.then = "eligible" /\ then = "test"
             \/ process.then = "flush" /\ then = "reset"
      PROVE  Now'.outcomes = Now.outcomes
  <2>1. DOMAIN p = ProcessFields /\ p.outcomes = process.outcomes
    BY <1>1 DEF ProcessFields
  <2>2. Now = Continue(p, process.then) /\ Now' = Settle(process')
    BY <1>1, <1>3, SameScene DEF Now, Settle
  <2>3. PICK s, q : s = Now /\ q = process'
    OBVIOUS
  <2> HIDE DEF p
  <2>4. q.outcomes = s.outcomes /\ q.hook # "write"
    <3>1. s.hook \in Hooks /\ s.resume \in {"exit", "test"}
      BY <1>1, <2>3 DEF Posed
    <3>2. CASE then = process.then
      <4>1. q = s
        BY <1>3, <2>2, <2>3, <3>2
      <4> QED
        BY <3>1, <4>1 DEF Hooks
    <3>3. CASE process.then = "eligible" /\ then = "test"
      <4>1. Like(s, p, {"hook"}) /\ Like(q, p, {"hook"}) /\ q.hook = "test"
        BY <1>3, <2>1, <2>2, <2>3, <3>3, ContinueLike
      <4> QED
        BY <4>1 DEF Like, ProcessFields
    <3>4. CASE process.then = "flush" /\ then = "reset"
      <4>1. Like(s, p, {"hook"})
        BY <1>3, <2>1, <2>2, <2>3, <3>4, ContinueLike
      <4>2. q = ResetWorkerState(p)
        BY <1>3, <2>3, <3>4 DEF Continue
      <4>3. /\ Like(q, p, {"seen", "failed", "active", "overlapRecorded",
                           "hook", "resume"})
            /\ q.hook = p.resume
        BY <2>1, <4>2, ResetLike
      <4> QED
        BY <3>1, <4>1, <4>3 DEF Like, ProcessFields
    <3> QED
      BY <1>3, <3>2, <3>3, <3>4
  <2> QED
    BY <2>2, <2>3, <2>4 DEF Settle
<1> QED
  BY <1>1, <1>2, <1>3, JournalEffect

LEMMA ActsSayOnce ==
    ASSUME SaidOnce, SoundInv, RecordedInv, WorkerActs,
           scene.framework = "mocha"
    PROVE  (Alive' => Distinct(Now'.outcomes)) /\ Apart(fragments')
<1>0. /\ WorkerStep /\ scene' = scene /\ WorkerSound /\ WorkerInv
      /\ Apart(fragments) /\ (Alive => Distinct(Now.outcomes))
  BY StepRest DEF WorkerActs, SaidOnce, SoundInv, RecordedInv
<1>1. CASE process = NoWorker
  <2>1. PICK pid \in Pids : StartWorker(pid)
    <3>1. process.hook = "none" /\ ~Eligible
      BY <1>1 DEF NoWorker, Eligible
    <3> QED
      BY <1>0, <3>1 DEF WorkerStep, RecordParallelEntity, JoinSpecEntry,
         BeginEntity, SkipIneligible, SkipFirstAttempt, ContinueSpec,
         StartRecording, StartFails, RunTest, ReloadSession, EndEntity,
         FinalizeTest, Teardown, CompleteDeferred, EndTeardown, ExitWorker
  <2>2. fragments' = fragments /\ \E n : process' = NewProcess(pid, n)
    BY <2>1 DEF StartWorker
  <2>3. process'.hook = "begin" /\ process'.outcomes = <<>>
    BY <2>2 DEF NewProcess
  <2>4. Now'.outcomes = <<>>
    BY <1>0, <2>3, SameScene DEF Settle
  <2>5. Distinct(<<>>)
    BY DEF Distinct
  <2> QED
    BY <1>0, <2>2, <2>4, <2>5
<1>2. CASE process # NoWorker
  <2>1. Ready /\ Now = process /\ Alive /\ Distinct(process.outcomes)
    BY <1>0, <1>2, HookGuards, ReadyNow DEF Alive
  <2>2. ASSUME NEW reported \in BOOLEAN, ExitWorker(reported)
        PROVE  ~Alive' /\ Apart(fragments')
    <3>1. /\ process' = NoWorker
          /\ fragments' \in {fragments, Append(fragments, process.outcomes)}
      BY <2>2 DEF ExitWorker, WorkerEnds
    <3>2. PICK s : s = process.outcomes
      OBVIOUS
    <3>3. \A i \in DOMAIN fragments :
             Disjoint(fragments[i], s) /\ Disjoint(s, fragments[i])
      <4>1. \A a \in DOMAIN s : s[a].execution[1] = process.retry
        BY <2>1, <3>2 DEF Ready, Posed, Range
      <4>2. \A i \in DOMAIN fragments : \A a \in DOMAIN fragments[i] :
               fragments[i][a].execution[1] # process.retry
        BY <2>1 DEF Ready, Reported, Range
      <4> QED
        BY <4>1, <4>2 DEF Disjoint
    <3>4. CASE fragments' = Append(fragments, s)
      <4> DEFINE n == Len(fragments)
      <4>1. /\ n \in Nat /\ DOMAIN fragments' = 1 .. n + 1
            /\ DOMAIN fragments = 1 .. n
            /\ \A i \in 1 .. n : fragments'[i] = fragments[i]
            /\ fragments'[n + 1] = s
        BY <1>0, <3>4 DEF WorkerSound
      <4>2. \A i \in DOMAIN fragments' :
               \/ i \in DOMAIN fragments /\ fragments'[i] = fragments[i]
               \/ i = n + 1 /\ fragments'[i] = s
        <5>1. \A i \in 1 .. n + 1 : i \in 1 .. n \/ i = n + 1
          BY <4>1
        <5> QED
          BY <4>1, <5>1
      <4> HIDE DEF n
      <4>3. \A i \in DOMAIN fragments' : Distinct(fragments'[i])
        BY <1>0, <2>1, <3>2, <4>2 DEF Apart
      <4>4. \A i, j \in DOMAIN fragments' :
               i # j => Disjoint(fragments'[i], fragments'[j])
        BY <1>0, <3>3, <4>2 DEF Apart
      <4> QED
        BY <3>1, <4>3, <4>4 DEF Apart, Alive
    <3> QED
      BY <1>0, <3>1, <3>2, <3>4 DEF Alive
  <2>3. CASE ~\E reported \in BOOLEAN : ExitWorker(reported)
    <3>1. fragments' = fragments
      BY <1>0, <1>2, <2>3, StepFrame
    <3>2. PICK q : q = Settle(process')
      OBVIOUS
    <3>3. Now' = q
      BY <1>0, <3>2, SameScene
    <3>4. Distinct(q.outcomes)
      BY <1>0, <1>2, <2>1, <2>3, <3>2, OnlyTestsSay, CapturedOnce
    <3> QED
      BY <1>0, <3>1, <3>3, <3>4
  <2> QED
    BY <2>2, <2>3
<1> QED
  BY <1>1, <1>2

LEMMA SaidOnceKeeps ==
    ASSUME SaidOnce, ReportInv, SoundInv, RecordedInv, PublicationInv, [Next]_vars
    PROVE  SaidOnce'
<1>0. WorkerSound /\ WorkerInv
  BY DEF SoundInv, RecordedInv
<1>1. scene' = scene
  <2>1. WorkerActs => scene' = scene
    BY StepRest DEF WorkerActs
  <2>2. WorkerWrites => scene' = scene
    BY JournalEffect DEF WorkerWrites
  <2> QED
    BY <2>1, <2>2, NextCases DEF LauncherCases, vars, workerVars
<1> SUFFICES ASSUME scene.framework = "mocha"
             PROVE  /\ Alive' => Distinct(Now'.outcomes)
                    /\ Apart(fragments')
                    /\ report' # None => Distinct(report')
  BY <1>1 DEF SaidOnce, Distinct, Apart, Disjoint
<1>2. /\ Apart(fragments) /\ (Alive => Distinct(Now.outcomes))
      /\ report # None => Distinct(report)
  BY DEF SaidOnce
<1>3. CASE WorkerActs
  <2>1. report' = report
    BY <1>3 DEF WorkerActs
  <2> QED
    BY <1>2, <1>3, <2>1, ActsSayOnce
<1>4. CASE WorkerWrites
  <2>1. JournalStep /\ UNCHANGED <<report, fragments>> /\ Alive
    BY <1>4, JournalEffect DEF WorkerWrites, Alive
  <2>2. process' = NoWorker \/ Now'.outcomes = Now.outcomes
    BY <1>0, <2>1, WritesSay
  <2>3. Alive' => process' # NoWorker
    BY DEF Alive
  <2> QED
    BY <1>2, <2>1, <2>2, <2>3
<1>5. CASE UNCHANGED <<scene, process, fragments>> /\ (report' = report \/ GenerateReport)
  <2>1. Now' = Now /\ Alive' = Alive
    BY <1>5, SameScene DEF Now, Alive
  <2>2. CASE report' = report
    BY <1>2, <1>5, <2>1, <2>2
  <2>3. CASE GenerateReport
    <3>1. Lists(fragments)
      BY DEF Lists, ReportInv, SoundInv, WorkerSound
    <3>2. PICK read \in {fragments, Reverse(fragments)} :
             report' = IF fragments = <<>> THEN None ELSE FlattenSeq(read)
      BY <2>3 DEF GenerateReport
    <3>3. Lists(read) /\ Apart(read) /\ (fragments # <<>> => read # <<>>)
      BY <1>2, <3>1, <3>2, ReverseFacts, ReverseApart
    <3>4. report' # None => Distinct(report')
      BY <3>2, <3>3, FlattenApart
    <3> QED
      BY <1>2, <1>5, <2>1, <3>4
  <2> QED
    BY <1>5, <2>2, <2>3
<1>6. CASE LauncherCases \/ UNCHANGED vars
  BY <1>5, <1>6 DEF LauncherCases, vars, workerVars
<1> QED
  BY <1>3, <1>4, <1>6, NextCases

LEMMA InitOnce ==
    ASSUME Init
    PROVE  OnceInv
<1>1. /\ process = NoWorker /\ fragments = <<>> /\ report = None
      /\ Published = {} /\ launcher[Us].stage = "running"
  BY UsAssumption DEF Init, InitWorkers, InitManifest, Published, NoManifest,
     InvalidManifest, Manifest
<1>2. PublishedEntries = {} /\ OurRuns = {}
  BY <1>1 DEF PublishedEntries, OurRuns
<1> QED
  BY <1>1, <1>2 DEF OnceInv, SingleRun, Readable, SaidOnce, Stages, Alive, Apart

LEMMA OnceKeeps ==
    ASSUME OnceInv, ReportInv, SoundInv, RecordedInv, PublicationInv, [Next]_vars
    PROVE  OnceInv'
BY SingleKeeps, ReadableKeeps, SaidOnceKeeps DEF OnceInv

----------------------------------------------------------------------------
(* Tests that their names tell apart.                                      *)

\* Every test has a full name and is in a spec file of the worker, the one it
\* names if it names one; and no two of a spec file are called alike.
NamesTell ==
    LET plan == scene.plan IN
    /\ \A i \in DOMAIN plan :
          /\ plan[i].spec \in Range(scene.specs)
          /\ plan[i].test.fullName # None
          /\ scene.framework = "mocha" => plan[i].test.file = plan[i].spec
          /\ scene.framework = "cucumber" =>
                plan[i].test.fullName = plan[i].test.name
    /\ \A i, j \in DOMAIN plan :
          i # j /\ plan[i].spec[1] = plan[j].spec[1]
             => ~NamedAs(Called(i), Called(j))

\* What the service and the reporter count alike.
CountedAlike ==
    /\ \/ scene.specRetries = 0
       \/ \A i \in DOMAIN scene.plan : scene.plan[i].retries = 0
    /\ scene.framework = "mocha" \/ Len(scene.specs) = 1

LEMMA FirstOfMany ==
    ASSUME NEW a, a # None, NEW T, NEW s \in Seq(T)
    PROVE  FirstGiven(<<a>> \o s) = a
<1>1. PICK t : t = <<a>> \o s
  OBVIOUS
<1>2. DOMAIN t = 1 .. Len(s) + 1 /\ t[1] = a /\ Len(s) \in Nat
  <2>1. PICK S : S = T \union {a}
    OBVIOUS
  <2>2. <<a>> \in Seq(S) /\ s \in Seq(S)
    BY <2>1
  <2> QED
    BY <1>1, <2>2
<1> DEFINE given == {i \in DOMAIN t : t[i] # None}
<1>3. 1 \in given /\ given \in SUBSET Nat
  BY <1>2
<1>4. Min(given) \in given /\ \A n \in given : Min(given) <= n
  <2> HIDE DEF given
  <2> QED
    BY <1>3, LeastOf
<1>5. Min(given) = 1
  <2>1. PICK m : m = Min(given)
    OBVIOUS
  <2>2. m \in given /\ m <= 1
    BY <1>3, <1>4, <2>1
  <2>3. m \in 1 .. Len(s) + 1
    BY <1>2, <2>2
  <2> QED
    BY <1>2, <2>1, <2>2, <2>3
<1>6. given # {}
  BY <1>3
<1>7. FirstGiven(t) = t[1]
  BY <1>5, <1>6 DEF FirstGiven
<1> QED
  BY <1>1, <1>2, <1>7

LEMMA FirstKnown ==
    ASSUME NEW T, None \notin T, NEW specs \in Seq(T), NEW spec \in Range(specs),
           NEW file, file = spec \/ Len(specs) = 1
    PROVE  (IF Len(specs) = 1 THEN specs[1]
            ELSE FirstGiven(<<file>> \o specs)) = spec
<1>1. spec # None /\ \E k \in DOMAIN specs : specs[k] = spec
  BY DEF Range
<1>2. CASE Len(specs) = 1
  BY <1>1, <1>2
<1>3. CASE Len(specs) # 1
  <2>1. FirstGiven(<<spec>> \o specs) = spec
    BY <1>1, FirstOfMany
  <2> QED
    BY <1>3, <2>1
<1> QED
  BY <1>2, <1>3

\* An entry names the spec file its test is in.
LEMMA FileNamed ==
    ASSUME scene \in Scenes, NamesTell, CountedAlike
    PROVE  \A i \in DOMAIN scene.plan :
               ManifestSpec(scene.plan[i].test.file) = scene.plan[i].spec
<1> SUFFICES ASSUME NEW i \in DOMAIN scene.plan
             PROVE  ManifestSpec(scene.plan[i].test.file) = scene.plan[i].spec
  OBVIOUS
<1>1. /\ scene.specs \in Seq(Range(scene.specs) \ {None})
      /\ scene.framework \in {"mocha", "cucumber"}
  BY SceneFacts
<1>2. /\ scene.plan[i].spec \in Range(scene.specs)
      /\ scene.plan[i].test.file = scene.plan[i].spec \/ Len(scene.specs) = 1
  BY <1>1 DEF NamesTell, CountedAlike
<1>3. None \notin Range(scene.specs) \ {None}
  OBVIOUS
<1>4. (IF Len(scene.specs) = 1 THEN scene.specs[1]
       ELSE FirstGiven(<<scene.plan[i].test.file>> \o scene.specs))
         = scene.plan[i].spec
  BY <1>1, <1>2, <1>3, FirstKnown
<1> QED
  BY <1>4 DEF ManifestSpec

LEMMA NamedTogether ==
    ASSUME NEW t, NEW x, NEW y, x.name = y.name, x.fullName = y.fullName
    PROVE  /\ NamedAs(t, x) <=> NamedAs(t, y)
           /\ HasFullerIdentity(x) <=> HasFullerIdentity(y)
BY DEF NamedAs, IdentityNames, HasFullerIdentity

\* An outcome is looked up by the name its test is recorded under.
LEMMA LookedUp ==
    ASSUME scene \in Scenes, NamesTell, NEW o, SaidOf(o)
    PROVE  LET i == o.execution[2] IN
           /\ i \in DOMAIN scene.plan
           /\ IdentityOf(o).name = Called(i).name
           /\ IdentityOf(o).fullName = Called(i).fullName
           /\ ShownName(o) = Called(i).fullName
           /\ Called(i).fullName # None
<1> DEFINE i == o.execution[2]
           test == scene.plan[i].test
<1>1. i \in DOMAIN scene.plan /\ i \in 1 .. Len(scene.plan)
  BY SceneFacts DEF SaidOf, InPlan
<1>2. test.fullName # None /\ test.name # None
  BY <1>1, PlanFacts DEF NamesTell
<1>3. Called(i).name = test.name /\ Called(i).fullName = test.fullName
  BY DEF Called
<1> HIDE DEF i
<1>4. CASE scene.framework = "mocha"
  <2>1. /\ o.test.container = None
        /\ o.test.name = test.name /\ o.test.fullName = test.fullName
    BY <1>4 DEF SaidOf, i
  <2> QED
    BY <1>1, <1>2, <1>3, <2>1 DEF IdentityOf, ShownName, i
<1>5. CASE scene.framework = "cucumber"
  <2>1. o.test.container = test.name /\ test.fullName = test.name
    BY <1>1, <1>5 DEF SaidOf, NamesTell, i
  <2> QED
    BY <1>1, <1>2, <1>3, <2>1 DEF IdentityOf, ShownName, i
<1> QED
  BY <1>4, <1>5, SceneFacts

\* An entry that fits an outcome is of the same test.
LEMMA Recognized ==
    ASSUME scene \in Scenes, NamesTell, CountedAlike, NEW e, Ours(e),
           NEW o, SaidOf(o), Fits(e, o)
    PROVE  /\ \A x \in e.covers : x[2] = o.execution[2]
           /\ e.spec = o.spec /\ e.test.fullName = ShownName(o)
<1>1. PICK i : i = o.execution[2]
  OBVIOUS
<1>2. /\ i \in DOMAIN scene.plan /\ o.spec = scene.plan[i].spec
      /\ IdentityOf(o).name = Called(i).name
      /\ IdentityOf(o).fullName = Called(i).fullName
      /\ ShownName(o) = Called(i).fullName
  BY <1>1, LookedUp DEF SaidOf
<1>3. ASSUME NEW x \in e.covers
      PROVE  x[2] = i /\ e.spec = o.spec /\ e.test.fullName = ShownName(o)
  <2>1. PICK j : j = x[2]
    OBVIOUS
  <2>2. /\ j \in 1 .. Len(scene.plan) /\ NamedFor(e, j) /\ e.scope = "test"
        /\ j \in DOMAIN scene.plan
    <3>1. Named(e)
      BY DEF Ours
    <3>2. j \in 1 .. Len(scene.plan) /\ NamedFor(e, j) /\ e.scope = "test"
      BY <1>3, <2>1, <3>1 DEF Named, InPlan
    <3> QED
      BY <3>2, SceneFacts
  <2>3. e.spec = scene.plan[j].spec /\ e.test = Called(j)
    <3>1. ManifestSpec(scene.plan[j].test.file) = scene.plan[j].spec
      BY <2>2, FileNamed
    <3> QED
      BY <2>2, <3>1 DEF NamedFor
  <2>4. e.spec[1] = o.spec[1] /\ NamedAs(e.test, IdentityOf(o))
    BY <2>2 DEF Fits
  <2>5. NamedAs(Called(j), Called(i))
    BY <1>2, <2>3, <2>4, NamedTogether
  <2>6. j = i
    BY <1>2, <2>2, <2>3, <2>4, <2>5 DEF NamesTell
  <2> QED
    BY <1>2, <2>1, <2>3, <2>6
<1>4. e.covers # {}
  BY DEF Ours, Named
<1> QED
  BY <1>1, <1>3, <1>4

\* The attempt of an entry is that of its execution, unless it was guessed.
LEMMA SameAttempt ==
    ASSUME scene \in Scenes, CountedAlike, NEW x, InPlan(x), NEW o, SaidOf(o),
           x[2] = o.execution[2]
    PROVE  /\ o.attempt = o.execution[1] + o.execution[3] + 1
           /\ x[1] + x[3] + 1 = o.attempt => x = o.execution
<1>1. PICK y : y = o.execution
  OBVIOUS
<1>2. /\ x \in Nat \X Nat \X Nat /\ y \in Nat \X Nat \X Nat
      /\ x[2] = y[2] /\ InPlan(y)
      /\ x[2] \in 1 .. Len(scene.plan) /\ x[2] \in DOMAIN scene.plan
  BY <1>1, SceneFacts DEF SaidOf, InPlan, Executions
<1>3. scene.plan[x[2]].retries \in Nat
  BY <1>2, PlanFacts
<1>4. (x[1] = 0 /\ y[1] = 0) \/ (x[3] = 0 /\ y[3] = 0)
  <2>1. CASE scene.specRetries = 0
    BY <1>2, <2>1 DEF InPlan
  <2>2. CASE \A i \in DOMAIN scene.plan : scene.plan[i].retries = 0
    <3>1. x[3] <= 0 /\ y[3] <= 0
      BY <1>2, <2>2 DEF InPlan
    <3> QED
      BY <1>2, <3>1
  <2> QED
    BY <2>1, <2>2 DEF CountedAlike
<1>5. Max({y[1], y[3]}) = y[1] + y[3]
  BY <1>2, <1>4, MaxOfTwo
<1>6. o.attempt = y[1] + y[3] + 1
  BY <1>1, <1>5, SceneFacts DEF SaidOf, Level
<1>7. x[1] + x[3] + 1 = y[1] + y[3] + 1 => x[1] = y[1] /\ x[3] = y[3]
  BY <1>2, <1>4
<1>8. x = <<x[1], x[2], x[3]>> /\ y = <<y[1], y[2], y[3]>>
  BY <1>2
<1> QED
  BY <1>1, <1>2, <1>6, <1>7, <1>8

\* Claim 1.
LEMMA OwnOrGuessed ==
    ASSUME scene \in Scenes, NamesTell, CountedAlike,
           NEW e \in PublishedEntries, Ours(e), NEW o, SaidOf(o), Fits(e, o)
    PROVE  /\ e.test.fullName = ShownName(o)
           /\ e \in Own(o) \/ GuessedAlike(o)
<1>1. /\ \A x \in e.covers : x[2] = o.execution[2]
      /\ e.spec = o.spec /\ e.test.fullName = ShownName(o)
  BY Recognized
<1>2. CASE Guessed(e)
  BY <1>1, <1>2 DEF GuessedAlike
<1>3. CASE ~Guessed(e)
  <2>1. PICK x \in e.covers : InPlan(x)
    BY DEF Ours, Named
  <2>2. e.attempt = x[1] + x[3] + 1 /\ e.attempt = o.attempt
    BY <1>3 DEF Guessed, Fits, SameGroup
  <2>3. x = o.execution
    BY <1>1, <2>1, <2>2, SameAttempt
  <2> QED
    BY <1>1, <2>1, <2>3 DEF Own
<1> QED
  BY <1>1, <1>2, <1>3

----------------------------------------------------------------------------
(* The videos of the report.                                               *)

\* What the other parts of the proof say of a run that is reported.
LEMMA Gathered ==
    ASSUME ReportInv, NamesInv, OnceInv, scene.scope = "test", report # None
    PROVE  LET entries == launcher[Us].run.entries IN
           /\ PublishedEntries = Range(entries) /\ Numbered(Range(entries))
           /\ Len(report) \in Nat /\ DOMAIN report = 1 .. Len(report)
           /\ \A i \in DOMAIN report : SaidOf(report[i])
           /\ \A e \in PublishedEntries : Ours(e)
           /\ scene.framework = "mocha" => Distinct(report)
<1> DEFINE entries == launcher[Us].run.entries
<1>1. /\ launcher[Us].run \in OurRuns /\ Numbered(Range(entries))
      /\ report \in Seq(Range(report)) /\ Range(report) = Reported
  BY DEF ReportInv
<1>2. PublishedEntries = Range(entries)
  BY <1>1 DEF PublishedEntries, OnceInv, SingleRun
<1>3. Len(report) \in Nat /\ DOMAIN report = 1 .. Len(report)
  BY <1>1
<1>4. \A i \in DOMAIN report : SaidOf(report[i])
  <2>1. Reported \subseteq Heard
    BY DEF Heard, HeardOf
  <2>2. \A i \in DOMAIN report : report[i] \in Reported
    BY <1>1 DEF Range
  <2> QED
    BY <2>1, <2>2 DEF NamesInv
<1>5. \A e \in PublishedEntries : Ours(e)
  BY DEF NamesInv, Held, OnceInv, Readable
<1> QED
  BY <1>1, <1>2, <1>3, <1>4, <1>5 DEF OnceInv, SaidOnce

\* Its own entry has the very names of an outcome, if its attempt was not
\* guessed.
LEMMA OwnTells ==
    ASSUME scene \in Scenes, NamesTell, CountedAlike, NEW o, SaidOf(o),
           NEW e, Ours(e), o.execution \in e.covers, ~Guessed(e)
    PROVE  /\ TellsOf(e, o)
           /\ e.attempt = o.execution[1] + o.execution[3] + 1
<1>1. PICK i : i = o.execution[2]
  OBVIOUS
<1>2. /\ i \in DOMAIN scene.plan /\ o.spec = scene.plan[i].spec
      /\ IdentityOf(o).fullName = Called(i).fullName
      /\ Called(i).fullName # None
  BY <1>1, LookedUp DEF SaidOf
<1>3. /\ e.scope = "test" /\ NamedFor(e, i) /\ e.run = Us /\ e.cid = Cid
  BY <1>1 DEF Ours, Named
<1>4. e.spec = o.spec /\ e.test = Called(i)
  <2>1. ManifestSpec(scene.plan[i].test.file) = scene.plan[i].spec
    BY <1>2, FileNamed
  <2> QED
    BY <1>2, <1>3, <2>1 DEF NamedFor
<1>5. e.test # None
  BY <1>2, <1>4, NoneAssumption DEF Called
<1>6. e.attempt = o.execution[1] + o.execution[3] + 1
  BY DEF Guessed
<1>7. e.attempt = o.attempt /\ o.run = Us /\ o.cid = Cid
  BY <1>6, SameAttempt DEF SaidOf
<1> QED
  BY <1>2, <1>3, <1>4, <1>5, <1>6, <1>7 DEF TellsOf, SameGroup

\* Outcomes that fit one entry are of one execution.
LEMMA OneExecution ==
    ASSUME scene \in Scenes, NamesTell, CountedAlike, NEW o, SaidOf(o),
           NEW e, Ours(e), o.execution \in e.covers, ~Guessed(e),
           NEW p, SaidOf(p), Fits(e, p)
    PROVE  /\ p.execution = o.execution
           /\ scene.framework = "cucumber" =>
                 /\ o.test.container # None /\ p.test.container # None
                 /\ ScenarioKey(o) = ScenarioKey(p)
<1>1. PICK x : x = o.execution
  OBVIOUS
<1>2. /\ x \in e.covers /\ InPlan(x) /\ x[2] = p.execution[2]
      /\ e.attempt = x[1] + x[3] + 1
  BY <1>1, Recognized, OwnTells DEF SaidOf
<1>3. e.attempt = p.attempt
  BY DEF Fits, SameGroup
<1>4. p.execution = o.execution
  BY <1>1, <1>2, <1>3, SameAttempt
<1>5. ASSUME scene.framework = "cucumber"
      PROVE  /\ o.test.container # None /\ p.test.container # None
             /\ ScenarioKey(o) = ScenarioKey(p)
  <2>1. PICK test : test = scene.plan[o.execution[2]].test
    OBVIOUS
  <2>2. /\ o.test.container = test.name /\ o.test.parent = test.id
        /\ p.test.container = test.name /\ p.test.parent = test.id
        /\ o.run = p.run /\ o.cid = p.cid /\ o.spec = p.spec
        /\ o.attempt = p.attempt
    BY <1>4, <1>5, <2>1 DEF SaidOf
  <2>3. test.name # None
    <3>1. o.execution[2] \in 1 .. Len(scene.plan)
      BY DEF SaidOf, InPlan
    <3> QED
      BY <2>1, <3>1, PlanFacts
  <2> QED
    BY <2>2, <2>3 DEF ScenarioKey
<1> QED
  BY <1>4, <1>5

\* An outcome with an entry of its own is joined.
LEMMA OwnFound ==
    ASSUME scene \in Scenes, NamesTell, CountedAlike,
           ReportInv, NamesInv, OnceInv, scene.scope = "test", report # None,
           NEW i \in DOMAIN report, NEW e \in Own(report[i]), ~Guessed(e)
    PROVE  IsMatched(MatchAll(launcher[Us].run.entries, report), i)
<1>1. PICK entries : entries = launcher[Us].run.entries
  OBVIOUS
<1>2. /\ PublishedEntries = Range(entries) /\ Numbered(Range(entries))
      /\ Len(report) \in Nat /\ DOMAIN report = 1 .. Len(report)
      /\ \A j \in DOMAIN report : SaidOf(report[j])
      /\ \A d \in PublishedEntries : Ours(d)
      /\ scene.framework = "mocha" => Distinct(report)
  BY <1>1, Gathered
<1>3. e \in Range(entries) /\ Ours(e) /\ report[i].execution \in e.covers
      /\ SaidOf(report[i])
  BY <1>2 DEF Own
<1>4. TellsOf(e, report[i])
  BY <1>3, OwnTells
<1>5. OnlyOne(e, report, i)
  <2> SUFFICES ASSUME NEW j \in DOMAIN report, Fits(e, report[j]), j # i
               PROVE  /\ report[i].test.container # None
                      /\ report[j].test.container # None
                      /\ ScenarioKey(report[i]) = ScenarioKey(report[j])
    BY DEF OnlyOne
  <2>1. /\ report[j].execution = report[i].execution
        /\ scene.framework = "cucumber" =>
              /\ report[i].test.container # None
              /\ report[j].test.container # None
              /\ ScenarioKey(report[i]) = ScenarioKey(report[j])
    BY <1>2, <1>3, OneExecution
  <2>2. scene.framework # "mocha"
    BY <1>2, <2>1 DEF Distinct
  <2> QED
    BY <2>1, <2>2, SceneFacts
<1> QED
  BY <1>1, <1>2, <1>3, <1>4, <1>5, MatchAllFinds

\* The entry an item shows is the execution's own, or one was guessed.
LEMMA OwnShown ==
    ASSUME scene \in Scenes, NamesTell, ReportInv, NamesInv, OnceInv
    PROVE  OwnVideoShown
<1> SUFFICES ASSUME report # None, scene.scope = "test",
                    NEW item \in Shown, item.outcome # None, CountedAlike
             PROVE  LET outcome == item.outcome IN
                    /\ item.entry # None =>
                          \/ item.entry \in Own(outcome)
                          \/ /\ item.entry.test.fullName = ShownName(outcome)
                             /\ GuessedAlike(outcome)
                    /\ /\ \A o \in CalledAlike(outcome) : Own(o) # {}
                       /\ ~GuessedAlike(outcome)
                       => item.entry \in Own(outcome)
  BY DEF OwnVideoShown, CountedAlike
<1> DEFINE entries == launcher[Us].run.entries
           joined == MatchAll(entries, report)
           outcome == item.outcome
<1>1. /\ PublishedEntries = Range(entries) /\ Numbered(Range(entries))
      /\ Len(report) \in Nat /\ DOMAIN report = 1 .. Len(report)
      /\ \A i \in DOMAIN report : SaidOf(report[i])
      /\ \A e \in PublishedEntries : Ours(e)
  BY Gathered
<1>2. PICK i \in DOMAIN report : item = Item(report[i], joined.matches[i])
  BY DEF Shown, ReportItems, ManifestOnlyItem
<1>3. outcome = report[i] /\ outcome \in Range(report) /\ SaidOf(outcome)
  BY <1>1, <1>2 DEF Item, Range
<1>4. ASSUME joined.matches[i].kind = "matched"
      PROVE  /\ item.entry.test.fullName = ShownName(outcome)
             /\ item.entry \in Own(outcome) \/ GuessedAlike(outcome)
  <2>1. Joined(joined, entries, report)
    BY <1>1, MatchAllJoins DEF Ids, Numbered
  <2> HIDE DEF joined
  <2>2. item.entry = joined.matches[i].entry
    BY <1>2, <1>4 DEF Item
  <2>3. item.entry \in PublishedEntries /\ Fits(item.entry, outcome)
    BY <1>1, <1>3, <1>4, <2>1, <2>2 DEF Joined
  <2> QED
    BY <1>1, <1>3, <2>3, OwnOrGuessed
<1>5. ASSUME item.entry # None
      PROVE  \/ item.entry \in Own(outcome)
             \/ /\ item.entry.test.fullName = ShownName(outcome)
                /\ GuessedAlike(outcome)
  <2>1. joined.matches[i].kind = "matched"
    BY <1>2, <1>5 DEF Item
  <2> QED
    BY <1>4, <2>1
<1>6. ASSUME \A o \in CalledAlike(outcome) : Own(o) # {}, ~GuessedAlike(outcome)
      PROVE  item.entry \in Own(outcome)
  <2>1. outcome \in CalledAlike(outcome)
    BY <1>3 DEF CalledAlike
  <2>2. PICK e \in Own(outcome) : TRUE
    BY <1>6, <2>1
  <2>3. /\ e \in PublishedEntries /\ Ours(e) /\ outcome.execution \in e.covers
    BY <1>1, <2>2 DEF Own
  <2>4. e.spec = outcome.spec /\ e.test.fullName = ShownName(outcome)
    <3>1. PICK k : k = outcome.execution[2]
      OBVIOUS
    <3>2. /\ k \in DOMAIN scene.plan /\ outcome.spec = scene.plan[k].spec
          /\ ShownName(outcome) = Called(k).fullName
      BY <1>3, <3>1, LookedUp DEF SaidOf
    <3>3. NamedFor(e, k)
      BY <2>3, <3>1 DEF Ours, Named
    <3>4. ManifestSpec(scene.plan[k].test.file) = scene.plan[k].spec
      BY <3>2, FileNamed
    <3> QED
      BY <3>2, <3>3, <3>4 DEF NamedFor
  <2>5. ~Guessed(e)
    BY <1>6, <2>3, <2>4 DEF GuessedAlike
  <2>6. IsMatched(joined, i)
    BY <1>3, <2>2, <2>5, OwnFound
  <2> QED
    BY <1>4, <1>6, <2>6 DEF IsMatched
<1> QED
  BY <1>5, <1>6

\* If names tell the tests apart, the report never shows the video of an
\* execution as that of another one, whatever goes wrong, and shows each that
\* has a video with its own when nothing does; except for the attempts that
\* were guessed or are counted apart, as OwnVideoShown says.  This holds for
\* any scene, number of workers and retries (matchOutcomes of
\* manifest-matcher.ts, createReportModel).
THEOREM OwnVideoShownHolds == Spec => [](NamesTell => OwnVideoShown)
<1>1. Init => OnceInv
  BY InitOnce
<1>2. OnceInv /\ (ReportInv /\ SoundInv /\ RecordedInv /\ PublicationInv)
      /\ [Next]_vars => OnceInv'
  BY OnceKeeps
<1>3. SoundInv /\ ReportInv /\ NamesInv /\ OnceInv =>
         (NamesTell => OwnVideoShown)
  BY OwnShown DEF SoundInv, WorkerSound
<1> QED
  BY <1>1, <1>2, <1>3, NamesInvariant, ReportInvariant, PTL DEF Spec
=============================================================================
