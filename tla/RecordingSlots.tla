--------------------------- MODULE RecordingSlots ---------------------------
(***************************************************************************)
(* The slot schedulers of src/service/recording-slots.ts.  Each worker     *)
(* process keeps one InProcessRecordingSlotState (a counter and a queue of *)
(* parked callers) shared by its schedulers; all workers of a run share a  *)
(* directory of lease files slot-1.lock .. slot-N.lock.  acquire() takes   *)
(* an in-process slot first and a global one second, and hands the first   *)
(* back when the second is refused.                                        *)
(*                                                                         *)
(* An action is what runs between two awaits that matter to others.  A     *)
(* lease file is the owner its metadata names, NoOwner when there is none; *)
(* it is judged, and unlinked by path later, so a file that was replaced   *)
(* in the meantime is lost to its owner.  OwnedFileLease looks into single *)
(* file operations and says when there is one owner only.  Time is         *)
(* abstracted: a deadline may pass whenever it is pending.                 *)
(***************************************************************************)
EXTENDS Naturals, Sequences, FiniteSets, Functions

CONSTANTS
    Workers,        \* worker processes
    Schedulers,     \* scheduler objects of all workers
    WorkerOf,       \* the worker each scheduler lives in
    MaxPerWorker,   \* maxConcurrentRecordings, 0 = no limit
    MaxGlobal,      \* maxGlobalRecordings, 0 = no limit
    FastFail,       \* recordingStartMode = 'fast-fail'
    StorageFaults,  \* may file operations on the lock directory fail?
    MaxUses,        \* bound: acquire() calls per scheduler
    NoOwner

ASSUME WorkerAssumption == WorkerOf \in [Schedulers -> Workers]
ASSUME FiniteAssumption == IsFiniteSet(Schedulers)
ASSUME LimitAssumption ==
    MaxPerWorker \in Nat /\ MaxGlobal \in Nat /\ MaxUses \in Nat
ASSUME ModeAssumption == FastFail \in BOOLEAN /\ StorageFaults \in BOOLEAN
ASSUME OwnerAssumption == NoOwner \notin Schedulers

VARIABLES
    up,                 \* workers that are running
    activeSlots,        \* InProcessRecordingSlotState.activeSlots, per worker
    waiters,            \* InProcessRecordingSlotState.waiters, per worker
    microtasks,         \* woken waiters queued with queueMicrotask, per worker
    ownsInProcessSlot,  \* schedulers whose ownsInProcessSlot flag is set
    globalSlotPath,     \* slot a scheduler owns globally, 0 = undefined
    releasingPath,      \* slot whose lease.release() is awaited, 0 = none
    slotFile,           \* the owner named in each lease file
    attempt,            \* the GlobalSlotAttempt being built, and its next slot
    expired,            \* schedulers whose acquire() deadline has passed
    pc,                 \* where a scheduler's acquire()/release() stands
    uses                \* acquire() calls made so far

inProcess == <<activeSlots, waiters, microtasks, ownsInProcessSlot>>
global == <<globalSlotPath, releasingPath, slotFile, attempt>>
vars == <<up, inProcess, global, expired, pc, uses>>

Slots == 1 .. MaxGlobal
Locations == {"idle", "polling", "waiting", "admitted", "scanning",
              "reclaiming", "held", "releasing", "unlinking", "dead"}
NewAttempt == [slot |-> 1, canRetry |-> FALSE, failed |-> FALSE]

InProcessTypeOK ==
    /\ activeSlots \in [Workers -> Nat]
    /\ waiters \in [Workers -> Seq(Schedulers)]
    /\ microtasks \in [Workers -> Seq(Schedulers)]
    /\ ownsInProcessSlot \subseteq Schedulers

Attempts == [slot : 1 .. MaxGlobal + 1, canRetry : BOOLEAN, failed : BOOLEAN]

GlobalTypeOK ==
    /\ globalSlotPath \in [Schedulers -> 0 .. MaxGlobal]
    /\ releasingPath \in [Schedulers -> 0 .. MaxGlobal]
    /\ slotFile \in [Slots -> Schedulers \union {NoOwner}]
    /\ attempt \in [Schedulers -> Attempts]

ControlTypeOK ==
    /\ up \subseteq Workers
    /\ expired \subseteq Schedulers
    /\ pc \in [Schedulers -> Locations]
    /\ uses \in [Schedulers -> 0 .. MaxUses]

TypeOK == InProcessTypeOK /\ GlobalTypeOK /\ ControlTypeOK

Init ==
    /\ up = Workers
    /\ activeSlots = [w \in Workers |-> 0]
    /\ waiters = [w \in Workers |-> <<>>]
    /\ microtasks = [w \in Workers |-> <<>>]
    /\ ownsInProcessSlot = {}
    /\ globalSlotPath = [s \in Schedulers |-> 0]
    /\ releasingPath = [s \in Schedulers |-> 0]
    /\ slotFile = [k \in Slots |-> NoOwner]
    /\ attempt = [s \in Schedulers |-> NewAttempt]
    /\ expired = {}
    /\ pc = [s \in Schedulers |-> "idle"]
    /\ uses = [s \in Schedulers |-> 0]

----------------------------------------------------------------------------
(* The in-process half.                                                    *)

\* Mutant: one slot too many.
HasRoomForOneMore(w) == activeSlots[w] <= MaxPerWorker

HasRoom(w) == activeSlots[w] < MaxPerWorker

\* tryAcquireInProcess, when it succeeds.
TakeInProcess(s) ==
    /\ HasRoom(WorkerOf[s])
    /\ activeSlots' = [activeSlots EXCEPT ![WorkerOf[s]] = @ + 1]
    /\ ownsInProcessSlot' = ownsInProcessSlot \union {s}
    /\ pc' = [pc EXCEPT ![s] = "admitted"]

\* Mutants: nobody is woken; the woken caller stays in the queue.
ReleaseWithoutWakeup(s) ==
    \/ s \notin ownsInProcessSlot /\ UNCHANGED inProcess
    \/ /\ s \in ownsInProcessSlot
       /\ ownsInProcessSlot' = ownsInProcessSlot \ {s}
       /\ activeSlots' = [activeSlots EXCEPT ![WorkerOf[s]] = @ - 1]
       /\ UNCHANGED <<waiters, microtasks>>

ReleaseKeepingWaiter(s) ==
    LET w == WorkerOf[s] IN
    \/ s \notin ownsInProcessSlot /\ UNCHANGED inProcess
    \/ /\ s \in ownsInProcessSlot
       /\ ownsInProcessSlot' = ownsInProcessSlot \ {s}
       /\ activeSlots' = [activeSlots EXCEPT ![w] = @ - 1]
       /\ microtasks' = [microtasks EXCEPT ![w] =
             IF waiters[w] = <<>> THEN @ ELSE Append(@, Head(waiters[w]))]
       /\ UNCHANGED waiters

\* releaseInProcess: give the slot back and wake the longest waiting caller.
ReleaseInProcess(s) ==
    LET w == WorkerOf[s] IN
    \/ /\ s \notin ownsInProcessSlot
       /\ UNCHANGED inProcess
    \/ /\ s \in ownsInProcessSlot
       /\ ownsInProcessSlot' = ownsInProcessSlot \ {s}
       /\ activeSlots' =
             [activeSlots EXCEPT ![w] = IF @ > 0 THEN @ - 1 ELSE @]
       /\ IF waiters[w] = <<>>
          THEN UNCHANGED <<waiters, microtasks>>
          ELSE /\ waiters' = [waiters EXCEPT ![w] = Tail(@)]
               /\ microtasks' =
                     [microtasks EXCEPT ![w] = Append(@, Head(waiters[w]))]

\* The call of s returns, and its attempt and deadline are gone.
EndCall(s) ==
    /\ attempt' = [attempt EXCEPT ![s] = NewAttempt]
    /\ expired' = expired \ {s}

\* acquire() is called: without a limit it passes on to the global half, with
\* fast-fail it polls, and in blocking mode it takes a slot or is parked.
Acquire(s) ==
    /\ WorkerOf[s] \in up
    /\ pc[s] = "idle"
    /\ uses[s] < MaxUses
    /\ uses' = [uses EXCEPT ![s] = @ + 1]
    /\ \/ /\ MaxPerWorker = 0
          /\ pc' = [pc EXCEPT ![s] = "admitted"]
          /\ UNCHANGED inProcess
       \/ /\ MaxPerWorker > 0 /\ FastFail
          /\ pc' = [pc EXCEPT ![s] = "polling"]
          /\ UNCHANGED inProcess
       \/ /\ MaxPerWorker > 0 /\ ~FastFail
          /\ TakeInProcess(s)
          /\ UNCHANGED <<waiters, microtasks>>
       \/ /\ MaxPerWorker > 0 /\ ~FastFail
          /\ ~HasRoom(WorkerOf[s])
          /\ waiters' = [waiters EXCEPT ![WorkerOf[s]] = Append(@, s)]
          /\ pc' = [pc EXCEPT ![s] = "waiting"]
          /\ UNCHANGED <<activeSlots, microtasks, ownsInProcessSlot>>
    /\ UNCHANGED <<up, global, expired>>

\* One round of the fast-fail loop finds room.
Poll(s) ==
    /\ pc[s] = "polling"
    /\ s \notin expired
    /\ TakeInProcess(s)
    /\ UNCHANGED <<up, waiters, microtasks, global, expired, uses>>

\* The fast-fail deadline passed: acquire() returns false.
PollTimeout(s) ==
    /\ pc[s] = "polling"
    /\ s \in expired
    /\ pc' = [pc EXCEPT ![s] = "idle"]
    /\ EndCall(s)
    /\ UNCHANGED <<up, inProcess, globalSlotPath, releasingPath, slotFile, uses>>

\* The oldest microtask of a worker runs: the woken caller tries again, and is
\* parked at the tail when somebody took the slot in the meantime.
RunMicrotask(w) ==
    /\ microtasks[w] # <<>>
    /\ microtasks' = [microtasks EXCEPT ![w] = Tail(@)]
    /\ LET s == Head(microtasks[w]) IN
       \/ /\ TakeInProcess(s)
          /\ UNCHANGED waiters
       \/ /\ ~HasRoom(w)
          /\ waiters' = [waiters EXCEPT ![w] = Append(@, s)]
          /\ UNCHANGED <<activeSlots, ownsInProcessSlot, pc>>
    /\ UNCHANGED <<up, global, expired, uses>>

----------------------------------------------------------------------------
(* The global half.                                                        *)

OwnedByDeadWorker(k) ==
    slotFile[k] # NoOwner /\ WorkerOf[slotFile[k]] \notin up

OwnedByLiveWorker(k) ==
    slotFile[k] # NoOwner /\ WorkerOf[slotFile[k]] \in up

\* The in-process slot is held; acquireGlobal starts, or returns true without
\* a limit.  A failing mkdir throws, and acquire() hands the slot back.
EnterGlobal(s) ==
    /\ pc[s] = "admitted"
    /\ \/ /\ MaxGlobal = 0
          /\ pc' = [pc EXCEPT ![s] = "held"]
          /\ UNCHANGED <<inProcess, attempt>>
       \/ /\ MaxGlobal > 0
          /\ attempt' = [attempt EXCEPT ![s] = NewAttempt]
          /\ pc' = [pc EXCEPT ![s] = "scanning"]
          /\ UNCHANGED inProcess
       \/ /\ MaxGlobal > 0 /\ StorageFaults
          /\ ReleaseInProcess(s)
          /\ pc' = [pc EXCEPT ![s] = "idle"]
          /\ UNCHANGED attempt
    /\ UNCHANGED <<up, globalSlotPath, releasingPath, slotFile, expired, uses>>

\* One slot of a round was not taken.
Missed(a, canRetry, failed) ==
    [slot |-> a.slot + 1,
     canRetry |-> a.canRetry \/ canRetry,
     failed |-> a.failed \/ failed]

\* Another scheduler may have the lease file of a slot open at the moment, or
\* have left it empty: stalled, killed, or failing to remove it.
InFlux(s) ==
    \E r \in Schedulers \ {s} :
        \/ pc[r] \in {"scanning", "reclaiming", "releasing", "unlinking", "dead"}
        \/ StorageFaults /\ uses[r] > 0

\* The lease of slot k is created, written and verified.
TakeLease(s, k) ==
    /\ slotFile' = [slotFile EXCEPT ![k] = s]
    /\ globalSlotPath' = [globalSlotPath EXCEPT ![s] = k]
    /\ pc' = [pc EXCEPT ![s] = "held"]
    /\ EndCall(s)

\* The slot is not taken, because of others or of file operations that fail;
\* the round goes on with the next one.
MissSlot(s, contended) ==
    /\ \/ contended /\ attempt' = [attempt EXCEPT ![s] = Missed(@, TRUE, FALSE)]
       \/ /\ StorageFaults
          /\ \E transient \in BOOLEAN :
                attempt' = [attempt EXCEPT ![s] = Missed(@, transient, TRUE)]
    /\ pc' = [pc EXCEPT ![s] = "scanning"]
    /\ UNCHANGED <<globalSlotPath, expired>>

\* openOwnedGlobalSlot on the next slot of the round: the lease is taken, or
\* the file in the way is found, and found again, to be a dead worker's or
\* empty for long, or the slot is not to be had.
TrySlot(s) ==
    LET k == attempt[s].slot IN
    /\ pc[s] = "scanning"
    /\ k \in Slots
    /\ \/ slotFile[k] = NoOwner /\ TakeLease(s, k)
       \/ /\ OwnedByDeadWorker(k) \/ (slotFile[k] = NoOwner /\ InFlux(s))
          /\ pc' = [pc EXCEPT ![s] = "reclaiming"]
          /\ UNCHANGED <<slotFile, globalSlotPath, attempt, expired>>
       \/ MissSlot(s, OwnedByLiveWorker(k) \/ InFlux(s)) /\ UNCHANGED slotFile
    /\ UNCHANGED <<up, inProcess, releasingPath, uses>>

\* cleanupStaleOwnedFileLease unlinks whatever the path names by now, and the
\* file is created anew, by this scheduler or by a faster one.
Reclaim(s) ==
    LET k == attempt[s].slot IN
    /\ pc[s] = "reclaiming"
    /\ k \in Slots
    /\ \/ TakeLease(s, k)
       \/ /\ MissSlot(s, InFlux(s))
          /\ \/ slotFile' = [slotFile EXCEPT ![k] = NoOwner]
             \/ StorageFaults /\ UNCHANGED slotFile
    /\ UNCHANGED <<up, inProcess, releasingPath, uses>>

\* A round without success, and time left: wait and start over.
RetryRound(s) ==
    /\ pc[s] = "scanning"
    /\ attempt[s].slot > MaxGlobal
    /\ attempt[s].canRetry
    /\ s \notin expired
    /\ attempt' = [attempt EXCEPT ![s] = NewAttempt]
    /\ UNCHANGED <<up, inProcess, globalSlotPath, releasingPath, slotFile,
                   expired, pc, uses>>

\* Mutants: the in-process slot is kept; the deadline does not end the loop.
GiveUpKeepingSlot(s) ==
    /\ pc[s] = "scanning"
    /\ attempt[s].slot > MaxGlobal
    /\ ~attempt[s].canRetry \/ s \in expired
    /\ pc' = [pc EXCEPT ![s] = "idle"]
    /\ EndCall(s)
    /\ UNCHANGED <<up, inProcess, globalSlotPath, releasingPath, slotFile, uses>>

GiveUpWithoutDeadline(s) ==
    /\ pc[s] = "scanning"
    /\ attempt[s].slot > MaxGlobal
    /\ ~attempt[s].canRetry
    /\ ReleaseInProcess(s)
    /\ pc' = [pc EXCEPT ![s] = "idle"]
    /\ EndCall(s)
    /\ UNCHANGED <<up, globalSlotPath, releasingPath, slotFile, uses>>

\* A round without success, and no time or no point in another one: acquire()
\* hands the in-process slot back and returns false, or throws the failures.
GiveUp(s) ==
    /\ pc[s] = "scanning"
    /\ attempt[s].slot > MaxGlobal
    /\ ~attempt[s].canRetry \/ s \in expired
    /\ ReleaseInProcess(s)
    /\ pc' = [pc EXCEPT ![s] = "idle"]
    /\ EndCall(s)
    /\ UNCHANGED <<up, globalSlotPath, releasingPath, slotFile, uses>>

\* The deadline of a pending acquire() passes.  A parked caller has none.
Expire(s) ==
    /\ pc[s] \in {"polling", "scanning", "reclaiming"}
    /\ expired' = expired \union {s}
    /\ UNCHANGED <<up, inProcess, global, pc, uses>>

\* release(): the global fields are cleared before the lease is given back.
\* Without a global slot the in-process slot goes back at once.
Release(s) ==
    /\ pc[s] = "held"
    /\ \/ /\ globalSlotPath[s] # 0
          /\ releasingPath' = [releasingPath EXCEPT ![s] = globalSlotPath[s]]
          /\ globalSlotPath' = [globalSlotPath EXCEPT ![s] = 0]
          /\ pc' = [pc EXCEPT ![s] = "releasing"]
          /\ UNCHANGED inProcess
       \/ /\ globalSlotPath[s] = 0
          /\ ReleaseInProcess(s)
          /\ pc' = [pc EXCEPT ![s] = "idle"]
          /\ UNCHANGED <<releasingPath, globalSlotPath>>
    /\ UNCHANGED <<up, slotFile, attempt, expired, uses>>

\* The lease is given back, or could not be: the in-process slot follows.
Released(s) ==
    /\ releasingPath' = [releasingPath EXCEPT ![s] = 0]
    /\ ReleaseInProcess(s)
    /\ pc' = [pc EXCEPT ![s] = "idle"]

\* releaseNow looks whether the file is still one's own.  If it is not, or the
\* check fails, the release is over.
CheckLease(s) ==
    /\ pc[s] = "releasing"
    /\ \/ /\ slotFile[releasingPath[s]] = s
          /\ pc' = [pc EXCEPT ![s] = "unlinking"]
          /\ UNCHANGED <<inProcess, releasingPath>>
       \/ /\ slotFile[releasingPath[s]] # s \/ StorageFaults
          /\ Released(s)
    /\ UNCHANGED <<up, globalSlotPath, slotFile, attempt, expired, uses>>

\* Mutant: the lease file is not removed.
LeaseForgotten(s) ==
    /\ pc[s] = "unlinking"
    /\ Released(s)
    /\ UNCHANGED <<up, globalSlotPath, slotFile, attempt, expired, uses>>

\* lease.release() settles: whatever the path names is unlinked.  A refused
\* unlink is swallowed: the file stays and names a live worker.
LeaseReleased(s) ==
    /\ pc[s] = "unlinking"
    /\ \/ slotFile' = [slotFile EXCEPT ![releasingPath[s]] = NoOwner]
       \/ StorageFaults /\ UNCHANGED slotFile
    /\ Released(s)
    /\ UNCHANGED <<up, globalSlotPath, attempt, expired, uses>>

\* A worker process is killed: its memory is gone, its lease files stay.
Crash(w) ==
    LET mine == {s \in Schedulers : WorkerOf[s] = w} IN
    /\ w \in up
    /\ up' = up \ {w}
    /\ activeSlots' = [activeSlots EXCEPT ![w] = 0]
    /\ waiters' = [waiters EXCEPT ![w] = <<>>]
    /\ microtasks' = [microtasks EXCEPT ![w] = <<>>]
    /\ ownsInProcessSlot' = ownsInProcessSlot \ mine
    /\ globalSlotPath' =
          [s \in Schedulers |-> IF s \in mine THEN 0 ELSE globalSlotPath[s]]
    /\ releasingPath' =
          [s \in Schedulers |-> IF s \in mine THEN 0 ELSE releasingPath[s]]
    /\ attempt' =
          [s \in Schedulers |-> IF s \in mine THEN NewAttempt ELSE attempt[s]]
    /\ expired' = expired \ mine
    /\ pc' = [s \in Schedulers |-> IF s \in mine THEN "dead" ELSE pc[s]]
    /\ UNCHANGED <<slotFile, uses>>

\* Every scheduler has made its last call, or died.
Done ==
    /\ \A s \in Schedulers :
          pc[s] = "dead" \/ (pc[s] = "idle" /\ uses[s] = MaxUses)
    /\ UNCHANGED vars

----------------------------------------------------------------------------
SchedulerStep(s) ==
    \/ Poll(s)
    \/ PollTimeout(s)
    \/ EnterGlobal(s)
    \/ TrySlot(s)
    \/ Reclaim(s)
    \/ RetryRound(s)
    \/ GiveUp(s)
    \/ Release(s)
    \/ CheckLease(s)
    \/ LeaseReleased(s)

Next ==
    \/ \E s \in Schedulers : Acquire(s) \/ SchedulerStep(s) \/ Expire(s)
    \/ \E w \in Workers : RunMicrotask(w) \/ Crash(w)
    \/ Done

Spec == Init /\ [][Next]_vars

(* The event loop runs every queued microtask and every settled await, time *)
(* passes, and whoever holds a slot eventually releases it: a recording     *)
(* ends with its test and every FFmpeg run has a timeout.  Nobody has to    *)
(* call acquire() and no worker has to crash.                               *)
Fairness ==
    /\ \A s \in Schedulers : WF_vars(SchedulerStep(s)) /\ WF_vars(Expire(s))
    /\ \A w \in Workers : WF_vars(RunMicrotask(w))

FairSpec == Spec /\ Fairness

----------------------------------------------------------------------------
(* Properties.                                                             *)

HoldersIn(w) == {s \in ownsInProcessSlot : WorkerOf[s] = w}

\* The counter of a worker equals the number of its schedulers whose flag says
\* they own a slot, so no failure path of acquire() or release() leaks a slot
\* or returns one twice, and the configured limit is never exceeded.
SlotAccounting ==
    \A w \in Workers :
        /\ activeSlots[w] = Cardinality(HoldersIn(w))
        /\ activeSlots[w] <= MaxPerWorker

\* While a caller is parked in waiters, each free slot is matched by a wakeup
\* already queued: releasing, barging and re-parking never lose a wakeup.
NoLostWakeup ==
    \A w \in Workers :
        waiters[w] # <<>> =>
            MaxPerWorker - activeSlots[w] <= Len(microtasks[w])

\* A caller inside acquire()'s blocking promise is queued exactly once, as a
\* waiter or as a pending wakeup, and nobody else is: twice would take two
\* slots for one release, never would leave it parked for good.
QueuedOnce ==
    \A w \in Workers :
        /\ IsInjective(waiters[w])
        /\ IsInjective(microtasks[w])
        /\ Range(waiters[w]) \intersect Range(microtasks[w]) = {}
        /\ Range(waiters[w]) \union Range(microtasks[w]) =
              {s \in Schedulers : WorkerOf[s] = w /\ pc[s] = "waiting"}

\* When acquire() has returned false or thrown, and when release() is over, the
\* scheduler keeps nothing: not the in-process slot and not a global one.
NothingKept ==
    \A s \in Schedulers :
        pc[s] \in {"idle", "polling", "waiting", "dead"} =>
            /\ s \notin ownsInProcessSlot
            /\ globalSlotPath[s] = 0
            /\ releasingPath[s] = 0

\* Without storage faults a lease file names a live worker only while that
\* worker's scheduler uses the slot: capacity is lost to no one but the dead,
\* whose files the next scan takes over.
NoStrandedSlot ==
    ~StorageFaults =>
        \A k \in Slots :
            OwnedByLiveWorker(k) =>
                k \in {globalSlotPath[slotFile[k]], releasingPath[slotFile[k]]}

Acquiring == {"polling", "waiting", "admitted", "scanning", "reclaiming"}

\* Every acquire() call comes back: with a slot, with false, or with an error.
AcquireReturns ==
    \A s \in Schedulers : pc[s] \in Acquiring ~> pc[s] \notin Acquiring

\* The in-process half of a worker, seen as a SlotPool.
Parked(w) ==
    {s \in Schedulers : WorkerOf[s] = w /\ pc[s] \in {"polling", "waiting"}}

Pool(w) == INSTANCE SlotPool WITH
    Clients <- {s \in Schedulers : WorkerOf[s] = w},
    Capacity <- MaxPerWorker,
    waiting <- Parked(w),
    holders <- HoldersIn(w)
=============================================================================
