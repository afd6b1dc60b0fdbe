------------------------ MODULE RecordingSlots_proof ------------------------
(***************************************************************************)
(* Proofs about RecordingSlots, for every set of workers and schedulers    *)
(* and every limit.  The argument is in layers: types, then where parked   *)
(* callers are queued, then the counter and the wakeups, then the global   *)
(* slots, then the step simulation of SlotPool.                            *)
(***************************************************************************)
EXTENDS RecordingSlots, FiniteSetTheorems, TLAPS

\* A step of one scheduler or worker: Next without Done, which changes nothing.
Step ==
    \/ \E s \in Schedulers : Acquire(s) \/ SchedulerStep(s) \/ Expire(s)
    \/ \E w \in Workers : RunMicrotask(w) \/ Crash(w)

LEMMA NextIsStep ==
    ASSUME [Next]_vars
    PROVE  Step \/ UNCHANGED vars
BY DEF Next, Step, Done

----------------------------------------------------------------------------
(* Types.                                                                  *)

\* releaseInProcess keeps the types of the in-process state.
LEMMA ReleaseInProcessType ==
    ASSUME InProcessTypeOK, NEW s \in Schedulers, ReleaseInProcess(s)
    PROVE  InProcessTypeOK'
<1>w. WorkerOf[s] \in Workers
  BY WorkerAssumption
<1>1. CASE s \notin ownsInProcessSlot
  BY <1>1 DEF ReleaseInProcess, inProcess, InProcessTypeOK
<1>2. CASE s \in ownsInProcessSlot
  <2>1. activeSlots' \in [Workers -> Nat]
    BY <1>2, <1>w DEF ReleaseInProcess, InProcessTypeOK
  <2>2. ownsInProcessSlot' \subseteq Schedulers
    BY <1>2 DEF ReleaseInProcess, InProcessTypeOK
  <2>3. CASE waiters[WorkerOf[s]] = <<>>
    BY <1>2, <2>1, <2>2, <2>3 DEF ReleaseInProcess, InProcessTypeOK
  <2>4. CASE waiters[WorkerOf[s]] # <<>>
    <3>1. /\ Head(waiters[WorkerOf[s]]) \in Schedulers
          /\ Tail(waiters[WorkerOf[s]]) \in Seq(Schedulers)
      BY <1>w, <2>4 DEF InProcessTypeOK
    <3>2. Append(microtasks[WorkerOf[s]], Head(waiters[WorkerOf[s]]))
             \in Seq(Schedulers)
      BY <1>w, <3>1 DEF InProcessTypeOK
    <3> QED
      BY <1>2, <2>1, <2>2, <2>4, <3>1, <3>2
      DEF ReleaseInProcess, InProcessTypeOK
  <2> QED
    BY <2>3, <2>4
<1> QED
  BY <1>1, <1>2

\* So does taking a slot, whatever happens to the queues.
LEMMA TakeInProcessType ==
    ASSUME InProcessTypeOK, NEW s \in Schedulers, TakeInProcess(s),
           waiters' \in [Workers -> Seq(Schedulers)],
           microtasks' \in [Workers -> Seq(Schedulers)]
    PROVE  InProcessTypeOK'
<1>1. WorkerOf[s] \in Workers /\ activeSlots[WorkerOf[s]] \in Nat
  BY WorkerAssumption DEF InProcessTypeOK
<1>2. /\ activeSlots' = [activeSlots EXCEPT ![WorkerOf[s]] = @ + 1]
      /\ ownsInProcessSlot' = ownsInProcessSlot \union {s}
  BY DEF TakeInProcess
<1>3. activeSlots' \in [Workers -> Nat]
  BY <1>1, <1>2 DEF InProcessTypeOK
<1>4. ownsInProcessSlot' \subseteq Schedulers
  BY <1>2 DEF InProcessTypeOK
<1> QED
  BY <1>3, <1>4 DEF InProcessTypeOK

LEMMA TypeInit == Init => TypeOK
<1> SUFFICES ASSUME Init PROVE TypeOK
  OBVIOUS
<1>1. InProcessTypeOK
  BY DEF Init, InProcessTypeOK
<1>2. GlobalTypeOK
  BY LimitAssumption DEF Init, GlobalTypeOK, NewAttempt, Attempts
<1>3. ControlTypeOK
  BY LimitAssumption DEF Init, ControlTypeOK, Locations
<1> QED
  BY <1>1, <1>2, <1>3 DEF TypeOK

LEMMA InProcessTypeStep ==
    ASSUME TypeOK, [Next]_vars
    PROVE  InProcessTypeOK'
<1>0. InProcessTypeOK
  BY DEF TypeOK
<1> USE <1>0
<1>1. ASSUME NEW s \in Schedulers, Acquire(s) PROVE InProcessTypeOK'
  <2>1. CASE UNCHANGED inProcess
    BY <2>1 DEF inProcess, InProcessTypeOK
  <2>2. CASE TakeInProcess(s) /\ UNCHANGED <<waiters, microtasks>>
    BY <2>2, TakeInProcessType DEF InProcessTypeOK
  <2>3. CASE /\ waiters' = [waiters EXCEPT ![WorkerOf[s]] = Append(@, s)]
             /\ UNCHANGED <<activeSlots, microtasks, ownsInProcessSlot>>
    <3>1. Append(waiters[WorkerOf[s]], s) \in Seq(Schedulers)
      BY WorkerAssumption DEF InProcessTypeOK
    <3> QED
      BY <2>3, <3>1 DEF InProcessTypeOK
  <2> QED
    BY <1>1, <2>1, <2>2, <2>3 DEF Acquire
<1>2. ASSUME NEW s \in Schedulers, SchedulerStep(s) PROVE InProcessTypeOK'
  <2>1. CASE UNCHANGED inProcess
    BY <2>1 DEF inProcess, InProcessTypeOK
  <2>2. CASE ReleaseInProcess(s)
    BY <2>2, ReleaseInProcessType
  <2>3. CASE TakeInProcess(s) /\ UNCHANGED <<waiters, microtasks>>
    BY <2>3, TakeInProcessType DEF InProcessTypeOK
  <2> QED
    BY <1>2, <2>1, <2>2, <2>3
    DEF SchedulerStep, Poll, PollTimeout, EnterGlobal, TrySlot, Reclaim,
        TakeLease, MissSlot, RetryRound, GiveUp, Release, CheckLease,
        LeaseReleased, Released
<1>3. ASSUME NEW s \in Schedulers, Expire(s) PROVE InProcessTypeOK'
  BY <1>3 DEF Expire, InProcessTypeOK, inProcess
<1>4. ASSUME NEW w \in Workers, RunMicrotask(w) PROVE InProcessTypeOK'
  <2>1. /\ Head(microtasks[w]) \in Schedulers
        /\ Tail(microtasks[w]) \in Seq(Schedulers)
    BY <1>4 DEF RunMicrotask, InProcessTypeOK
  <2>2. Append(waiters[w], Head(microtasks[w])) \in Seq(Schedulers)
    BY <2>1 DEF InProcessTypeOK
  <2>3. microtasks' \in [Workers -> Seq(Schedulers)]
    BY <1>4, <2>1 DEF RunMicrotask, InProcessTypeOK
  <2>4. CASE TakeInProcess(Head(microtasks[w])) /\ UNCHANGED waiters
    BY <2>1, <2>3, <2>4, TakeInProcessType DEF InProcessTypeOK
  <2>5. CASE /\ waiters' =
                   [waiters EXCEPT ![w] = Append(@, Head(microtasks[w]))]
             /\ UNCHANGED <<activeSlots, ownsInProcessSlot, pc>>
    BY <2>2, <2>3, <2>5 DEF InProcessTypeOK
  <2> QED
    BY <1>4, <2>4, <2>5 DEF RunMicrotask
<1>5. ASSUME NEW w \in Workers, Crash(w) PROVE InProcessTypeOK'
  BY <1>5 DEF Crash, InProcessTypeOK
<1>6. CASE UNCHANGED vars
  BY <1>6 DEF vars, InProcessTypeOK, inProcess
<1> QED
  BY <1>1, <1>2, <1>3, <1>4, <1>5, <1>6, NextIsStep DEF Step

LEMMA GlobalTypeStep ==
    ASSUME TypeOK, [Next]_vars
    PROVE  GlobalTypeOK'
<1>0. GlobalTypeOK
  BY DEF TypeOK
<1> USE <1>0, LimitAssumption
<1>1. CASE UNCHANGED global
  BY <1>1 DEF global, GlobalTypeOK
<1>2. ASSUME NEW s \in Schedulers, EnterGlobal(s) \/ RetryRound(s)
      PROVE  GlobalTypeOK'
  <2>1. NewAttempt \in Attempts
    BY DEF NewAttempt, Attempts
  <2> QED
    BY <1>2, <2>1 DEF EnterGlobal, RetryRound, GlobalTypeOK
<1>3. ASSUME NEW s \in Schedulers, TrySlot(s) \/ Reclaim(s)
      PROVE  GlobalTypeOK'
  <2>0. /\ attempt[s] \in Attempts /\ attempt[s].slot \in Slots
        /\ releasingPath' = releasingPath
    BY <1>3 DEF TrySlot, Reclaim, GlobalTypeOK
  <2>1. \A r, f \in BOOLEAN : Missed(attempt[s], r, f) \in Attempts
    BY <2>0 DEF Missed, Attempts, Slots
  <2>2. NewAttempt \in Attempts
    BY DEF NewAttempt, Attempts
  <2>3. CASE TakeLease(s, attempt[s].slot)
    BY <2>0, <2>2, <2>3 DEF TakeLease, EndCall, GlobalTypeOK, Slots
  <2>4. CASE ~TakeLease(s, attempt[s].slot)
    <3>1. attempt' \in [Schedulers -> Attempts]
      BY <1>3, <2>1, <2>4 DEF TrySlot, Reclaim, MissSlot, GlobalTypeOK
    <3>2. slotFile' \in [Slots -> Schedulers \union {NoOwner}]
      BY <1>3, <2>4 DEF TrySlot, Reclaim, GlobalTypeOK
    <3>3. globalSlotPath' = globalSlotPath
      BY <1>3, <2>4 DEF TrySlot, Reclaim, MissSlot
    <3> QED
      BY <2>0, <3>1, <3>2, <3>3 DEF GlobalTypeOK
  <2> QED
    BY <2>3, <2>4
<1>4. ASSUME NEW s \in Schedulers,
             Release(s) \/ CheckLease(s) \/ LeaseReleased(s)
      PROVE  GlobalTypeOK'
  BY <1>4 DEF Release, CheckLease, LeaseReleased, Released, GlobalTypeOK
<1>5. ASSUME NEW s \in Schedulers, PollTimeout(s) \/ GiveUp(s)
      PROVE  GlobalTypeOK'
  <2>1. NewAttempt \in Attempts
    BY DEF NewAttempt, Attempts
  <2> QED
    BY <1>5, <2>1 DEF PollTimeout, GiveUp, EndCall, GlobalTypeOK
<1>6. ASSUME NEW w \in Workers, Crash(w) PROVE GlobalTypeOK'
  <2>1. NewAttempt \in Attempts
    BY DEF NewAttempt, Attempts
  <2> QED
    BY <1>6, <2>1 DEF Crash, GlobalTypeOK
<1> QED
  BY <1>1, <1>2, <1>3, <1>4, <1>5, <1>6, NextIsStep
  DEF Step, SchedulerStep, Acquire, Poll, PollTimeout, GiveUp, Expire,
      RunMicrotask, vars, global

LEMMA ControlTypeStep ==
    ASSUME TypeOK, [Next]_vars
    PROVE  ControlTypeOK'
<1>0. ControlTypeOK /\ InProcessTypeOK
  BY DEF TypeOK
<1> USE <1>0, LimitAssumption
<1>1. ASSUME NEW s \in Schedulers, Acquire(s) PROVE ControlTypeOK'
  <2>1. uses' \in [Schedulers -> 0 .. MaxUses]
    BY <1>1 DEF Acquire, ControlTypeOK
  <2>2. pc' \in [Schedulers -> Locations]
    BY <1>1 DEF Acquire, ControlTypeOK, Locations, TakeInProcess
  <2> QED
    BY <1>1, <2>1, <2>2 DEF Acquire, ControlTypeOK
<1>2. ASSUME NEW s \in Schedulers, SchedulerStep(s) PROVE ControlTypeOK'
  <2>1. pc' \in [Schedulers -> Locations]
    BY <1>2
    DEF SchedulerStep, Poll, PollTimeout, EnterGlobal, TrySlot, Reclaim,
        TakeLease, MissSlot, RetryRound, GiveUp, Release, CheckLease,
        LeaseReleased, Released, ControlTypeOK, Locations, TakeInProcess
  <2>2. UNCHANGED <<up, uses>> /\ expired' \subseteq expired
    BY <1>2
    DEF SchedulerStep, Poll, PollTimeout, EnterGlobal, TrySlot, Reclaim,
        TakeLease, MissSlot, RetryRound, GiveUp, Release, CheckLease,
        LeaseReleased, Released, EndCall
  <2> QED
    BY <2>1, <2>2 DEF ControlTypeOK
<1>3. ASSUME NEW s \in Schedulers, Expire(s) PROVE ControlTypeOK'
  BY <1>3 DEF Expire, ControlTypeOK
<1>4. ASSUME NEW w \in Workers, RunMicrotask(w) PROVE ControlTypeOK'
  <2>1. Head(microtasks[w]) \in Schedulers
    BY <1>4 DEF RunMicrotask, InProcessTypeOK
  <2> QED
    BY <1>4, <2>1 DEF RunMicrotask, ControlTypeOK, Locations, TakeInProcess
<1>5. ASSUME NEW w \in Workers, Crash(w) PROVE ControlTypeOK'
  BY <1>5 DEF Crash, ControlTypeOK, Locations
<1>6. CASE UNCHANGED vars
  BY <1>6 DEF vars, ControlTypeOK
<1> QED
  BY <1>1, <1>2, <1>3, <1>4, <1>5, <1>6, NextIsStep DEF Step

\* Every state variable keeps its type.
THEOREM TypeCorrect == Spec => []TypeOK
<1>1. TypeOK /\ [Next]_vars => TypeOK'
  BY InProcessTypeStep, GlobalTypeStep, ControlTypeStep DEF TypeOK
<1> QED
  BY <1>1, TypeInit, PTL DEF Spec

----------------------------------------------------------------------------
(* Where parked callers are queued.                                        *)

LEMMA AppendRange ==
    ASSUME NEW S, NEW q \in Seq(S), NEW x \in S
    PROVE  /\ Range(Append(q, x)) = Range(q) \union {x}
           /\ IsInjective(q) /\ x \notin Range(q) => IsInjective(Append(q, x))
<1>1. /\ DOMAIN q = 1 .. Len(q) /\ Len(q) \in Nat
      /\ DOMAIN Append(q, x) = 1 .. Len(q) + 1
      /\ \A i \in 1 .. Len(q) : Append(q, x)[i] = q[i]
      /\ Append(q, x)[Len(q) + 1] = x
  OBVIOUS
<1>2. Range(Append(q, x)) = Range(q) \union {x}
  BY <1>1 DEF Range
<1>3. ASSUME IsInjective(q), x \notin Range(q) PROVE IsInjective(Append(q, x))
  BY <1>1, <1>3 DEF IsInjective, Range
<1> QED
  BY <1>2, <1>3

LEMMA TailRange ==
    ASSUME NEW S, NEW q \in Seq(S), q # <<>>, IsInjective(q)
    PROVE  /\ Range(Tail(q)) = Range(q) \ {Head(q)}
           /\ IsInjective(Tail(q))
           /\ Head(q) \in Range(q)
<1>1. /\ DOMAIN q = 1 .. Len(q) /\ Len(q) \in Nat \ {0}
      /\ DOMAIN Tail(q) = 1 .. Len(q) - 1
      /\ \A i \in 1 .. Len(q) - 1 : Tail(q)[i] = q[i + 1]
      /\ Head(q) = q[1]
  OBVIOUS
<1>2. Head(q) \in Range(q)
  BY <1>1 DEF Range
<1>3. IsInjective(Tail(q))
  BY <1>1 DEF IsInjective
<1>4. ASSUME NEW y \in Range(q), y # Head(q) PROVE y \in Range(Tail(q))
  <2>1. PICK i \in 1 .. Len(q) : q[i] = y
    BY <1>1 DEF Range
  <2>2. i - 1 \in 1 .. Len(q) - 1 /\ Tail(q)[i - 1] = y
    BY <1>1, <1>4, <2>1
  <2> QED
    BY <1>1, <2>2 DEF Range
<1>5. ASSUME NEW y \in Range(Tail(q)) PROVE y \in Range(q) \ {Head(q)}
  <2>1. PICK i \in 1 .. Len(q) - 1 : y = q[i + 1]
    BY <1>1 DEF Range
  <2>2. i + 1 \in DOMAIN q /\ 1 \in DOMAIN q /\ i + 1 # 1
    BY <1>1
  <2> QED
    BY <1>1, <2>1, <2>2 DEF Range, IsInjective
<1> QED
  BY <1>2, <1>3, <1>4, <1>5

\* The queues q and m hold the callers in W, each exactly once.
Holds(q, m, W) ==
    /\ IsInjective(q)
    /\ IsInjective(m)
    /\ Range(q) \intersect Range(m) = {}
    /\ Range(q) \union Range(m) = W

WaitingIn(w) == {s \in Schedulers : WorkerOf[s] = w /\ pc[s] = "waiting"}

LEMMA QueuedOnceIsHolds ==
    QueuedOnce <=>
        \A w \in Workers : Holds(waiters[w], microtasks[w], WaitingIn(w))
BY DEF QueuedOnce, Holds, WaitingIn

\* Parking, waking, admitting and re-parking a caller keep the queues exact.
LEMMA Park ==
    ASSUME NEW S, NEW q \in Seq(S), NEW m \in Seq(S), NEW W,
           Holds(q, m, W), NEW x \in S, x \notin W
    PROVE  Holds(Append(q, x), m, W \union {x})
BY AppendRange DEF Holds

LEMMA Wake ==
    ASSUME NEW S, NEW q \in Seq(S), NEW m \in Seq(S), NEW W,
           Holds(q, m, W), q # <<>>
    PROVE  Holds(Tail(q), Append(m, Head(q)), W)
<1>1. Head(q) \in S
  OBVIOUS
<1>2. /\ Range(Tail(q)) = Range(q) \ {Head(q)}
      /\ IsInjective(Tail(q))
      /\ Head(q) \in Range(q)
  BY TailRange DEF Holds
<1>3. Range(Append(m, Head(q))) = Range(m) \union {Head(q)}
  BY <1>1, AppendRange
<1>4. IsInjective(Append(m, Head(q)))
  BY <1>1, <1>2, AppendRange DEF Holds
<1> QED
  BY <1>2, <1>3, <1>4 DEF Holds

LEMMA Admit ==
    ASSUME NEW S, NEW q \in Seq(S), NEW m \in Seq(S), NEW W,
           Holds(q, m, W), m # <<>>
    PROVE  /\ Head(m) \in W
           /\ Holds(q, Tail(m), W \ {Head(m)})
BY TailRange DEF Holds

LEMMA Repark ==
    ASSUME NEW S, NEW q \in Seq(S), NEW m \in Seq(S), NEW W,
           Holds(q, m, W), m # <<>>
    PROVE  Holds(Append(q, Head(m)), Tail(m), W)
<1>1. Head(m) \in S /\ Tail(m) \in Seq(S)
  OBVIOUS
<1>2. Head(m) \in W /\ Holds(q, Tail(m), W \ {Head(m)})
  BY Admit
<1>3. Holds(Append(q, Head(m)), Tail(m), (W \ {Head(m)}) \union {Head(m)})
  BY <1>1, <1>2, Park
<1>4. (W \ {Head(m)}) \union {Head(m)} = W
  BY <1>2
<1> QED
  BY <1>3, <1>4

\* A step that only wakes a caller, and parks or admits none.
LEMMA ReleaseQueuedOnce ==
    ASSUME InProcessTypeOK, QueuedOnce, NEW s \in Schedulers,
           ReleaseInProcess(s), \A w \in Workers : WaitingIn(w)' = WaitingIn(w)
    PROVE  QueuedOnce'
<1> SUFFICES ASSUME NEW w \in Workers
             PROVE  Holds(waiters[w], microtasks[w], WaitingIn(w))'
  BY DEF QueuedOnce, Holds, WaitingIn
<1>1. Holds(waiters[w], microtasks[w], WaitingIn(w))
  BY QueuedOnceIsHolds
<1>2. CASE waiters'[w] = waiters[w] /\ microtasks'[w] = microtasks[w]
  BY <1>1, <1>2 DEF Holds
<1>3. CASE /\ waiters[w] # <<>>
           /\ waiters'[w] = Tail(waiters[w])
           /\ microtasks'[w] = Append(microtasks[w], Head(waiters[w]))
  <2>1. waiters[w] \in Seq(Schedulers) /\ microtasks[w] \in Seq(Schedulers)
    BY DEF InProcessTypeOK
  <2>2. Holds(Tail(waiters[w]), Append(microtasks[w], Head(waiters[w])),
              WaitingIn(w))
    BY <1>1, <1>3, <2>1, Wake
  <2> QED
    BY <1>3, <2>2 DEF Holds
<1>4. CASE UNCHANGED <<waiters, microtasks>>
  BY <1>2, <1>4
<1>5. CASE /\ waiters[WorkerOf[s]] # <<>>
           /\ waiters' = [waiters EXCEPT ![WorkerOf[s]] = Tail(@)]
           /\ microtasks' = [microtasks EXCEPT ![WorkerOf[s]] =
                                Append(@, Head(waiters[WorkerOf[s]]))]
  BY <1>2, <1>3, <1>5 DEF InProcessTypeOK
<1> QED
  BY <1>4, <1>5 DEF ReleaseInProcess, inProcess

LEMMA QueuedOnceStep ==
    ASSUME TypeOK, QueuedOnce, [Next]_vars
    PROVE  QueuedOnce'
<1>0. /\ InProcessTypeOK
      /\ ControlTypeOK
      /\ \A w \in Workers : /\ waiters[w] \in Seq(Schedulers)
                             /\ microtasks[w] \in Seq(Schedulers)
                             /\ Holds(waiters[w], microtasks[w], WaitingIn(w))
  BY QueuedOnceIsHolds DEF TypeOK, InProcessTypeOK
<1>1. ASSUME UNCHANGED <<waiters, microtasks>>,
             \A w \in Workers : WaitingIn(w)' = WaitingIn(w)
      PROVE  QueuedOnce'
  BY <1>0, <1>1 DEF QueuedOnce, Holds, WaitingIn
<1>2. ASSUME NEW s \in Schedulers, Acquire(s) PROVE QueuedOnce'
  <2>1. pc \in [Schedulers -> Locations] /\ pc[s] = "idle"
    BY <1>0, <1>2 DEF Acquire, ControlTypeOK
  <2>2. CASE /\ waiters' = [waiters EXCEPT ![WorkerOf[s]] = Append(@, s)]
             /\ pc' = [pc EXCEPT ![s] = "waiting"]
             /\ UNCHANGED <<activeSlots, microtasks, ownsInProcessSlot>>
    <3> SUFFICES ASSUME NEW w \in Workers
                 PROVE  Holds(waiters[w], microtasks[w], WaitingIn(w))'
      BY DEF QueuedOnce, Holds, WaitingIn
    <3>1. CASE w = WorkerOf[s]
      <4>1. WaitingIn(w)' = WaitingIn(w) \union {s} /\ s \notin WaitingIn(w)
        BY <2>1, <2>2, <3>1 DEF WaitingIn
      <4>2. waiters'[w] = Append(waiters[w], s) /\ microtasks' = microtasks
        BY <1>0, <2>2, <3>1 DEF InProcessTypeOK
      <4>3. Holds(Append(waiters[w], s), microtasks[w], WaitingIn(w) \union {s})
        BY <1>0, <4>1, Park
      <4> QED
        BY <4>1, <4>2, <4>3 DEF Holds
    <3>2. CASE w # WorkerOf[s]
      <4>1. WaitingIn(w)' = WaitingIn(w)
        BY <2>1, <2>2, <3>2 DEF WaitingIn
      <4>2. waiters'[w] = waiters[w] /\ microtasks' = microtasks
        BY <1>0, <2>2, <3>2 DEF InProcessTypeOK
      <4> QED
        BY <1>0, <4>1, <4>2 DEF Holds
    <3> QED
      BY <3>1, <3>2
  <2>3. CASE /\ UNCHANGED <<waiters, microtasks>>
             /\ \E l \in {"admitted", "polling"} : pc' = [pc EXCEPT ![s] = l]
    <3>1. \A w \in Workers : WaitingIn(w)' = WaitingIn(w)
      BY <2>1, <2>3 DEF WaitingIn
    <3> QED
      BY <1>1, <2>3, <3>1
  <2> QED
    BY <1>2, <2>2, <2>3 DEF Acquire, TakeInProcess, inProcess
<1>3. ASSUME NEW s \in Schedulers, SchedulerStep(s) PROVE QueuedOnce'
  <2>1. pc \in [Schedulers -> Locations] /\ pc[s] # "waiting"
    BY <1>0, <1>3
    DEF SchedulerStep, Poll, PollTimeout, EnterGlobal, TrySlot, Reclaim,
        TakeLease, MissSlot, RetryRound, GiveUp, Release, CheckLease,
        LeaseReleased, Released, ControlTypeOK
  <2>2. \/ pc' = pc
        \/ \E l \in Locations \ {"waiting"} : pc' = [pc EXCEPT ![s] = l]
    BY <1>3
    DEF SchedulerStep, Poll, PollTimeout, EnterGlobal, TrySlot, Reclaim,
        TakeLease, MissSlot, RetryRound, GiveUp, Release, CheckLease,
        LeaseReleased, Released, Locations, TakeInProcess
  <2>3. \A w \in Workers : WaitingIn(w)' = WaitingIn(w)
    BY <2>1, <2>2 DEF WaitingIn
  <2>4. ReleaseInProcess(s) \/ UNCHANGED <<waiters, microtasks>>
    BY <1>3
    DEF SchedulerStep, Poll, PollTimeout, EnterGlobal, TrySlot, Reclaim,
        TakeLease, MissSlot, RetryRound, GiveUp, Release, CheckLease,
        LeaseReleased, Released, inProcess
  <2> QED
    BY <1>0, <1>1, <2>3, <2>4, ReleaseQueuedOnce
<1>4. ASSUME NEW s \in Schedulers, Expire(s) PROVE QueuedOnce'
  BY <1>1, <1>4 DEF Expire, inProcess, WaitingIn
<1>5. ASSUME NEW w \in Workers, RunMicrotask(w) PROVE QueuedOnce'
  <2> DEFINE h == Head(microtasks[w])
  <2>1. microtasks[w] # <<>> /\ microtasks' = [microtasks EXCEPT ![w] = Tail(@)]
    BY <1>5 DEF RunMicrotask
  <2>2. h \in WaitingIn(w)
    BY <1>0, <2>1, Admit
  <2>3. pc \in [Schedulers -> Locations] /\ h \in Schedulers /\ WorkerOf[h] = w
    BY <1>0, <2>2 DEF WaitingIn, ControlTypeOK
  <2> HIDE DEF h
  <2> SUFFICES ASSUME NEW v \in Workers
               PROVE  Holds(waiters[v], microtasks[v], WaitingIn(v))'
    BY DEF QueuedOnce, Holds, WaitingIn
  <2>4. CASE TakeInProcess(h) /\ UNCHANGED waiters
    <3>1. pc' = [pc EXCEPT ![h] = "admitted"]
      BY <2>4 DEF TakeInProcess
    <3>2. CASE v = w
      <4>1. WaitingIn(v)' = WaitingIn(v) \ {h}
        BY <2>3, <3>1, <3>2 DEF WaitingIn
      <4>2. Holds(waiters[v], Tail(microtasks[v]), WaitingIn(v) \ {h})
        BY <1>0, <2>1, <3>2, Admit DEF h
      <4>3. microtasks'[v] = Tail(microtasks[v])
        BY <1>0, <2>1, <3>2 DEF InProcessTypeOK
      <4> QED
        BY <2>4, <4>1, <4>2, <4>3 DEF Holds
    <3>3. CASE v # w
      <4>1. WaitingIn(v)' = WaitingIn(v)
        BY <2>3, <3>1, <3>3 DEF WaitingIn
      <4>2. microtasks'[v] = microtasks[v]
        BY <1>0, <2>1, <3>3 DEF InProcessTypeOK
      <4> QED
        BY <1>0, <2>4, <4>1, <4>2 DEF Holds
    <3> QED
      BY <3>2, <3>3
  <2>5. CASE /\ waiters' = [waiters EXCEPT ![w] = Append(@, h)]
             /\ UNCHANGED <<activeSlots, ownsInProcessSlot, pc>>
    <3>1. WaitingIn(v)' = WaitingIn(v)
      BY <2>5 DEF WaitingIn
    <3>2. CASE v = w
      <4>1. Holds(Append(waiters[v], h), Tail(microtasks[v]), WaitingIn(v))
        BY <1>0, <2>1, <3>2, Repark DEF h
      <4>2. /\ waiters'[v] = Append(waiters[v], h)
            /\ microtasks'[v] = Tail(microtasks[v])
        BY <1>0, <2>1, <2>5, <3>2 DEF InProcessTypeOK
      <4> QED
        BY <3>1, <4>1, <4>2 DEF Holds
    <3>3. CASE v # w
      <4>1. waiters'[v] = waiters[v] /\ microtasks'[v] = microtasks[v]
        BY <1>0, <2>1, <2>5, <3>3 DEF InProcessTypeOK
      <4> QED
        BY <1>0, <3>1, <4>1 DEF Holds
    <3> QED
      BY <3>2, <3>3
  <2> QED
    BY <1>5, <2>4, <2>5 DEF RunMicrotask, h
<1>6. ASSUME NEW w \in Workers, Crash(w) PROVE QueuedOnce'
  <2> SUFFICES ASSUME NEW v \in Workers
               PROVE  Holds(waiters[v], microtasks[v], WaitingIn(v))'
    BY DEF QueuedOnce, Holds, WaitingIn
  <2>1. CASE v = w
    <3>1. waiters'[v] = <<>> /\ microtasks'[v] = <<>>
      BY <1>0, <1>6, <2>1 DEF Crash, InProcessTypeOK
    <3>2. WaitingIn(v)' = {}
      BY <1>0, <1>6, <2>1 DEF Crash, WaitingIn
    <3>3. Range(<<>>) = {} /\ IsInjective(<<>>)
      BY DEF Range, IsInjective
    <3> QED
      BY <3>1, <3>2, <3>3 DEF Holds
  <2>2. CASE v # w
    <3>1. waiters'[v] = waiters[v] /\ microtasks'[v] = microtasks[v]
      BY <1>0, <1>6, <2>2 DEF Crash, InProcessTypeOK
    <3>2. WaitingIn(v)' = WaitingIn(v)
      BY <1>0, <1>6, <2>2 DEF Crash, WaitingIn
    <3> QED
      BY <1>0, <3>1, <3>2 DEF Holds
  <2> QED
    BY <2>1, <2>2
<1>7. CASE UNCHANGED vars
  BY <1>1, <1>7 DEF vars, inProcess, WaitingIn
<1> QED
  BY <1>2, <1>3, <1>4, <1>5, <1>6, <1>7, NextIsStep DEF Step

\* A blocked caller is in exactly one of the two queues, exactly once.
THEOREM QueuedOnceHolds == Spec => []QueuedOnce
<1>1. Init => QueuedOnce
  BY DEF Init, QueuedOnce, Range, IsInjective
<1>2. TypeOK /\ QueuedOnce /\ [Next]_vars => QueuedOnce'
  BY QueuedOnceStep
<1> QED
  BY <1>1, <1>2, TypeCorrect, PTL DEF Spec

----------------------------------------------------------------------------
(* What a scheduler keeps, by where its calls stand.                       *)

Busy == {"admitted", "scanning", "reclaiming", "held", "releasing", "unlinking"}

\* The strengthening of NothingKept: ownership is confined to the locations
\* that account for it, and a scheduler is dead with its worker only.
KeptInv ==
    \A s \in Schedulers :
        /\ s \in ownsInProcessSlot => pc[s] \in Busy
        /\ globalSlotPath[s] # 0 => pc[s] = "held"
        /\ releasingPath[s] # 0 => pc[s] \in {"releasing", "unlinking"}
        /\ pc[s] = "dead" <=> WorkerOf[s] \notin up

LEMMA WokenIsWaiting ==
    ASSUME TypeOK, QueuedOnce, NEW w \in Workers, RunMicrotask(w)
    PROVE  /\ Head(microtasks[w]) \in Schedulers
           /\ WorkerOf[Head(microtasks[w])] = w
           /\ pc[Head(microtasks[w])] = "waiting"
<1>1. /\ microtasks[w] \in Seq(Schedulers)
      /\ waiters[w] \in Seq(Schedulers)
      /\ microtasks[w] # <<>>
  BY DEF RunMicrotask, TypeOK, InProcessTypeOK
<1>2. Holds(waiters[w], microtasks[w], WaitingIn(w))
  BY QueuedOnceIsHolds
<1>3. Head(microtasks[w]) \in WaitingIn(w)
  BY <1>1, <1>2, Admit
<1> QED
  BY <1>3 DEF WaitingIn

\* releaseInProcess takes the flag away from its scheduler and nobody else.
LEMMA ReleaseOwnership ==
    ASSUME NEW s, ReleaseInProcess(s)
    PROVE  ownsInProcessSlot' = ownsInProcessSlot \ {s}
BY DEF ReleaseInProcess, inProcess

LEMMA KeptStep ==
    ASSUME TypeOK, QueuedOnce, KeptInv, [Next]_vars
    PROVE  KeptInv'
<1>0. /\ pc \in [Schedulers -> Locations]
      /\ globalSlotPath \in [Schedulers -> 0 .. MaxGlobal]
      /\ releasingPath \in [Schedulers -> 0 .. MaxGlobal]
  BY DEF TypeOK, ControlTypeOK, GlobalTypeOK
<1>1. ASSUME NEW s \in Schedulers, Acquire(s) PROVE KeptInv'
  BY <1>0, <1>1 DEF Acquire, KeptInv, TakeInProcess, inProcess, global, Busy
<1>2. ASSUME NEW s \in Schedulers, Poll(s) PROVE KeptInv'
  BY <1>0, <1>2 DEF Poll, KeptInv, TakeInProcess, global, Busy
<1>3. ASSUME NEW s \in Schedulers, PollTimeout(s) PROVE KeptInv'
  BY <1>0, <1>3 DEF PollTimeout, KeptInv, inProcess, Busy
<1>4. ASSUME NEW s \in Schedulers, EnterGlobal(s) PROVE KeptInv'
  BY <1>0, <1>4, ReleaseOwnership DEF EnterGlobal, KeptInv, inProcess, Busy
<1>5. ASSUME NEW s \in Schedulers, TrySlot(s) \/ Reclaim(s) PROVE KeptInv'
  BY <1>0, <1>5
  DEF TrySlot, Reclaim, TakeLease, MissSlot, KeptInv, inProcess, Busy
<1>6. ASSUME NEW s \in Schedulers, RetryRound(s) PROVE KeptInv'
  BY <1>0, <1>6 DEF RetryRound, KeptInv, inProcess, Busy
<1>7. ASSUME NEW s \in Schedulers, GiveUp(s) PROVE KeptInv'
  BY <1>0, <1>7, ReleaseOwnership DEF GiveUp, KeptInv, Busy
<1>8. ASSUME NEW s \in Schedulers, Release(s) PROVE KeptInv'
  BY <1>0, <1>8, ReleaseOwnership DEF Release, KeptInv, inProcess, Busy
<1>9. ASSUME NEW s \in Schedulers, CheckLease(s) \/ LeaseReleased(s)
      PROVE  KeptInv'
  BY <1>0, <1>9, ReleaseOwnership
  DEF CheckLease, LeaseReleased, Released, KeptInv, inProcess, Busy
<1>10. ASSUME NEW s \in Schedulers, Expire(s) PROVE KeptInv'
  BY <1>10 DEF Expire, KeptInv, inProcess, global
<1>11. ASSUME NEW w \in Workers, RunMicrotask(w) PROVE KeptInv'
  <2>1. /\ Head(microtasks[w]) \in Schedulers
        /\ pc[Head(microtasks[w])] = "waiting"
    BY <1>11, WokenIsWaiting
  <2> QED
    BY <1>0, <1>11, <2>1 DEF RunMicrotask, KeptInv, TakeInProcess, global, Busy
<1>12. ASSUME NEW w \in Workers, Crash(w) PROVE KeptInv'
  BY <1>0, <1>12 DEF Crash, KeptInv, Busy
<1>13. CASE UNCHANGED vars
  BY <1>13 DEF vars, KeptInv, inProcess, global
<1> QED
  BY <1>1, <1>2, <1>3, <1>4, <1>5, <1>6, <1>7, <1>8, <1>9, <1>10, <1>11,
     <1>12, <1>13, NextIsStep DEF Step, SchedulerStep

LEMMA KeptCorrect == Spec => []KeptInv
<1>1. Init => KeptInv
  BY WorkerAssumption DEF Init, KeptInv
<1>2. TypeOK /\ QueuedOnce /\ KeptInv /\ [Next]_vars => KeptInv'
  BY KeptStep
<1> QED
  BY <1>1, <1>2, TypeCorrect, QueuedOnceHolds, PTL DEF Spec

\* A scheduler whose acquire() failed or whose release() is over owns nothing.
THEOREM NothingKeptHolds == Spec => []NothingKept
<1>1. KeptInv => NothingKept
  BY DEF KeptInv, NothingKept, Busy
<1> QED
  BY <1>1, KeptCorrect, PTL

----------------------------------------------------------------------------
(* The counter and the wakeups.                                            *)

LEMMA HoldersFinite ==
    ASSUME TypeOK, NEW w \in Workers
    PROVE  IsFiniteSet(HoldersIn(w)) /\ Cardinality(HoldersIn(w)) \in Nat
<1>1. HoldersIn(w) \in SUBSET Schedulers
  BY DEF HoldersIn, TypeOK, InProcessTypeOK
<1> QED
  BY <1>1, FiniteAssumption, FS_Subset, FS_CardinalityType

\* Taking a slot raises the counter and the number of holders together.
LEMMA TakeAccounting ==
    ASSUME TypeOK, SlotAccounting, NEW s \in Schedulers, TakeInProcess(s),
           s \notin ownsInProcessSlot
    PROVE  SlotAccounting'
<1> SUFFICES ASSUME NEW w \in Workers
             PROVE  /\ activeSlots'[w] = Cardinality(HoldersIn(w)')
                    /\ activeSlots'[w] <= MaxPerWorker
  BY DEF SlotAccounting
<1>0. /\ activeSlots \in [Workers -> Nat]
      /\ activeSlots[w] = Cardinality(HoldersIn(w))
      /\ activeSlots[w] <= MaxPerWorker
  BY DEF SlotAccounting, TypeOK, InProcessTypeOK
<1>1. CASE w = WorkerOf[s]
  <2>1. HoldersIn(w)' = HoldersIn(w) \union {s} /\ s \notin HoldersIn(w)
    BY <1>1 DEF TakeInProcess, HoldersIn
  <2>2. Cardinality(HoldersIn(w) \union {s}) = Cardinality(HoldersIn(w)) + 1
    BY <2>1, HoldersFinite, FS_AddElement
  <2>3. activeSlots'[w] = activeSlots[w] + 1 /\ activeSlots[w] < MaxPerWorker
    BY <1>0, <1>1 DEF TakeInProcess, HasRoom
  <2>4. activeSlots[w] + 1 <= MaxPerWorker
    BY <1>0, <2>3, LimitAssumption
  <2> QED
    BY <1>0, <2>1, <2>2, <2>3, <2>4
<1>2. CASE w # WorkerOf[s]
  <2>1. HoldersIn(w)' = HoldersIn(w)
    BY <1>2 DEF TakeInProcess, HoldersIn
  <2>2. activeSlots'[w] = activeSlots[w]
    BY <1>0, <1>2 DEF TakeInProcess
  <2> QED
    BY <1>0, <2>1, <2>2
<1> QED
  BY <1>1, <1>2

\* Giving one back lowers both; the guard against a negative counter is idle.
LEMMA ReleaseAccounting ==
    ASSUME TypeOK, SlotAccounting, NEW s \in Schedulers, ReleaseInProcess(s)
    PROVE  SlotAccounting'
<1> SUFFICES ASSUME NEW w \in Workers
             PROVE  /\ activeSlots'[w] = Cardinality(HoldersIn(w)')
                    /\ activeSlots'[w] <= MaxPerWorker
  BY DEF SlotAccounting
<1>0. /\ activeSlots \in [Workers -> Nat]
      /\ activeSlots[w] = Cardinality(HoldersIn(w))
      /\ activeSlots[w] <= MaxPerWorker
      /\ MaxPerWorker \in Nat
  BY LimitAssumption DEF SlotAccounting, TypeOK, InProcessTypeOK
<1>1. CASE s \in ownsInProcessSlot /\ w = WorkerOf[s]
  <2>1. HoldersIn(w)' = HoldersIn(w) \ {s} /\ s \in HoldersIn(w)
    BY <1>1, ReleaseOwnership DEF HoldersIn
  <2>2. Cardinality(HoldersIn(w) \ {s}) = Cardinality(HoldersIn(w)) - 1
    BY <2>1, HoldersFinite, FS_RemoveElement
  <2>3. Cardinality(HoldersIn(w)) # 0
    BY <2>1, HoldersFinite, FS_EmptySet
  <2>4. activeSlots[w] > 0
    BY <1>0, <2>3
  <2>5. activeSlots'[w] = activeSlots[w] - 1
    BY <1>0, <1>1, <2>4 DEF ReleaseInProcess
  <2> QED
    BY <1>0, <2>1, <2>2, <2>5
<1>2. CASE s \notin ownsInProcessSlot \/ w # WorkerOf[s]
  <2>1. HoldersIn(w)' = HoldersIn(w)
    BY <1>2, ReleaseOwnership DEF HoldersIn
  <2>2. activeSlots'[w] = activeSlots[w]
    BY <1>0, <1>2 DEF ReleaseInProcess, inProcess
  <2> QED
    BY <1>0, <2>1, <2>2
<1> QED
  BY <1>1, <1>2

LEMMA AccountingStep ==
    ASSUME TypeOK, QueuedOnce, KeptInv, SlotAccounting, [Next]_vars
    PROVE  SlotAccounting'
<1>1. ASSUME UNCHANGED <<activeSlots, ownsInProcessSlot>> PROVE SlotAccounting'
  BY <1>1 DEF SlotAccounting, HoldersIn
<1>2. ASSUME NEW s \in Schedulers, Acquire(s) PROVE SlotAccounting'
  <2>1. s \notin ownsInProcessSlot
    BY <1>2 DEF Acquire, KeptInv, Busy
  <2> QED
    BY <1>1, <1>2, <2>1, TakeAccounting DEF Acquire, inProcess
<1>3. ASSUME NEW s \in Schedulers, SchedulerStep(s) PROVE SlotAccounting'
  <2>1. CASE Poll(s)
    <3>1. s \notin ownsInProcessSlot
      BY <2>1 DEF Poll, KeptInv, Busy
    <3> QED
      BY <2>1, <3>1, TakeAccounting DEF Poll
  <2>2. CASE ReleaseInProcess(s) \/ UNCHANGED inProcess
    BY <1>1, <2>2, ReleaseAccounting DEF inProcess
  <2> QED
    BY <1>3, <2>1, <2>2
    DEF SchedulerStep, PollTimeout, EnterGlobal, TrySlot, Reclaim, RetryRound,
        GiveUp, Release, CheckLease, LeaseReleased, Released
<1>4. ASSUME NEW s \in Schedulers, Expire(s) PROVE SlotAccounting'
  BY <1>1, <1>4 DEF Expire, inProcess
<1>5. ASSUME NEW w \in Workers, RunMicrotask(w) PROVE SlotAccounting'
  <2>1. /\ Head(microtasks[w]) \in Schedulers
        /\ Head(microtasks[w]) \notin ownsInProcessSlot
    BY <1>5, WokenIsWaiting DEF KeptInv, Busy
  <2> QED
    BY <1>1, <1>5, <2>1, TakeAccounting DEF RunMicrotask
<1>6. ASSUME NEW w \in Workers, Crash(w) PROVE SlotAccounting'
  <2> SUFFICES ASSUME NEW v \in Workers
               PROVE  /\ activeSlots'[v] = Cardinality(HoldersIn(v)')
                      /\ activeSlots'[v] <= MaxPerWorker
    BY DEF SlotAccounting
  <2>0. /\ activeSlots \in [Workers -> Nat]
        /\ activeSlots[v] = Cardinality(HoldersIn(v))
        /\ activeSlots[v] <= MaxPerWorker
        /\ MaxPerWorker \in Nat
        /\ ownsInProcessSlot \subseteq Schedulers
    BY LimitAssumption DEF SlotAccounting, TypeOK, InProcessTypeOK
  <2>1. CASE v = w
    <3>1. HoldersIn(v)' = {} /\ activeSlots'[v] = 0
      BY <1>6, <2>0, <2>1 DEF Crash, HoldersIn
    <3> QED
      BY <2>0, <3>1, FS_EmptySet
  <2>2. CASE v # w
    <3>1. HoldersIn(v)' = HoldersIn(v) /\ activeSlots'[v] = activeSlots[v]
      BY <1>6, <2>0, <2>2 DEF Crash, HoldersIn
    <3> QED
      BY <2>0, <3>1
  <2> QED
    BY <2>1, <2>2
<1>7. CASE UNCHANGED vars
  BY <1>1, <1>7 DEF vars, inProcess
<1> QED
  BY <1>2, <1>3, <1>4, <1>5, <1>6, <1>7, NextIsStep DEF Step

\* The counter is the number of owners and never exceeds the limit.
THEOREM SlotAccountingHolds == Spec => []SlotAccounting
<1>1. Init => SlotAccounting
  BY FS_EmptySet, LimitAssumption DEF Init, SlotAccounting, HoldersIn
<1>2. TypeOK /\ QueuedOnce /\ KeptInv /\ SlotAccounting /\ [Next]_vars
      => SlotAccounting'
  BY AccountingStep
<1> QED
  BY <1>1, <1>2, TypeCorrect, QueuedOnceHolds, KeptCorrect, PTL DEF Spec

LEMMA WakeupStep ==
    ASSUME TypeOK, QueuedOnce, SlotAccounting, NoLostWakeup, [Next]_vars
    PROVE  NoLostWakeup'
<1> DEFINE Covered(w) ==
       waiters[w] # <<>> => MaxPerWorker - activeSlots[w] <= Len(microtasks[w])
<1>0. /\ activeSlots \in [Workers -> Nat]
      /\ waiters \in [Workers -> Seq(Schedulers)]
      /\ microtasks \in [Workers -> Seq(Schedulers)]
      /\ MaxPerWorker \in Nat
      /\ WorkerOf \in [Schedulers -> Workers]
      /\ \A w \in Workers : Covered(w) /\ activeSlots[w] <= MaxPerWorker
  BY LimitAssumption, WorkerAssumption
  DEF TypeOK, InProcessTypeOK, NoLostWakeup, SlotAccounting
<1>1. ASSUME UNCHANGED <<activeSlots, waiters, microtasks>> PROVE NoLostWakeup'
  BY <1>1 DEF NoLostWakeup
<1>2. ASSUME NEW s \in Schedulers, ReleaseInProcess(s) PROVE NoLostWakeup'
  <2> SUFFICES ASSUME NEW w \in Workers, waiters'[w] # <<>>
               PROVE  MaxPerWorker - activeSlots'[w] <= Len(microtasks'[w])
    BY DEF NoLostWakeup
  <2>1. CASE /\ s \in ownsInProcessSlot
             /\ w = WorkerOf[s]
             /\ waiters[w] # <<>>
    <3>1. microtasks'[w] = Append(microtasks[w], Head(waiters[w]))
      BY <1>0, <1>2, <2>1 DEF ReleaseInProcess
    <3>2. Len(microtasks'[w]) = Len(microtasks[w]) + 1
      BY <1>0, <2>1, <3>1
    <3>3. activeSlots'[w] >= activeSlots[w] - 1 /\ activeSlots'[w] \in Nat
      BY <1>0, <1>2, <2>1 DEF ReleaseInProcess
    <3>4. MaxPerWorker - activeSlots[w] <= Len(microtasks[w])
      BY <1>0, <2>1
    <3>5. Len(microtasks[w]) \in Nat /\ activeSlots[w] \in Nat
      BY <1>0
    <3> QED
      BY <1>0, <3>2, <3>3, <3>4, <3>5
  <2>2. CASE s \notin ownsInProcessSlot \/ w # WorkerOf[s]
    BY <1>0, <1>2, <2>2 DEF ReleaseInProcess, inProcess
  <2>3. CASE s \in ownsInProcessSlot /\ w = WorkerOf[s] /\ waiters[w] = <<>>
    BY <1>0, <1>2, <2>3 DEF ReleaseInProcess
  <2> QED
    BY <2>1, <2>2, <2>3
<1>3. ASSUME NEW s \in Schedulers, TakeInProcess(s),
             UNCHANGED <<waiters, microtasks>>
      PROVE  NoLostWakeup'
  <2> SUFFICES ASSUME NEW w \in Workers, waiters[w] # <<>>
               PROVE  MaxPerWorker - activeSlots'[w] <= Len(microtasks[w])
    BY <1>3 DEF NoLostWakeup
  <2>1. activeSlots'[w] >= activeSlots[w] /\ activeSlots'[w] \in Nat
    BY <1>0, <1>3 DEF TakeInProcess
  <2>2. /\ MaxPerWorker - activeSlots[w] <= Len(microtasks[w])
        /\ Len(microtasks[w]) \in Nat
        /\ activeSlots[w] \in Nat
    BY <1>0
  <2> QED
    BY <1>0, <2>1, <2>2
<1>4. ASSUME NEW s \in Schedulers, Acquire(s) PROVE NoLostWakeup'
  <2>1. CASE /\ ~HasRoom(WorkerOf[s])
             /\ waiters' = [waiters EXCEPT ![WorkerOf[s]] = Append(@, s)]
             /\ UNCHANGED <<activeSlots, microtasks>>
    <3> SUFFICES ASSUME NEW w \in Workers, waiters'[w] # <<>>
                 PROVE  MaxPerWorker - activeSlots[w] <= Len(microtasks[w])
      BY <2>1 DEF NoLostWakeup
    <3>1. CASE w = WorkerOf[s]
      BY <1>0, <2>1, <3>1 DEF HasRoom
    <3>2. CASE w # WorkerOf[s]
      BY <1>0, <2>1, <3>2
    <3> QED
      BY <3>1, <3>2
  <2> QED
    BY <1>1, <1>3, <1>4, <2>1 DEF Acquire, inProcess
<1>5. ASSUME NEW s \in Schedulers, SchedulerStep(s) PROVE NoLostWakeup'
  BY <1>1, <1>2, <1>3, <1>5
  DEF SchedulerStep, Poll, PollTimeout, EnterGlobal, TrySlot, Reclaim,
      RetryRound, GiveUp, Release, CheckLease, LeaseReleased, Released, inProcess
<1>6. ASSUME NEW s \in Schedulers, Expire(s) PROVE NoLostWakeup'
  BY <1>1, <1>6 DEF Expire, inProcess
<1>7. ASSUME NEW w \in Workers, RunMicrotask(w) PROVE NoLostWakeup'
  <2>0. /\ Head(microtasks[w]) \in Schedulers
        /\ WorkerOf[Head(microtasks[w])] = w
    BY <1>7, WokenIsWaiting
  <2>1. /\ microtasks[w] # <<>>
        /\ microtasks' = [microtasks EXCEPT ![w] = Tail(@)]
    BY <1>7 DEF RunMicrotask
  <2>2. Len(Tail(microtasks[w])) = Len(microtasks[w]) - 1
    BY <1>0, <2>1
  <2> SUFFICES ASSUME NEW v \in Workers, waiters'[v] # <<>>
               PROVE  MaxPerWorker - activeSlots'[v] <= Len(microtasks'[v])
    BY DEF NoLostWakeup
  <2>3. CASE TakeInProcess(Head(microtasks[w])) /\ UNCHANGED waiters
    <3>1. activeSlots' = [activeSlots EXCEPT ![w] = @ + 1]
      BY <2>0, <2>3 DEF TakeInProcess
    <3>2. CASE v = w
      <4>1. activeSlots'[v] = activeSlots[v] + 1 /\ activeSlots[v] \in Nat
        BY <1>0, <3>1, <3>2
      <4>2. Len(microtasks'[v]) = Len(microtasks[v]) - 1
        BY <1>0, <2>1, <2>2, <3>2
      <4>3. MaxPerWorker - activeSlots[v] <= Len(microtasks[v])
        BY <1>0, <2>3
      <4>4. Len(microtasks[v]) \in Nat
        BY <1>0
      <4> QED
        BY <1>0, <4>1, <4>2, <4>3, <4>4
    <3>3. CASE v # w
      BY <1>0, <2>1, <2>3, <3>1, <3>3
    <3> QED
      BY <3>2, <3>3
  <2>4. CASE /\ ~HasRoom(w)
             /\ waiters' =
                   [waiters EXCEPT ![w] = Append(@, Head(microtasks[w]))]
             /\ UNCHANGED activeSlots
    <3>1. CASE v = w
      <4>1. activeSlots[v] = MaxPerWorker
        BY <1>0, <2>4, <3>1 DEF HasRoom
      <4>2. Len(microtasks'[v]) \in Nat
        BY <1>0, <2>1, <2>2, <3>1
      <4> QED
        BY <1>0, <2>4, <4>1, <4>2
    <3>2. CASE v # w
      BY <1>0, <2>1, <2>4, <3>2
    <3> QED
      BY <3>1, <3>2
  <2> QED
    BY <1>7, <2>3, <2>4 DEF RunMicrotask
<1>8. ASSUME NEW w \in Workers, Crash(w) PROVE NoLostWakeup'
  BY <1>0, <1>8 DEF Crash, NoLostWakeup
<1>9. CASE UNCHANGED vars
  BY <1>1, <1>9 DEF vars, inProcess
<1> QED
  BY <1>4, <1>5, <1>6, <1>7, <1>8, <1>9, NextIsStep DEF Step

\* Every free slot somebody is parked for has a wakeup on its way.
THEOREM NoLostWakeupHolds == Spec => []NoLostWakeup
<1>1. Init => NoLostWakeup
  BY DEF Init, NoLostWakeup
<1>2. TypeOK /\ QueuedOnce /\ SlotAccounting /\ NoLostWakeup /\ [Next]_vars
      => NoLostWakeup'
  BY WakeupStep
<1> QED
  BY <1>1, <1>2, TypeCorrect, QueuedOnceHolds, SlotAccountingHolds, PTL DEF Spec

----------------------------------------------------------------------------
(* The global slots.                                                       *)

LEMMA StrandedStep ==
    ASSUME TypeOK, KeptInv, NoStrandedSlot, [Next]_vars
    PROVE  NoStrandedSlot'
<1> DEFINE Paths(s) == {globalSlotPath[s], releasingPath[s]}
<1> SUFFICES ASSUME ~StorageFaults, NEW k \in Slots, OwnedByLiveWorker(k)'
             PROVE  k \in Paths(slotFile[k])'
  BY DEF NoStrandedSlot
<1>0. /\ globalSlotPath \in [Schedulers -> 0 .. MaxGlobal]
      /\ releasingPath \in [Schedulers -> 0 .. MaxGlobal]
      /\ slotFile \in [Slots -> Schedulers \union {NoOwner}]
      /\ 0 \notin Slots
      /\ OwnedByLiveWorker(k) => k \in Paths(slotFile[k])
      /\ slotFile'[k] # NoOwner /\ WorkerOf[slotFile'[k]] \in up'
  BY DEF TypeOK, GlobalTypeOK, Slots, NoStrandedSlot, OwnedByLiveWorker
<1>1. ASSUME UNCHANGED <<up, globalSlotPath, releasingPath, slotFile>>
      PROVE  k \in Paths(slotFile[k])'
  BY <1>0, <1>1 DEF OwnedByLiveWorker
<1>2. ASSUME NEW s \in Schedulers, TrySlot(s) \/ Reclaim(s)
      PROVE  k \in Paths(slotFile[k])'
  <2> DEFINE j == attempt[s].slot
  <2>0. /\ j \in Slots /\ globalSlotPath[s] = 0 /\ releasingPath[s] = 0
        /\ UNCHANGED <<up, releasingPath>>
    BY <1>2 DEF TrySlot, Reclaim, KeptInv
  <2> HIDE DEF j
  <2>1. CASE TakeLease(s, j)
    <3>1. /\ slotFile' = [slotFile EXCEPT ![j] = s]
          /\ globalSlotPath' = [globalSlotPath EXCEPT ![s] = j]
      BY <2>1 DEF TakeLease
    <3>2. CASE k = j
      BY <1>0, <2>0, <3>1, <3>2
    <3>3. CASE k # j
      <4>1. slotFile'[k] = slotFile[k] /\ k \in Paths(slotFile[k])
        BY <1>0, <2>0, <3>1, <3>3 DEF OwnedByLiveWorker
      <4>2. slotFile[k] # s
        BY <1>0, <2>0, <4>1
      <4> QED
        BY <1>0, <2>0, <3>1, <4>1, <4>2
    <3> QED
      BY <3>2, <3>3
  <2>2. CASE ~TakeLease(s, j)
    <3>1. globalSlotPath' = globalSlotPath
      BY <1>2, <2>2 DEF TrySlot, Reclaim, MissSlot, j
    <3>2. slotFile' = slotFile \/ slotFile' = [slotFile EXCEPT ![j] = NoOwner]
      BY <1>2, <2>2 DEF TrySlot, Reclaim, j
    <3>3. slotFile'[k] = slotFile[k]
      BY <1>0, <2>0, <3>2
    <3> QED
      BY <1>0, <2>0, <3>1, <3>3 DEF OwnedByLiveWorker
  <2> QED
    BY <2>1, <2>2
<1>3. ASSUME NEW s \in Schedulers, Release(s) PROVE k \in Paths(slotFile[k])'
  <2>1. /\ slotFile' = slotFile /\ up' = up
        /\ releasingPath[s] = 0
    BY <1>3 DEF Release, KeptInv
  <2>2. k \in Paths(slotFile[k])
    BY <1>0, <2>1 DEF OwnedByLiveWorker
  <2>3. slotFile[k] \in Schedulers
    BY <1>0, <2>1
  <2> QED
    BY <1>0, <1>3, <2>1, <2>2, <2>3 DEF Release
<1>4. ASSUME NEW s \in Schedulers, CheckLease(s) \/ LeaseReleased(s)
      PROVE  k \in Paths(slotFile[k])'
  <2> DEFINE j == releasingPath[s]
  <2>0. /\ UNCHANGED <<up, globalSlotPath>>
        /\ globalSlotPath[s] = 0
        /\ \/ releasingPath' = releasingPath
           \/ releasingPath' = [releasingPath EXCEPT ![s] = 0]
    BY <1>4 DEF CheckLease, LeaseReleased, Released, KeptInv
  <2> SUFFICES ASSUME releasingPath' = [releasingPath EXCEPT ![s] = 0]
               PROVE  k \in Paths(slotFile[k])'
    <3>1. CASE releasingPath' = releasingPath /\ slotFile' = slotFile
      BY <1>1, <2>0, <3>1
    <3>2. CASE releasingPath' = releasingPath /\ slotFile' # slotFile
      BY <1>0, <1>4, <2>0, <3>2 DEF CheckLease, LeaseReleased, Released
    <3> QED
      BY <2>0, <3>1, <3>2
  <2>1. slotFile'[k] = slotFile[k]
    BY <1>0, <1>4 DEF CheckLease, LeaseReleased
  <2>2. k \in Paths(slotFile[k]) /\ slotFile[k] \in Schedulers
    BY <1>0, <2>0, <2>1 DEF OwnedByLiveWorker
  <2>3. k # j \/ slotFile[k] # s
    <3>1. CASE CheckLease(s) /\ slotFile[k] = s
      BY <1>0, <2>0, <3>1 DEF CheckLease, Released
    <3>2. CASE LeaseReleased(s)
      BY <1>0, <2>0, <3>2 DEF LeaseReleased
    <3> QED
      BY <1>4, <3>1, <3>2
  <2> QED
    BY <1>0, <2>0, <2>1, <2>2, <2>3
<1>5. ASSUME NEW w \in Workers, Crash(w) PROVE k \in Paths(slotFile[k])'
  <2>1. slotFile' = slotFile /\ up' = up \ {w}
    BY <1>5 DEF Crash
  <2>2. WorkerOf[slotFile[k]] \in up /\ WorkerOf[slotFile[k]] # w
    BY <1>0, <2>1
  <2>3. k \in Paths(slotFile[k]) /\ slotFile[k] \in Schedulers
    BY <1>0, <2>1, <2>2 DEF OwnedByLiveWorker
  <2> QED
    BY <1>0, <1>5, <2>1, <2>2, <2>3 DEF Crash
<1> QED
  BY <1>1, <1>2, <1>3, <1>4, <1>5, NextIsStep
  DEF Step, SchedulerStep, Acquire, Poll, PollTimeout, EnterGlobal, RetryRound,
      GiveUp, Expire, RunMicrotask, vars, global

\* Without storage faults every lease file of a live worker is one that a
\* scheduler of it uses or gives back: global slots are lost to the dead only.
THEOREM NoStrandedSlotHolds == Spec => []NoStrandedSlot
<1>1. Init => NoStrandedSlot
  BY DEF Init, NoStrandedSlot, OwnedByLiveWorker
<1>2. TypeOK /\ KeptInv /\ NoStrandedSlot /\ [Next]_vars => NoStrandedSlot'
  BY StrandedStep
<1> QED
  BY <1>1, <1>2, TypeCorrect, KeptCorrect, PTL DEF Spec

----------------------------------------------------------------------------
(* The in-process half implements SlotPool.                                *)

\* An instance brings its own copy of Cardinality; it is the same function.
LEMMA PoolCardinality ==
    ASSUME NEW w, NEW S
    PROVE  Pool(w)!Cardinality(S) = Cardinality(S)
BY DEF Pool!Cardinality, Cardinality

\* What a step may do to the pool of worker w, read off its two sets.
LEMMA PoolStep ==
    ASSUME NEW w \in Workers,
           TypeOK, QueuedOnce, KeptInv, SlotAccounting, [Next]_vars
    PROVE  [Pool(w)!Next]_<<Parked(w), HoldersIn(w)>>
<1> DEFINE Mine == {s \in Schedulers : WorkerOf[s] = w}
<1>0. /\ pc \in [Schedulers -> Locations]
      /\ activeSlots[w] = Cardinality(HoldersIn(w))
      /\ ownsInProcessSlot \subseteq Schedulers
  BY DEF TypeOK, ControlTypeOK, InProcessTypeOK, SlotAccounting
<1>1. ASSUME UNCHANGED <<pc, ownsInProcessSlot>>
      PROVE  UNCHANGED <<Parked(w), HoldersIn(w)>>
  BY <1>1 DEF Parked, HoldersIn
<1>2. ASSUME NEW s \in Schedulers, Acquire(s)
      PROVE  [Pool(w)!Next]_<<Parked(w), HoldersIn(w)>>
  <2>1. pc[s] = "idle" /\ s \notin ownsInProcessSlot
    BY <1>2 DEF Acquire, KeptInv, Busy
  <2>2. CASE WorkerOf[s] # w
    <3>1. UNCHANGED <<Parked(w), HoldersIn(w)>>
      BY <1>0, <1>2, <2>1, <2>2
      DEF Acquire, TakeInProcess, inProcess, Parked, HoldersIn
    <3> QED
      BY <3>1
  <2>3. CASE WorkerOf[s] = w /\ pc'[s] = "admitted" /\ ~TakeInProcess(s)
    <3>1. UNCHANGED <<Parked(w), HoldersIn(w)>>
      BY <1>0, <1>2, <2>1, <2>3
      DEF Acquire, inProcess, Parked, HoldersIn
    <3> QED
      BY <3>1
  <2>4. CASE WorkerOf[s] = w /\ TakeInProcess(s)
    <3>1. /\ Parked(w)' = Parked(w)
          /\ HoldersIn(w)' = HoldersIn(w) \union {s}
          /\ s \in Mine \ (Parked(w) \union HoldersIn(w))
      BY <1>0, <2>1, <2>4 DEF TakeInProcess, Parked, HoldersIn
    <3>2. Cardinality(HoldersIn(w)) < MaxPerWorker
      BY <1>0, <2>4 DEF TakeInProcess, HasRoom
    <3>3. Pool(w)!Enter(s)
      BY <3>1, <3>2, PoolCardinality DEF Pool!Enter, Pool!Outside, Pool!Free
    <3> QED
      BY <3>1, <3>3 DEF Pool!Next
  <2>5. CASE WorkerOf[s] = w /\ pc'[s] \in {"polling", "waiting"}
    <3>1. /\ Parked(w)' = Parked(w) \union {s}
          /\ HoldersIn(w)' = HoldersIn(w)
          /\ s \in Mine \ (Parked(w) \union HoldersIn(w))
      BY <1>0, <1>2, <2>1, <2>5
      DEF Acquire, TakeInProcess, inProcess, Parked, HoldersIn
    <3>2. Pool(w)!Join(s)
      BY <3>1 DEF Pool!Join, Pool!Outside
    <3> QED
      BY <3>1, <3>2 DEF Pool!Next
  <2> QED
    BY <1>0, <1>2, <2>1, <2>2, <2>3, <2>4, <2>5 DEF Acquire
\* A caller of w that was parked takes a slot.
<1>3. ASSUME NEW s \in Schedulers, TakeInProcess(s),
             pc[s] \in {"polling", "waiting"}, s \notin ownsInProcessSlot
      PROVE  [Pool(w)!Next]_<<Parked(w), HoldersIn(w)>>
  <2>1. CASE WorkerOf[s] = w
    <3>1. /\ Parked(w)' = Parked(w) \ {s}
          /\ HoldersIn(w)' = HoldersIn(w) \union {s}
          /\ s \in Mine /\ s \in Parked(w)
      BY <1>0, <1>3, <2>1 DEF TakeInProcess, Parked, HoldersIn
    <3>2. Cardinality(HoldersIn(w)) < MaxPerWorker
      BY <1>0, <1>3, <2>1 DEF TakeInProcess, HasRoom
    <3>3. Pool(w)!Grant(s)
      BY <3>1, <3>2, PoolCardinality DEF Pool!Grant, Pool!Free
    <3> QED
      BY <3>1, <3>3 DEF Pool!Next
  <2>2. CASE WorkerOf[s] # w
    <3>1. UNCHANGED <<Parked(w), HoldersIn(w)>>
      BY <1>0, <1>3, <2>2 DEF TakeInProcess, Parked, HoldersIn
    <3> QED
      BY <3>1
  <2> QED
    BY <2>1, <2>2
\* A busy scheduler gives its slot back, or moves on with it.
<1>4. ASSUME NEW s \in Schedulers, pc[s] \in Busy,
             pc' = pc \/ \E l \in Busy \union {"idle"} : pc' = [pc EXCEPT ![s] = l],
             ReleaseInProcess(s) \/ UNCHANGED inProcess
      PROVE  [Pool(w)!Next]_<<Parked(w), HoldersIn(w)>>
  <2>1. Parked(w)' = Parked(w)
    BY <1>0, <1>4 DEF Parked, Busy
  <2>2. CASE s \in HoldersIn(w) /\ ReleaseInProcess(s)
    <3>1. HoldersIn(w)' = HoldersIn(w) \ {s} /\ s \in Mine
      BY <2>2, ReleaseOwnership DEF HoldersIn
    <3>2. Pool(w)!Leave(s)
      BY <2>1, <2>2, <3>1 DEF Pool!Leave
    <3> QED
      BY <3>1, <3>2 DEF Pool!Next
  <2>3. CASE s \notin HoldersIn(w) \/ UNCHANGED inProcess
    <3>1. HoldersIn(w)' = HoldersIn(w)
      BY <1>4, <2>3, ReleaseOwnership DEF HoldersIn, inProcess
    <3> QED
      BY <2>1, <3>1
  <2> QED
    BY <1>4, <2>2, <2>3
<1>5. ASSUME NEW s \in Schedulers, SchedulerStep(s)
      PROVE  [Pool(w)!Next]_<<Parked(w), HoldersIn(w)>>
  <2>1. CASE Poll(s)
    <3>1. s \notin ownsInProcessSlot
      BY <2>1 DEF Poll, KeptInv, Busy
    <3> QED
      BY <1>3, <2>1, <3>1 DEF Poll
  <2>2. CASE PollTimeout(s)
    <3>1. CASE WorkerOf[s] = w
      <4>1. /\ Parked(w)' = Parked(w) \ {s}
            /\ HoldersIn(w)' = HoldersIn(w)
            /\ s \in Mine /\ s \in Parked(w)
        BY <1>0, <2>2, <3>1 DEF PollTimeout, inProcess, Parked, HoldersIn
      <4>2. Pool(w)!Withdraw(s)
        BY <4>1 DEF Pool!Withdraw
      <4> QED
        BY <4>1, <4>2 DEF Pool!Next
    <3>2. CASE WorkerOf[s] # w
      <4>1. UNCHANGED <<Parked(w), HoldersIn(w)>>
        BY <1>0, <2>2, <3>2 DEF PollTimeout, inProcess, Parked, HoldersIn
      <4> QED
        BY <4>1
    <3> QED
      BY <3>1, <3>2
  <2>3. CASE EnterGlobal(s) \/ TrySlot(s) \/ Reclaim(s) \/ RetryRound(s)
    BY <1>4, <2>3
    DEF EnterGlobal, TrySlot, Reclaim, TakeLease, MissSlot, RetryRound, Busy
  <2>4. CASE GiveUp(s) \/ Release(s) \/ CheckLease(s) \/ LeaseReleased(s)
    BY <1>4, <2>4
    DEF GiveUp, Release, CheckLease, LeaseReleased, Released, Busy
  <2> QED
    BY <1>5, <2>1, <2>2, <2>3, <2>4 DEF SchedulerStep
<1>6. ASSUME NEW s \in Schedulers, Expire(s)
      PROVE  [Pool(w)!Next]_<<Parked(w), HoldersIn(w)>>
  BY <1>1, <1>6 DEF Expire, inProcess
<1>7. ASSUME NEW v \in Workers, RunMicrotask(v)
      PROVE  [Pool(w)!Next]_<<Parked(w), HoldersIn(w)>>
  <2>1. /\ Head(microtasks[v]) \in Schedulers
        /\ pc[Head(microtasks[v])] = "waiting"
        /\ Head(microtasks[v]) \notin ownsInProcessSlot
    BY <1>7, WokenIsWaiting DEF KeptInv, Busy
  <2>2. CASE TakeInProcess(Head(microtasks[v]))
    BY <1>3, <2>1, <2>2
  <2>3. CASE UNCHANGED <<activeSlots, ownsInProcessSlot, pc>>
    BY <1>1, <2>3
  <2> QED
    BY <1>7, <2>2, <2>3 DEF RunMicrotask
<1>8. ASSUME NEW v \in Workers, Crash(v)
      PROVE  [Pool(w)!Next]_<<Parked(w), HoldersIn(w)>>
  <2>1. CASE v = w
    <3>1. Parked(w)' = {} /\ HoldersIn(w)' = {}
      BY <1>0, <1>8, <2>1 DEF Crash, Parked, HoldersIn
    <3> QED
      BY <3>1 DEF Pool!Next, Pool!Shutdown
  <2>2. CASE v # w
    <3>1. UNCHANGED <<Parked(w), HoldersIn(w)>>
      BY <1>0, <1>8, <2>2 DEF Crash, Parked, HoldersIn
    <3> QED
      BY <3>1
  <2> QED
    BY <2>1, <2>2
<1>9. CASE UNCHANGED vars
  BY <1>1, <1>9 DEF vars, inProcess
<1> QED
  BY <1>2, <1>5, <1>6, <1>7, <1>8, <1>9, NextIsStep DEF Step

\* In every worker, whatever the limit, mode and number of schedulers, the
\* in-process half behaves as a SlotPool (its safety part).
THEOREM ImplementsSlotPool ==
    ASSUME NEW w \in Workers
    PROVE  Spec => Pool(w)!Spec
<1>1. Init => Pool(w)!Init
  BY DEF Init, Pool!Init, Parked, HoldersIn
<1>2. TypeOK /\ QueuedOnce /\ KeptInv /\ SlotAccounting /\ [Next]_vars
      => [Pool(w)!Next]_(Pool(w)!vars)
  BY PoolStep DEF Pool!vars
<1> QED
  BY <1>1, <1>2, TypeCorrect, QueuedOnceHolds, KeptCorrect,
     SlotAccountingHolds, PTL DEF Spec, Pool!Spec
=============================================================================
