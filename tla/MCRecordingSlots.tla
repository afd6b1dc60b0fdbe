-------------------------- MODULE MCRecordingSlots --------------------------
(***************************************************************************)
(* Instances of RecordingSlots: a worker whose schedulers compete for its   *)
(* own slots, and two workers that also compete for global ones.            *)
(***************************************************************************)
EXTENDS RecordingSlots, TLC

CONSTANTS s1, s2, s3, s4, w1, w2

\* s3 and s4 live in the second worker.
TwoWorkers == [s \in Schedulers |-> IF s \in {s3, s4} THEN w2 ELSE w1]

\* Three schedulers queue in the first worker; s4 competes from the second.
ThreeAndOne == [s \in Schedulers |-> IF s = s4 THEN w2 ELSE w1]

\* The schedulers of one worker are alike.
Sym == Permutations({s1, s2}) \union Permutations({s3, s4})

PoolOfW1 == INSTANCE SlotPool WITH
    Clients <- {s \in Schedulers : WorkerOf[s] = w1},
    Capacity <- MaxPerWorker,
    waiting <- Parked(w1),
    holders <- HoldersIn(w1)

\* The in-process half of worker w1 implements SlotPool, its fairness included:
\* a slot given back while somebody waits is handed on, whatever the order of
\* releases, microtasks and new callers.
ImplementsPool == PoolOfW1!FairSpec
=============================================================================
