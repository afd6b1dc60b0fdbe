------------------------------ MODULE SlotPool ------------------------------
(***************************************************************************)
(* What a limited pool of recording or post-processing slots promises its  *)
(* clients: never more holders than the capacity, and a free slot is not   *)
(* left unused while somebody waits for one.  It says nothing about the    *)
(* order in which waiting clients are served.  RecordingSlots implements   *)
(* one such pool in every worker process.                                  *)
(***************************************************************************)
EXTENDS Naturals, FiniteSets

CONSTANTS
    Clients,    \* those that may ask for a slot
    Capacity    \* how many may hold one at a time

VARIABLES
    waiting,    \* clients that asked and were not served yet
    holders     \* clients that hold a slot

vars == <<waiting, holders>>

Free == Cardinality(holders) < Capacity
Outside == Clients \ (waiting \union holders)

Init == waiting = {} /\ holders = {}

Join(c) ==
    /\ c \in Outside
    /\ waiting' = waiting \union {c}
    /\ UNCHANGED holders

\* A client that finds a free slot takes it at once, ahead of those waiting.
Enter(c) ==
    /\ c \in Outside
    /\ Free
    /\ holders' = holders \union {c}
    /\ UNCHANGED waiting

Grant(c) ==
    /\ c \in waiting
    /\ Free
    /\ waiting' = waiting \ {c}
    /\ holders' = holders \union {c}

Withdraw(c) ==
    /\ c \in waiting
    /\ waiting' = waiting \ {c}
    /\ UNCHANGED holders

Leave(c) ==
    /\ c \in holders
    /\ holders' = holders \ {c}
    /\ UNCHANGED waiting

\* The process the pool lives in exits, and the pool with it.
Shutdown ==
    /\ waiting' = {}
    /\ holders' = {}

Next ==
    \/ \E c \in Clients :
          Join(c) \/ Enter(c) \/ Grant(c) \/ Withdraw(c) \/ Leave(c)
    \/ Shutdown

Spec == Init /\ [][Next]_vars

\* A free slot is eventually given to some waiting client.
FairSpec == Spec /\ WF_vars(\E c \in Clients : Grant(c))
=============================================================================
