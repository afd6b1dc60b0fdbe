------------------------ MODULE ContextFollower_proof ------------------------
(***************************************************************************)
(* What a BiDi session keeps, for any tabs, tests, commands and faults.    *)
(* The controller's invariant holds whoever puts operations on its chain   *)
(* and whatever the tests do; it comes first, in layers: the state's       *)
(* types, what each operation still has to do, and what slot, capture and  *)
(* lifecycle are at each station of it.  That a recording is charged only  *)
(* with its own gaps, and that one reported complete is complete, hold     *)
(* when no command outlasts its test (~Stray): then at most one operation  *)
(* is on the chain, and it belongs to the command or the hook under way.   *)
(***************************************************************************)
EXTENDS ContextFollower, SequenceTheorems, TLAPS

----------------------------------------------------------------------------
(* The controller: the inductive invariant.                                *)

\* An operation stops a segment in these steps.
Stopping == {"stop", "stopped", "slot", "segment"}
Words == Stopping \union {"record", "select", "acquire", "attach", "closing",
                          "next", "complete", "reset", "forget", "release"}
Filming == {"follow", "recover-close", "resume"}

\* An operation of this kind that is about to do this has this left to do.
Planned(kind, word, rest) ==
    \/ /\ word \in Stopping
       /\ \/ kind = "follow" /\ rest \in {<<"record">>, <<"select">>}
          \/ kind = "stop-closing" /\ rest = <<"closing">>
          \/ kind = "resume" /\ rest = <<"next">>
          \/ kind = "end" /\ rest = <<"complete", "reset">>
          \/ kind = "teardown" /\ rest = <<"reset", "release">>
    \/ word = "record" /\ kind \in Filming /\ rest = <<>>
    \/ word = "select" /\ kind = "follow" /\ rest = <<>>
    \/ /\ word \in {"acquire", "attach"}
       /\ kind \in Filming \union {"begin"} /\ rest = <<>>
    \/ word = "closing" /\ kind = "stop-closing" /\ rest = <<>>
    \/ word = "next" /\ kind = "resume" /\ rest = <<>>
    \/ word = "complete" /\ kind = "end" /\ rest = <<"reset">>
    \/ /\ word \in {"reset", "forget"}
       /\ kind \in {"begin", "end", "teardown"} /\ rest = <<>>
    \/ /\ word \in {"reset", "forget"}
       /\ kind = "teardown" /\ rest = <<"release">>
    \/ word = "release" /\ kind = "teardown" /\ rest = <<>>

StepsOK ==
    /\ steps \in Seq(Words)
    /\ op = None => steps = <<>>
    /\ steps # <<>> => Planned(op.kind, Head(steps), Tail(steps))

\* The operations of a caller wait for one another; only the test runner
\* begins recordings, one at a time, and no more than the bound.
HasTab(o) ==
    o.kind \in {"follow", "stop-closing", "recover-close"} => o.tab \in Tabs
OwnKind(o) ==
    o.kind \in {"begin", "end", "teardown"} <=> o.by = "runner"

ChainOK ==
    /\ \A i, j \in DOMAIN queue : queue[i].by = queue[j].by => i = j
    /\ op # None => \A i \in DOMAIN queue : queue[i].by # op.by
    /\ \A i \in DOMAIN queue :
          /\ HasTab(queue[i]) /\ OwnKind(queue[i])
          /\ queue[i].kind = "begin" => begun < MaxTests
    /\ op # None => HasTab(op) /\ OwnKind(op)
    /\ op # None /\ steps # <<>> /\ Head(steps) = "record" => op.tab \in Tabs

\* Nothing is filmed and nothing is owned.
Free == capture = None /\ slot = FALSE /\ life # "recording"

StopReady ==
    /\ slot <=> capture # None
    /\ life = "recording" => capture # None
    /\ capture # None => capture = window /\ slug # 0

Quiet == StopReady /\ (capture # None => life = "recording")

\* What the state is when the next step of the operation is this word.
Phase(word) ==
    /\ word = "stop" => StopReady
    /\ word \in {"stopped", "slot", "attach"} =>
          capture = None /\ slot = TRUE /\ life # "recording"
    /\ word \in {"record", "select", "acquire", "segment", "closing", "next",
                 "complete", "reset", "forget", "release"} => Free
    /\ word \in {"stopped", "slot", "segment", "acquire", "attach"} => slug # 0
    /\ word \in {"acquire", "attach"} => ~SegmentStarted /\ closing = None
    /\ word = "forget" => closing = None /\ failure = None /\ unconfirmed = None

PhaseOK ==
    /\ steps = <<>> => Quiet
    /\ steps # <<>> => Phase(Head(steps))
    /\ closing # None => capture = None
    /\ steps # <<>> /\ op.kind = "stop-closing" => window = op.tab
    /\ (/\ steps # <<>> /\ Head(steps) \in {"acquire", "attach"}
        /\ op.kind # "begin") => window = op.tab /\ op.tab \in Tabs
    /\ capture # None \/ closing # None \/ (steps # <<>> /\ op.kind # "teardown")
          => unconfirmed = None

BrowserOK == open \subseteq Tabs /\ wdioWindow \in Tabs \union {None}

ControlInv(callers) ==
    ControlTypeOK(callers) /\ StepsOK /\ ChainOK /\ PhaseOK /\ BrowserOK
----------------------------------------------------------------------------
(* What is left to do.                                                     *)

LEMMA Cons ==
    ASSUME NEW w \in Words, NEW r \in Seq(Words)
    PROVE  /\ <<w>> \o r \in Seq(Words) /\ <<w>> \o r # <<>>
           /\ Head(<<w>> \o r) = w /\ Tail(<<w>> \o r) = r
<1>1. <<w>> \in Seq(Words) /\ Len(<<w>>) = 1 /\ <<w>> # <<>>
  OBVIOUS
<1>2. /\ <<w>> \o r \in Seq(Words)
      /\ Len(<<w>> \o r) = 1 + Len(r)
      /\ \A i \in 1 .. 1 + Len(r) :
            (<<w>> \o r)[i] = IF i <= 1 THEN w ELSE r[i - 1]
  BY <1>1, ConcatProperties
<1>3. <<w>> \o r # <<>> /\ Head(<<w>> \o r) = w
  BY <1>2
<1>4. /\ Tail(<<w>> \o r) \in Seq(Words)
      /\ Len(Tail(<<w>> \o r)) = Len(r)
      /\ \A i \in 1 .. Len(r) : Tail(<<w>> \o r)[i] = r[i]
  BY <1>2, <1>3
<1>5. Tail(<<w>> \o r) = r
  BY <1>4, SeqEqual
<1> QED
  BY <1>2, <1>3, <1>5

LEMMA One ==
    ASSUME NEW a
    PROVE  Head(<<a>>) = a /\ Tail(<<a>>) = <<>> /\ <<a>> # <<>>
<1>1. Len(Tail(<<a>>)) = 0 /\ Tail(<<a>>) \in Seq({a})
  OBVIOUS
<1> QED
  BY <1>1, EmptySeq

LEMMA Two ==
    ASSUME NEW a, NEW b
    PROVE  Head(<<a, b>>) = a /\ Tail(<<a, b>>) = <<b>> /\ <<a, b>> # <<>>
<1>1. /\ Len(Tail(<<a, b>>)) = 1 /\ Tail(<<a, b>>) \in Seq({a, b})
      /\ Tail(<<a, b>>)[1] = b
  OBVIOUS
<1>2. Tail(<<a, b>>) = <<b>>
  BY <1>1, SeqEqual
<1> QED
  BY <1>2

\* Everything an operation may have left is a row of Planned again.
LEMMA RestIsPlanned ==
    ASSUME NEW k \in Kinds, NEW w \in Words, NEW r, Planned(k, w, r)
    PROVE  /\ r \in Seq(Words)
           /\ r # <<>> => Planned(k, Head(r), Tail(r))
<1> DEFINE Good(t) == t \in Seq(Words) /\ (t # <<>> =>
                                         Planned(k, Head(t), Tail(t)))
<1>1. ASSUME NEW a \in Words, NEW b \in Words
      PROVE  /\ <<>> \in Seq(Words) /\ <<a>> \in Seq(Words)
             /\ <<a, b>> \in Seq(Words)
  BY <1>1
<1>2. ASSUME NEW a \in Words, Planned(k, a, <<>>), r = <<a>> PROVE Good(r)
  BY <1>1, <1>2, One
<1>3. ASSUME NEW a \in Words, NEW b \in Words, Planned(k, a, <<b>>),
             r = <<a, b>>
      PROVE  Good(r)
  BY <1>1, <1>3, Two
<1>4. Good(<<>>)
  BY DEF Words
<1> SUFFICES Good(r)
  OBVIOUS
<1> HIDE DEF Good
<1>w. {"record", "select", "closing", "next", "complete", "reset", "release"}
          \subseteq Words
  BY DEF Words
<1>5. CASE k = "follow" /\ r \in {<<"record">>, <<"select">>}
  <2>1. Planned(k, "record", <<>>) /\ Planned(k, "select", <<>>)
    BY <1>5 DEF Planned, Filming
  <2> QED
    BY <1>2, <1>5, <1>w, <2>1
<1>6. CASE k = "stop-closing" /\ r = <<"closing">>
  BY <1>2, <1>6, <1>w DEF Planned
<1>7. CASE k = "resume" /\ r = <<"next">>
  BY <1>2, <1>7, <1>w DEF Planned
<1>8. CASE k = "end" /\ r = <<"complete", "reset">>
  BY <1>3, <1>8, <1>w DEF Planned
<1>9. CASE k = "teardown" /\ r = <<"reset", "release">>
  BY <1>3, <1>9, <1>w DEF Planned
<1>10. CASE k = "end" /\ r = <<"reset">>
  BY <1>2, <1>10, <1>w DEF Planned
<1>11. CASE k = "teardown" /\ r = <<"release">>
  <2>1. Planned(k, "release", <<>>)
    BY <1>11 DEF Planned
  <2> QED
    BY <1>2, <1>11, <1>w, <2>1
<1>12. CASE r = <<>>
  BY <1>4, <1>12
<1> QED
  BY <1>5, <1>6, <1>7, <1>8, <1>9, <1>10, <1>11, <1>12 DEF Planned

LEMMA Three ==
    ASSUME NEW a, NEW b, NEW c
    PROVE  /\ Head(<<a, b, c>>) = a /\ Tail(<<a, b, c>>) = <<b, c>>
           /\ <<a, b, c>> # <<>>
<1>1. /\ Len(Tail(<<a, b, c>>)) = 2 /\ Tail(<<a, b, c>>) \in Seq({a, b, c})
      /\ Tail(<<a, b, c>>)[1] = b /\ Tail(<<a, b, c>>)[2] = c
  OBVIOUS
<1>2. Tail(<<a, b, c>>) = <<b, c>>
  BY <1>1, SeqEqual
<1> QED
  BY <1>2

\* An operation that goes on finds one of these next, with nothing filmed.
RestWords == {"record", "select", "closing", "next", "complete", "reset",
              "release"}

LEMMA ContinueOK ==
    ASSUME StepsOK, op # None, op.kind \in Kinds, steps # <<>>, Continue
    PROVE  /\ StepsOK'
           /\ steps' # <<>> => /\ Head(steps') \in RestWords
                               /\ Head(steps') = "record" => op.kind = "follow"
<1>1. /\ Head(steps) \in Words /\ Planned(op.kind, Head(steps), Tail(steps))
      /\ steps' = Tail(steps) /\ op' = op
  BY DEF StepsOK, Continue
<1>2. /\ steps' \in Seq(Words)
      /\ steps' # <<>> => Planned(op.kind, Head(steps'), Tail(steps'))
  BY <1>1, RestIsPlanned
<1>3. StepsOK'
  BY <1>1, <1>2 DEF StepsOK
<1>4. \/ Tail(steps) = <<>>
      \/ Tail(steps) = <<"record">> /\ op.kind = "follow"
      \/ \E w \in RestWords \ {"record"} : Tail(steps) = <<w>>
      \/ Tail(steps) = <<"complete", "reset">>
      \/ Tail(steps) = <<"reset", "release">>
  <2>1. {"select", "closing", "next", "reset", "release"}
            \subseteq RestWords \ {"record"}
    BY DEF RestWords
  <2> QED
    BY <1>1, <2>1 DEF Planned
<1>5. CASE Tail(steps) = <<"record">> /\ op.kind = "follow"
  BY <1>1, <1>3, <1>5, One DEF RestWords
<1>6. ASSUME NEW w \in RestWords \ {"record"}, Tail(steps) = <<w>>
      PROVE  steps' # <<>> => /\ Head(steps') \in RestWords
                              /\ Head(steps') # "record"
  BY <1>1, <1>6, One
<1>7. CASE Tail(steps) = <<"complete", "reset">>
  <2>1. Head(<<"complete", "reset">>) = "complete"
    BY Two
  <2> QED
    BY <1>1, <1>3, <1>7, <2>1 DEF RestWords
<1>8. CASE Tail(steps) = <<"reset", "release">>
  <2>1. Head(<<"reset", "release">>) = "reset"
    BY Two
  <2> QED
    BY <1>1, <1>3, <1>8, <2>1 DEF RestWords
<1> QED
  BY <1>1, <1>3, <1>4, <1>5, <1>6, <1>7, <1>8

LEMMA GoOnOK ==
    ASSUME StepsOK, op # None, steps # <<>>, NEW w \in Words,
           Planned(op.kind, w, Tail(steps)), GoOn(<<w>>)
    PROVE  /\ StepsOK' /\ steps' # <<>>
           /\ Head(steps') = w /\ Tail(steps') = Tail(steps)
<1>1. Tail(steps) \in Seq(Words) /\ steps' = <<w>> \o Tail(steps) /\ op' = op
  BY DEF StepsOK, GoOn
<1>2. /\ steps' \in Seq(Words) /\ steps' # <<>>
      /\ Head(steps') = w /\ Tail(steps') = Tail(steps)
  BY <1>1, Cons
<1> QED
  BY <1>1, <1>2 DEF StepsOK

LEMMA NewPlanOK ==
    ASSUME op' # None,
           \/ steps' = <<>>
           \/ \E a \in Words : steps' = <<a>> /\ Planned(op'.kind, a, <<>>)
           \/ \E a, b \in Words :
                 steps' = <<a, b>> /\ Planned(op'.kind, a, <<b>>)
           \/ \E a, b, c \in Words :
                 steps' = <<a, b, c>> /\ Planned(op'.kind, a, <<b, c>>)
    PROVE  StepsOK'
<1>1. CASE steps' = <<>>
  BY <1>1 DEF StepsOK
<1>2. ASSUME NEW a \in Words, steps' = <<a>>, Planned(op'.kind, a, <<>>)
      PROVE  StepsOK'
  BY <1>2, One DEF StepsOK
<1>3. ASSUME NEW a \in Words, NEW b \in Words,
             steps' = <<a, b>>, Planned(op'.kind, a, <<b>>)
      PROVE  StepsOK'
  BY <1>3, Two DEF StepsOK
<1>4. ASSUME NEW a \in Words, NEW b \in Words, NEW c \in Words,
             steps' = <<a, b, c>>, Planned(op'.kind, a, <<b, c>>)
      PROVE  StepsOK'
  BY <1>4, Three DEF StepsOK
<1> QED
  BY <1>1, <1>2, <1>3, <1>4

LEMMA TakenOperation ==
    ASSUME NEW callers \in SUBSET {"command", "runner"},
           ControlTypeOK(callers), NEW kind, Take(kind)
    PROVE  /\ op' \in Operations(callers) /\ op' # None /\ op'.kind = kind
           /\ op' = Head(queue) /\ op' = queue[1]
           /\ queue' = Tail(queue) /\ queue' \in Seq(Operations(callers))
           /\ DOMAIN queue = 1 .. Len(queue) /\ Len(queue) \in Nat \ {0}
           /\ DOMAIN queue' = 1 .. Len(queue) - 1
           /\ \A i \in 1 .. Len(queue) - 1 : queue'[i] = queue[i + 1]
<1>1. queue \in Seq(Operations(callers)) /\ queue # <<>>
  BY DEF ControlTypeOK, Take
<1>2. Head(queue) \in Operations(callers) /\ Head(queue) = queue[1]
  BY <1>1
<1>3. Head(queue) # None
  BY <1>2, OperationAssumption DEF Operations
<1> QED
  BY <1>1, <1>2, <1>3 DEF Take

LEMMA StepsStep ==
    ASSUME NEW callers \in SUBSET {"command", "runner"},
           ControlInv(callers), Step
    PROVE  StepsOK'
<1>0. /\ StepsOK
      /\ op # None => op.kind \in Kinds
      /\ ControlTypeOK(callers)
  BY DEF ControlInv, ControlTypeOK, Operations
<1>b. wdioWindow \in Tabs \union {None}
  BY DEF ControlInv, BrowserOK
<1>w. {"stop", "stopped", "slot", "segment", "record", "select", "acquire",
       "attach", "closing", "next", "complete", "reset", "forget", "release"}
          \subseteq Words
  BY DEF Words, Stopping
<1>1. ASSUME NEW w, At(w), Continue PROVE StepsOK'
  BY <1>0, <1>1, ContinueOK DEF At
<1>2. ASSUME NEW w, At(w), NEW v \in Words, GoOn(<<v>>),
             Planned(op.kind, v, Tail(steps))
      PROVE  StepsOK'
  BY <1>0, <1>2, GoOnOK DEF At
<1>3. CASE Begin
  <2>1. Planned("begin", "acquire", <<>>)
    BY DEF Planned
  <2> QED
    BY <1>0, <1>3, <1>w, <2>1, TakenOperation, NewPlanOK DEF Begin
<1>4. CASE End
  <2>1. Planned("end", "stop", <<"complete", "reset">>)
    BY DEF Planned, Stopping
  <2> QED
    <3>1. op' # None /\ op'.kind = "end"
      BY <1>0, <1>4, TakenOperation DEF End
    <3>2. steps' = <<>> \/ steps' = <<"stop", "complete", "reset">>
      BY <1>4 DEF End
    <3> QED
      BY <1>w, <2>1, <3>1, <3>2, NewPlanOK
<1>5. CASE Follow
  <2>1. /\ Planned("follow", "stop", <<"select">>)
        /\ Planned("follow", "stop", <<"record">>)
        /\ Planned("follow", "record", <<>>)
    BY DEF Planned, Stopping, Filming
  <2> QED
    <3>1. op' # None /\ op'.kind = "follow"
      BY <1>0, <1>5, TakenOperation DEF Follow
    <3>2. \/ steps' = <<>> \/ steps' = <<"record">>
          \/ steps' = <<"stop", "select">> \/ steps' = <<"stop", "record">>
      BY <1>5 DEF Follow
    <3> QED
      BY <1>w, <2>1, <3>1, <3>2, NewPlanOK
<1>6. CASE StopClosing
  <2>1. Planned("stop-closing", "stop", <<"closing">>)
    BY DEF Planned, Stopping
  <2> QED
    <3>1. op' # None /\ op'.kind = "stop-closing"
      BY <1>0, <1>6, TakenOperation DEF StopClosing
    <3>2. steps' = <<>> \/ steps' = <<"stop", "closing">>
      BY <1>6 DEF StopClosing
    <3> QED
      BY <1>w, <2>1, <3>1, <3>2, NewPlanOK
<1>7. CASE RecoverClose
  <2>1. Planned("recover-close", "record", <<>>)
    BY DEF Planned, Filming
  <2> QED
    BY <1>0, <1>7, <1>w, <2>1, TakenOperation, NewPlanOK DEF RecoverClose
<1>8. CASE Resume
  <2>1. /\ Planned("resume", "stop", <<"next">>)
        /\ Planned("resume", "next", <<>>)
    BY DEF Planned, Stopping
  <2> QED
    <3>1. op' # None /\ op'.kind = "resume"
      BY <1>0, <1>8, TakenOperation DEF Resume
    <3>2. \/ steps' = <<>> \/ steps' = <<"next">>
          \/ steps' = <<"stop", "next">>
      BY <1>8 DEF Resume
    <3> QED
      BY <1>w, <2>1, <3>1, <3>2, NewPlanOK
<1>9. CASE Teardown
  <2>1. /\ Planned("teardown", "stop", <<"reset", "release">>)
        /\ Planned("teardown", "release", <<>>)
    BY DEF Planned, Stopping
  <2> QED
    <3>1. op' # None /\ op'.kind = "teardown"
      BY <1>0, <1>9, TakenOperation DEF Teardown
    <3>2. steps' = <<"release">> \/ steps' = <<"stop", "reset", "release">>
      BY <1>9 DEF Teardown
    <3> QED
      BY <1>w, <2>1, <3>1, <3>2, NewPlanOK
<1>10. ASSUME NEW w \in {"record", "acquire", "attach"}, At(w), StartFailed
       PROVE  StepsOK'
  <2>1. Planned(op.kind, w, Tail(steps))
    BY <1>0, <1>10 DEF StepsOK, At
  <2>2. op.kind = "begin" => Planned(op.kind, "reset", Tail(steps))
    BY <2>1 DEF Planned, Stopping
  <2> QED
    BY <1>1, <1>2, <1>10, <1>w, <2>2 DEF StartFailed
<1>11. CASE Record
  <2>1. Planned(op.kind, "record", Tail(steps))
    BY <1>0, <1>11 DEF StepsOK, At, Record
  <2>2. Planned(op.kind, "acquire", Tail(steps))
    BY <2>1 DEF Planned, Stopping
  <2> QED
    BY <1>2, <1>10, <1>11, <1>w, <2>2 DEF Record
<1>12. CASE Acquire
  <2>1. Planned(op.kind, "acquire", Tail(steps))
    BY <1>0, <1>12 DEF StepsOK, At, Acquire
  <2>2. Planned(op.kind, "attach", Tail(steps))
    BY <2>1 DEF Planned, Stopping
  <2> QED
    BY <1>2, <1>10, <1>12, <1>w, <2>2 DEF Acquire
<1>13. CASE Attach
  BY <1>1, <1>10, <1>13 DEF Attach, Attached, NotAttached
<1>14. CASE Select \/ StopNothing \/ MarkClosing \/ Complete \/ Forget
  BY <1>1, <1>14 DEF Select, StopNothing, MarkClosing, Complete, Forget
<1>15. CASE Detach \/ Stopped \/ ReleaseSlot
  <2>1. /\ Planned(op.kind, Head(steps), Tail(steps))
        /\ Head(steps) \in Stopping
    BY <1>0, <1>15 DEF StepsOK, At, Detach, Stopped, ReleaseSlot, Stopping
  <2>2. \A v \in Stopping : Planned(op.kind, v, Tail(steps))
    BY <2>1 DEF Planned, Stopping
  <2> QED
    BY <1>2, <1>15, <1>w, <2>2 DEF Detach, Stopped, ReleaseSlot, Stopping
<1>16. CASE FinalizeSegment
  <2>1. CASE Abort
    <3>1. Planned("end", "reset", <<>>) /\ Planned("teardown", "release", <<>>)
      BY DEF Planned
    <3>2. op # None /\ op' = op
      BY <1>16, <2>1 DEF FinalizeSegment, At, Abort
    <3> QED
      BY <1>w, <2>1, <3>1, <3>2, NewPlanOK DEF Abort
  <2> QED
    BY <1>1, <1>16, <2>1 DEF FinalizeSegment
<1>17. CASE Successor
  <2>1. Planned(op.kind, "next", Tail(steps))
    BY <1>0, <1>17 DEF StepsOK, At, Successor
  <2>2. Tail(steps) = <<>> /\ op.kind = "resume"
    BY <2>1 DEF Planned, Stopping
  <2>3. op \in Operations(callers) /\ op # None
    BY <1>0, <1>17 DEF At, Successor, ControlTypeOK
  <2>4. op' # None /\ op'.kind = "resume"
    <3>2. CASE op' = [op EXCEPT !.tab = wdioWindow]
      <4>1. op' \in Operations(callers) /\ op'.kind = op.kind
        BY <1>b, <2>3, <3>2 DEF Operations
      <4> QED
        BY <2>2, <4>1, OperationAssumption DEF Operations
    <3> QED
      BY <1>17, <2>2, <2>3, <3>2 DEF Successor
  <2>5. Planned("resume", "record", <<>>)
    BY DEF Planned, Filming
  <2> QED
    BY <1>17, <1>w, <2>2, <2>4, <2>5, NewPlanOK DEF Successor
<1>18. CASE ReleaseResources
  <2>1. Planned(op.kind, "release", Tail(steps))
    BY <1>0, <1>18 DEF StepsOK, At, ReleaseResources
  <2>2. Planned(op.kind, "reset", Tail(steps))
    BY <2>1 DEF Planned, Stopping
  <2> QED
    BY <1>1, <1>2, <1>18, <1>w, <2>2 DEF ReleaseResources
<1>19. CASE Reset
  <2>1. Planned(op.kind, "reset", Tail(steps))
    BY <1>0, <1>19 DEF StepsOK, At, Reset
  <2>2. Planned(op.kind, "forget", Tail(steps))
    BY <2>1 DEF Planned, Stopping
  <2> QED
    BY <1>2, <1>19, <1>w, <2>2 DEF Reset
<1>20. CASE Finish
  BY <1>0, <1>20 DEF Finish, StepsOK
<1> QED
  BY <1>3, <1>4, <1>5, <1>6, <1>7, <1>8, <1>9, <1>11, <1>12, <1>13, <1>14,
     <1>15, <1>16, <1>17, <1>18, <1>19, <1>20 DEF Step

----------------------------------------------------------------------------
(* The chain.                                                              *)

\* ChainOK without what an operation about to film a tab knows of it.
QueueOK ==
    /\ \A i, j \in DOMAIN queue : queue[i].by = queue[j].by => i = j
    /\ op # None => \A i \in DOMAIN queue : queue[i].by # op.by
    /\ \A i \in DOMAIN queue :
          /\ HasTab(queue[i]) /\ OwnKind(queue[i])
          /\ queue[i].kind = "begin" => begun < MaxTests
    /\ op # None => HasTab(op) /\ OwnKind(op)

LEMMA TakeQueueOK ==
    ASSUME NEW callers \in SUBSET {"command", "runner"},
           ControlTypeOK(callers), QueueOK,
           NEW kind, Take(kind), begun' = begun \/ kind = "begin"
    PROVE  /\ QueueOK'
           /\ kind = "begin" => begun < MaxTests
<1>1. /\ op' # None /\ op'.kind = kind /\ op' = queue[1]
      /\ DOMAIN queue = 1 .. Len(queue) /\ Len(queue) \in Nat \ {0}
      /\ DOMAIN queue' = 1 .. Len(queue) - 1
      /\ \A i \in 1 .. Len(queue) - 1 : queue'[i] = queue[i + 1]
  BY TakenOperation
<1>2. 1 \in DOMAIN queue
  BY <1>1
<1>3. ASSUME NEW i \in DOMAIN queue'
      PROVE  /\ i + 1 \in DOMAIN queue /\ queue'[i] = queue[i + 1]
             /\ queue[i + 1].by # queue[1].by
  BY <1>1 DEF QueueOK
<1>4. \A i, j \in DOMAIN queue' : queue'[i].by = queue'[j].by => i = j
  BY <1>1, <1>3 DEF QueueOK
<1>5. \A i \in DOMAIN queue' : queue'[i].by # op'.by
  BY <1>1, <1>3
<1>6. HasTab(op') /\ OwnKind(op') /\ (kind = "begin" => begun < MaxTests)
  BY <1>1, <1>2 DEF QueueOK, HasTab, OwnKind
<1>7. ASSUME NEW i \in DOMAIN queue'
      PROVE  /\ HasTab(queue'[i]) /\ OwnKind(queue'[i])
             /\ queue'[i].kind = "begin" => begun' < MaxTests
  <2>1. HasTab(queue[i + 1]) /\ OwnKind(queue[i + 1])
    BY <1>3, <1>7 DEF QueueOK
  <2>2. kind = "begin" => queue[1].by = "runner"
    BY <1>1, <1>6 DEF OwnKind
  <2>3. queue[i + 1].kind = "begin" => queue[i + 1].by = "runner"
    BY <2>1 DEF OwnKind
  <2>4. queue[i + 1].kind = "begin" => begun < MaxTests
    BY <1>3, <1>7 DEF QueueOK
  <2> QED
    BY <1>3, <1>7, <2>1, <2>2, <2>3, <2>4 DEF HasTab, OwnKind
<1> QED
  BY <1>4, <1>5, <1>6, <1>7 DEF QueueOK, HasTab, OwnKind

LEMMA QueueStep ==
    ASSUME NEW callers \in SUBSET {"command", "runner"},
           ControlInv(callers), Step
    PROVE  QueueOK' /\ (Begin /\ begun' # begun => begun < MaxTests)
<1>0. ControlTypeOK(callers) /\ QueueOK
  BY DEF ControlInv, ChainOK, QueueOK
<1>1. CASE Begin
  BY <1>0, <1>1, TakeQueueOK DEF Begin
<1>2. CASE End \/ Follow \/ StopClosing \/ RecoverClose \/ Resume \/ Teardown
  <2>1. \E kind \in Kinds : Take(kind)
    BY <1>2 DEF End, Follow, StopClosing, RecoverClose, Resume, Teardown, Kinds
  <2>2. begun' = begun
    BY <1>2
    DEF End, Follow, StopClosing, RecoverClose, Resume, Teardown, reports
  <2>3. begun' # begun => ~Begin
    BY <2>2
  <2> QED
    BY <1>0, <2>1, <2>2, TakeQueueOK
<1>3. CASE UNCHANGED <<queue, op, begun>>
  BY <1>0, <1>3 DEF QueueOK, HasTab, OwnKind
<1>4. CASE Finish
  BY <1>0, <1>4 DEF Finish, QueueOK, reports, HasTab, OwnKind
<1>5. CASE Successor
  <2>1. op # None /\ op \in Operations(callers)
    BY <1>0, <1>5 DEF Successor, At, ControlTypeOK
  <2>2. Planned(op.kind, "next", Tail(steps))
    BY <1>5 DEF Successor, At, ControlInv, StepsOK
  <2>3. op.kind = "resume"
    BY <2>2 DEF Planned, Stopping
  <2>4. op'.kind = op.kind /\ op'.by = op.by
    BY <1>5, <2>1 DEF Successor, Operations
  <2>5. queue' = queue /\ begun' = begun
    BY <1>5 DEF Successor, reports
  <2> QED
    BY <1>0, <2>1, <2>3, <2>4, <2>5 DEF QueueOK, HasTab, OwnKind
<1>6. CASE \/ Record \/ Select \/ Acquire \/ Attach \/ StopNothing \/ Detach
           \/ Stopped \/ ReleaseSlot \/ FinalizeSegment \/ MarkClosing
           \/ Complete \/ ReleaseResources \/ Reset \/ Forget
  <2>1. UNCHANGED <<queue, op, begun>>
    BY <1>6
    DEF Record, Select, Acquire, Attach, StopNothing, Detach, Stopped,
        ReleaseSlot, FinalizeSegment, MarkClosing, Complete, ReleaseResources,
        Reset, Forget, Attached, NotAttached, StartFailed, GoOn, Continue,
        Abort, reports
  <2> QED
    BY <1>3, <2>1
<1> QED
  BY <1>1, <1>2, <1>4, <1>5, <1>6 DEF Step

----------------------------------------------------------------------------
(* Types.                                                                  *)

LEMMA NextSegmentType ==
    ASSUME segments \in Seq(Tabs \union {None})
    PROVE  /\ NextSegment \in Seq(Tabs \union {None})
           /\ NextSegment = <<>> <=> segments = <<>>
           /\ segments # <<>> =>
                 NextSegment[Len(NextSegment)] = None
<1>1. CASE SegmentStarted
  <2>1. /\ Append(segments, None) \in Seq(Tabs \union {None})
        /\ Len(Append(segments, None)) = Len(segments) + 1
        /\ Append(segments, None)[Len(segments) + 1] = None
        /\ Append(segments, None) # <<>> /\ segments # <<>>
    BY <1>1 DEF SegmentStarted
  <2> QED
    BY <1>1, <2>1 DEF NextSegment
<1>2. CASE ~SegmentStarted
  BY <1>2 DEF NextSegment, SegmentStarted
<1> QED
  BY <1>1, <1>2

LEMMA OpType ==
    ASSUME NEW callers \in SUBSET {"command", "runner"},
           ControlInv(callers), Step
    PROVE  /\ op' \in Operations(callers) \union {None}
           /\ queue' \in Seq(Operations(callers))
<1>0. ControlTypeOK(callers) /\ BrowserOK
  BY DEF ControlInv
<1>1. CASE \/ Begin \/ End \/ Follow \/ StopClosing \/ RecoverClose \/ Resume
           \/ Teardown
  BY <1>0, <1>1, TakenOperation
  DEF Begin, End, Follow, StopClosing, RecoverClose, Resume, Teardown
<1>2. CASE Successor
  <2>1. op \in Operations(callers)
    BY <1>0, <1>2 DEF Successor, At, ControlTypeOK
  <2>2. op' = op \/ op' = [op EXCEPT !.tab = wdioWindow]
    BY <1>2 DEF Successor
  <2>3. op' \in Operations(callers)
    BY <1>0, <2>1, <2>2 DEF Operations, BrowserOK
  <2> QED
    BY <1>0, <1>2, <2>3 DEF Successor, ControlTypeOK
<1>3. CASE Finish
  BY <1>0, <1>3 DEF Finish, ControlTypeOK
<1>6. CASE \/ Record \/ Select \/ Acquire \/ Attach \/ StopNothing \/ Detach
           \/ Stopped \/ ReleaseSlot \/ FinalizeSegment \/ MarkClosing
           \/ Complete \/ ReleaseResources \/ Reset \/ Forget
  <2>1. UNCHANGED <<queue, op>>
    BY <1>6
    DEF Record, Select, Acquire, Attach, StopNothing, Detach, Stopped,
        ReleaseSlot, FinalizeSegment, MarkClosing, Complete, ReleaseResources,
        Reset, Forget, Attached, NotAttached, StartFailed, GoOn, Continue,
        Abort
  <2> QED
    BY <1>0, <2>1 DEF ControlTypeOK
<1> QED
  BY <1>1, <1>2, <1>3, <1>6 DEF Step

\* The types of everything else.
StateTypeOK ==
    /\ slug \in 0 .. MaxTests
    /\ segments \in Seq(Tabs \union {None})
    /\ slug = 0 <=> segments = <<>>
    /\ {window, capture, closing, unconfirmed} \subseteq Tabs \union {None}
    /\ closing \in {None, window}
    /\ slot \in BOOLEAN /\ life \in LifecycleStates
    /\ failure \in 0 .. MaxTests \union {None}
    /\ failedStarts \in [Tabs -> Nat]
    /\ results \in [Recordings -> {"none", "completed", "failed"}]
    /\ begun \in 0 .. MaxTests
    /\ spoiled \subseteq Recordings /\ broken \subseteq Recordings

LEMMA TypeParts ==
    ASSUME NEW callers
    PROVE  ControlTypeOK(callers) <=>
               /\ StateTypeOK
               /\ queue \in Seq(Operations(callers))
               /\ op \in Operations(callers) \union {None}
BY DEF ControlTypeOK, StateTypeOK

LEMMA StartFailedType ==
    ASSUME StateTypeOK, op.tab \in Tabs \union {None}, StartFailed
    PROVE  /\ failedStarts' \in [Tabs -> Nat]
           /\ results' \in [Recordings -> {"none", "completed", "failed"}]
           /\ failure' \in 0 .. MaxTests \union {None}
           /\ unconfirmed' \in Tabs \union {None}
<1>1. failedStarts' \in [Tabs -> Nat]
  BY DEF StartFailed, StateTypeOK
<1>2. results' \in [Recordings -> {"none", "completed", "failed"}]
  BY DEF StartFailed, StateTypeOK
<1>3. /\ failure' \in 0 .. MaxTests \union {None}
      /\ unconfirmed' \in Tabs \union {None}
  BY DEF StartFailed, StateTypeOK, NoteGap, Report
<1> QED
  BY <1>1, <1>2, <1>3

LEMMA StateTypeStep ==
    ASSUME NEW callers \in SUBSET {"command", "runner"},
           ControlInv(callers), Step
    PROVE  StateTypeOK'
<1>0. /\ StateTypeOK /\ PhaseOK /\ BrowserOK /\ StepsOK
      /\ ControlTypeOK(callers)
      /\ op # None => op.tab \in Tabs \union {None}
      /\ MaxTests \in Nat
  BY TypeParts, FaultAssumption DEF ControlInv, Operations
<1>f. /\ \A g \in Tabs \union {None} :
            Confirmed(g) \in 0 .. MaxTests \union {None}
      /\ Report(failure) \in 0 .. MaxTests \union {None}
  BY <1>0 DEF Confirmed, Report, StateTypeOK
<1>1. CASE Begin
  <2>1. begun' # begun => begun < MaxTests
    BY <1>1, QueueStep
  <2>2. CASE slug # 0
    BY <1>0, <1>1, <2>2 DEF Begin, StateTypeOK, browser
  <2>3. CASE begun' = begun + 1
    <3>1. begun + 1 \in 1 .. MaxTests
      BY <1>0, <2>1, <2>3 DEF StateTypeOK
    <3>2. <<None>> \in Seq(Tabs \union {None}) /\ <<None>> # <<>>
      OBVIOUS
    <3>3. CASE slug = 0
      <4>1. /\ slug' \in 1 .. MaxTests /\ begun' \in 0 .. MaxTests
            /\ segments' \in Seq(Tabs \union {None}) /\ segments' # <<>>
            /\ window' = None /\ closing' = None /\ unconfirmed' = None
            /\ life' \in LifecycleStates
            /\ failedStarts' \in [Tabs -> Nat]
        <5>1. /\ slug' = begun + 1 /\ segments' = <<None>>
              /\ window' = None /\ closing' = None /\ unconfirmed' = None
              /\ life' = "preparing"
              /\ failedStarts' = [t \in Tabs |-> 0]
          BY <1>1, <3>3 DEF Begin
        <5>2. 1 .. MaxTests \subseteq 0 .. MaxTests
          BY <1>0
        <5>3. failedStarts' \in [Tabs -> Nat] /\ life' \in LifecycleStates
          BY <5>1 DEF LifecycleStates
        <5> QED
          BY <2>3, <3>1, <3>2, <5>1, <5>2, <5>3
      <4>2. UNCHANGED <<capture, slot, failure, results, spoiled, broken>>
        BY <1>1 DEF Begin
      <4> QED
        BY <1>0, <4>1, <4>2 DEF StateTypeOK
    <3> QED
      BY <2>2, <3>3
  <2> QED
    BY <1>1, <2>2, <2>3 DEF Begin
<1>2. CASE End
  BY <1>0, <1>f, <1>2
  DEF End, StateTypeOK, LifecycleStates, session, reports, browser
<1>3. CASE Follow
  <2>1. PendingGap(Head(queue).reason) \in Tabs \union {None}
    BY <1>0 DEF PendingGap, StateTypeOK
  <2> QED
    BY <1>0, <1>f, <1>3, <2>1 DEF Follow, StateTypeOK, session, reports, browser
<1>4. CASE StopClosing \/ Resume
  BY <1>0, <1>f, <1>4
  DEF StopClosing, Resume, StateTypeOK, session, reports, browser
<1>5. CASE RecoverClose
  BY <1>0, <1>5 DEF RecoverClose, StateTypeOK, session, reports, browser
<1>6. CASE Teardown \/ ReleaseResources \/ Finish
  BY <1>0, <1>6
  DEF Teardown, ReleaseResources, Finish, StateTypeOK, session, gaps, reports
<1>7. CASE Record
  <2>1. op.tab \in Tabs \union {None}
    BY <1>0, <1>7 DEF Record, At
  <2>2. /\ failedStarts' \in [Tabs -> Nat]
        /\ results' \in [Recordings -> {"none", "completed", "failed"}]
        /\ failure' \in 0 .. MaxTests \union {None}
        /\ unconfirmed' \in Tabs \union {None}
    BY <1>0, <1>7, <2>1, StartFailedType DEF Record, StateTypeOK
  <2>3. /\ segments' \in Seq(Tabs \union {None})
        /\ slug = 0 <=> segments' = <<>>
    BY <1>0, <1>7, NextSegmentType DEF Record, StateTypeOK
  <2> QED
    BY <1>0, <1>7, <2>1, <2>2, <2>3 DEF Record, StateTypeOK, LifecycleStates
<1>8. CASE Select
  <2>1. op.tab \in Tabs \union {None}
    BY <1>0, <1>8 DEF Select, At
  <2>2. /\ segments' \in Seq(Tabs \union {None})
        /\ slug = 0 <=> segments' = <<>>
    BY <1>0, <1>8, NextSegmentType DEF Select, StateTypeOK
  <2> QED
    BY <1>0, <1>f, <1>8, <2>1, <2>2 DEF Select, StateTypeOK, NoteGap, reports
<1>9. CASE Acquire
  <2>1. op.tab \in Tabs \union {None}
    BY <1>0, <1>9 DEF Acquire, At
  <2>2. /\ failedStarts' \in [Tabs -> Nat]
        /\ results' \in [Recordings -> {"none", "completed", "failed"}]
        /\ failure' \in 0 .. MaxTests \union {None}
        /\ unconfirmed' \in Tabs \union {None}
    BY <1>0, <1>9, <2>1, StartFailedType DEF Acquire, StateTypeOK
  <2> QED
    BY <1>0, <1>9, <2>2 DEF Acquire, StateTypeOK, LifecycleStates, session
<1>10. CASE Attach
  <2>1. op.tab \in Tabs \union {None} /\ Target \in Tabs \union {None}
    BY <1>0, <1>10 DEF Attach, At, Target, BrowserOK
  <2>2. closing = None /\ slug # 0
    BY <1>0, <1>10 DEF Attach, At, PhaseOK, Phase
  <2>3. CASE Attached
    <3>1. failedStarts' \in [Tabs -> Nat]
      BY <1>0, <2>3 DEF Attached, StateTypeOK
    <3>2. segments' \in Seq(Tabs \union {None}) /\ segments' # <<>>
      <4>1. segments # <<>> /\ segments \in Seq(Tabs \union {None})
        BY <1>0, <2>2 DEF StateTypeOK
      <4> QED
        BY <2>1, <2>3, <4>1 DEF Attached
    <3> QED
      BY <1>0, <1>10, <2>1, <2>2, <2>3, <3>1, <3>2
      DEF Attach, Attached, StateTypeOK, LifecycleStates
  <2>4. CASE NotAttached
    <3>1. /\ failedStarts' \in [Tabs -> Nat]
          /\ results' \in [Recordings -> {"none", "completed", "failed"}]
          /\ failure' \in 0 .. MaxTests \union {None}
          /\ unconfirmed' \in Tabs \union {None}
      BY <1>0, <2>1, <2>4, StartFailedType DEF NotAttached
    <3> QED
      BY <1>0, <1>10, <2>4, <3>1
      DEF Attach, NotAttached, StateTypeOK, LifecycleStates
  <2> QED
    BY <1>10, <2>3, <2>4 DEF Attach
<1>11. CASE StopNothing \/ Detach \/ ReleaseSlot
  BY <1>0, <1>11
  DEF StopNothing, Detach, ReleaseSlot, StateTypeOK, LifecycleStates, session,
      gaps, reports
<1>12. CASE Stopped
  <2>1. slug \in Recordings
    BY <1>0, <1>12 DEF Stopped, At, PhaseOK, Phase, StateTypeOK, Recordings
  <2> QED
    BY <1>0, <1>f, <1>12, <2>1
    DEF Stopped, Unclean, StateTypeOK, LifecycleStates, session
<1>13. CASE FinalizeSegment
  <2>1. slug \in Recordings
    BY <1>0, <1>13
    DEF FinalizeSegment, At, PhaseOK, Phase, StateTypeOK, Recordings
  <2>2. results' \in [Recordings -> {"none", "completed", "failed"}]
    BY <1>0, <1>13, <2>1 DEF FinalizeSegment, StateTypeOK
  <2> QED
    BY <1>0, <1>13, <2>1, <2>2
    DEF FinalizeSegment, StateTypeOK, LifecycleStates, session, gaps
<1>14. CASE MarkClosing
  <2>1. Head(steps) = "closing" /\ steps # <<>> /\ op # None
    BY <1>14 DEF MarkClosing, At
  <2>2. op.kind = "stop-closing"
    BY <1>0, <2>1 DEF StepsOK, Planned, Stopping
  <2>3. window = op.tab
    BY <1>0, <2>1, <2>2 DEF PhaseOK
  <2> QED
    BY <1>0, <1>14, <2>1, <2>3 DEF MarkClosing, StateTypeOK, session, reports
<1>15. CASE Successor
  BY <1>0, <1>15 DEF Successor, StateTypeOK, session, reports
<1>16. CASE Complete
  <2>1. results' \in [Recordings -> {"none", "completed", "failed"}]
    BY <1>0, <1>16 DEF Complete, StateTypeOK
  <2> QED
    BY <1>0, <1>16, <2>1
    DEF Complete, StateTypeOK, LifecycleStates, session, gaps
<1>17. CASE Reset
  BY <1>0, <1>17 DEF Reset, ClearGaps, StateTypeOK, reports
<1>18. CASE Forget
  <2>1. closing = None
    BY <1>0, <1>18 DEF Forget, At, PhaseOK, Phase
  <2>2. /\ slug' = 0 /\ segments' = <<>> /\ window' = None /\ slot' = FALSE
        /\ segments' \in Seq(Tabs \union {None})
        /\ life' \in LifecycleStates /\ closing' = None
    BY <1>18, <2>1 DEF Forget, ForgetRecording, LifecycleStates, gaps
  <2>3. UNCHANGED <<capture, failure, failedStarts, unconfirmed, begun, results,
                    spoiled, broken>>
    BY <1>18 DEF Forget, gaps, reports
  <2>4. /\ slug' \in 0 .. MaxTests
        /\ {window', capture', closing', unconfirmed'} \subseteq Tabs \union {None}
        /\ closing' \in {None, window'}
    BY <1>0, <2>2, <2>3 DEF StateTypeOK
  <2>6. slot' \in BOOLEAN
    BY <2>2
  <2>5. /\ failure' \in 0 .. MaxTests \union {None}
        /\ failedStarts' \in [Tabs -> Nat]
        /\ results' \in [Recordings -> {"none", "completed", "failed"}]
        /\ begun' \in 0 .. MaxTests
        /\ spoiled' \subseteq Recordings /\ broken' \subseteq Recordings
    BY <1>0, <2>3 DEF StateTypeOK
  <2> QED
    BY <2>2, <2>4, <2>5, <2>6 DEF StateTypeOK
<1> QED
  BY <1>1, <1>2, <1>3, <1>4, <1>5, <1>6, <1>7, <1>8, <1>9, <1>10, <1>11,
     <1>12, <1>13, <1>14, <1>15, <1>16, <1>17, <1>18 DEF Step

----------------------------------------------------------------------------
(* The stations of an operation.                                           *)

LEMMA AtWord ==
    ASSUME NEW callers \in SUBSET {"command", "runner"},
           ControlInv(callers), NEW w, At(w)
    PROVE  /\ op # None /\ op \in Operations(callers) /\ op.kind \in Kinds
           /\ steps # <<>> /\ Head(steps) = w
           /\ Planned(op.kind, w, Tail(steps))
           /\ Phase(w)
BY DEF ControlInv, ControlTypeOK, StepsOK, PhaseOK, At, Operations

RecordsTab ==
    op # None /\ steps # <<>> /\ Head(steps) = "record" => op.tab \in Tabs
StationOK == PhaseOK /\ RecordsTab

\* An operation goes on with nothing filmed.
LEMMA ContinuePhase ==
    ASSUME NEW callers \in SUBSET {"command", "runner"},
           ControlInv(callers), NEW w, At(w),
           Continue, Free',
           op.kind = "stop-closing" => window' = op.tab,
           \/ unconfirmed' = None
           \/ steps' = <<>> /\ closing' = None
           \/ op.kind = "teardown" /\ closing' = None
    PROVE  StationOK'
<1>1. /\ op # None /\ op.kind \in Kinds /\ steps # <<>> /\ StepsOK /\ HasTab(op)
  BY AtWord DEF ControlInv, ChainOK
<1>2. steps' # <<>> => /\ Head(steps') \in RestWords
                       /\ Head(steps') = "record" => op.kind = "follow"
  BY <1>1, ContinueOK
<1>3. op' = op
  BY DEF Continue
<1>4. RecordsTab'
  BY <1>1, <1>2, <1>3 DEF RecordsTab, HasTab
<1>5. steps' # <<>> => Phase(Head(steps))'
  BY <1>2 DEF Phase, RestWords
<1>6. steps' = <<>> => Quiet'
  BY DEF Free, Quiet, StopReady
<1>7. capture' = None
  BY DEF Free
<1>8. steps' # <<>> => Head(steps') \notin {"acquire", "attach"}
  BY <1>2 DEF RestWords
<1> QED
  BY <1>3, <1>4, <1>5, <1>6, <1>7, <1>8 DEF PhaseOK, StationOK

\* It turns to another step, with what that step presupposes.
LEMMA GoOnPhase ==
    ASSUME NEW callers \in SUBSET {"command", "runner"},
           ControlInv(callers), NEW w, At(w),
           NEW v \in Words \ {"record"}, GoOn(<<v>>),
           Planned(op.kind, v, Tail(steps)), Phase(v)', capture' = None,
           op.kind = "stop-closing" => window' = op.tab,
           v \in {"acquire", "attach"} /\ op.kind # "begin"
               => window' = op.tab /\ op.tab \in Tabs,
           unconfirmed' = None \/ (op.kind = "teardown" /\ closing' = None)
    PROVE  StationOK'
<1>1. /\ op # None /\ op.kind \in Kinds /\ steps # <<>> /\ StepsOK
  BY AtWord DEF ControlInv
<1>2. steps' # <<>> /\ Head(steps') = v /\ op' = op
  BY <1>1, GoOnOK DEF GoOn
<1>3. RecordsTab'
  BY <1>2 DEF RecordsTab
<1> QED
  BY <1>2, <1>3 DEF PhaseOK, StationOK

LEMMA StartFailedPhase ==
    ASSUME NEW callers \in SUBSET {"command", "runner"}, ControlInv(callers),
           NEW w \in {"record", "acquire", "attach"}, At(w),
           StartFailed, Free', closing' = None
    PROVE  StationOK'
<1>1. /\ op # None /\ op.kind \in Kinds /\ steps # <<>>
      /\ Planned(op.kind, w, Tail(steps)) /\ PhaseOK
  BY AtWord DEF ControlInv
<1>2. /\ Tail(steps) = <<>> /\ op.kind # "stop-closing"
      /\ op.kind # "teardown"
  BY <1>1 DEF Planned, Stopping, Filming
<1>3. CASE op.kind = "begin"
  <2>1. GoOn(<<"reset">>) /\ unconfirmed' = unconfirmed
    BY <1>3 DEF StartFailed
  <2>2. unconfirmed = None
    BY <1>1, <1>2 DEF PhaseOK
  <2>3. Planned(op.kind, "reset", Tail(steps))
    BY <1>2, <1>3 DEF Planned
  <2>4. Phase("reset")' /\ "reset" \in Words \ {"record"} /\ capture' = None
    BY DEF Phase, Words, Free
  <2> QED
    BY <1>2, <2>1, <2>2, <2>3, <2>4, GoOnPhase
<1>4. CASE op.kind # "begin"
  <2>1. Continue /\ steps' = <<>>
    BY <1>2, <1>4 DEF StartFailed, Continue
  <2> QED
    BY <1>2, <2>1, ContinuePhase
<1> QED
  BY <1>3, <1>4

\* An operation starts.
LEMMA TakenPhase ==
    ASSUME NEW callers \in SUBSET {"command", "runner"},
           ControlInv(callers), NEW kind,
           Take(kind)
    PROVE  /\ op' # None /\ op'.kind = kind /\ op' = Head(queue)
           /\ op' \in Operations(callers)
           /\ HasTab(Head(queue))
           /\ Quiet /\ (closing # None => capture = None)
           /\ capture # None \/ closing # None => unconfirmed = None
<1>1. /\ op' # None /\ op'.kind = kind /\ op' = Head(queue)
      /\ op' \in Operations(callers)
      /\ Head(queue) = queue[1] /\ 1 \in DOMAIN queue
  BY TakenOperation DEF ControlInv
<1>2. HasTab(Head(queue))
  BY <1>1 DEF ControlInv, ChainOK, HasTab
<1>3. steps = <<>>
  BY DEF Take, ControlInv, StepsOK
<1> QED
  BY <1>1, <1>2, <1>3 DEF ControlInv, PhaseOK

LEMMA NothingLeftPhase ==
    ASSUME steps' = <<>>, Quiet', closing' # None => capture' = None,
           capture' # None \/ closing' # None => unconfirmed' = None
    PROVE  StationOK'
BY DEF StationOK, PhaseOK, RecordsTab

LEMMA FirstStepPhase ==
    ASSUME steps' # <<>>, op' # None, NEW w, Head(steps') = w, Phase(w)',
           closing' # None => capture' = None,
           unconfirmed' = None \/
              (op'.kind = "teardown" /\
               (capture' # None \/ closing' # None => unconfirmed' = None)),
           op'.kind = "stop-closing" => window' = op'.tab,
           w \in {"acquire", "attach"} /\ op'.kind # "begin"
               => window' = op'.tab /\ op'.tab \in Tabs,
           w = "record" => op'.tab \in Tabs
    PROVE  StationOK'
BY DEF StationOK, PhaseOK, RecordsTab

LEMMA TakeStation ==
    ASSUME NEW callers \in SUBSET {"command", "runner"}, ControlInv(callers),
           \/ Begin \/ End \/ Follow \/ StopClosing \/ RecoverClose \/ Resume
           \/ Teardown
    PROVE  StationOK'
<1>1. CASE Begin
  <2>1. /\ Quiet /\ (closing # None => capture = None) /\ op' # None
        /\ capture # None \/ closing # None => unconfirmed = None
        /\ op'.kind = "begin"
    BY <1>1, TakenPhase DEF Begin
  <2>2. CASE slug # 0
    <3>1. /\ steps' = <<>>
          /\ UNCHANGED <<slug, window, capture, slot, life, closing, unconfirmed>>
      BY <1>1, <2>2 DEF Begin
    <3> QED
      BY <2>1, <3>1, NothingLeftPhase DEF Quiet, StopReady
  <2>3. CASE slug = 0
    <3>1. /\ capture' = None /\ slot' = slot /\ slug' = begun + 1
          /\ segments' = <<None>> /\ closing' = None /\ unconfirmed' = None
          /\ life' = "preparing" /\ steps' = <<"acquire">> /\ capture = None
      BY <1>1, <2>3 DEF Begin
    <3>2. slug' # 0
      BY <3>1, FaultAssumption DEF ControlInv, ControlTypeOK
    <3>3. ~SegmentStarted'
      BY <3>1 DEF SegmentStarted
    <3>4. Free'
      BY <2>1, <3>1 DEF Free, Quiet, StopReady
    <3>5. Phase("acquire")'
      BY <3>1, <3>2, <3>3, <3>4 DEF Phase
    <3>6. steps' # <<>> /\ Head(steps') = "acquire"
      BY <3>1
    <3> QED
      BY <2>1, <3>1, <3>5, <3>6, FirstStepPhase
  <2> QED
    BY <2>2, <2>3
<1>2. CASE End
  <2>1. /\ Quiet /\ (closing # None => capture = None) /\ op' # None
        /\ capture # None \/ closing # None => unconfirmed = None
        /\ op'.kind = "end"
        /\ UNCHANGED <<slug, window, capture, slot, closing>>
    BY <1>2, TakenPhase DEF End, session
  <2>2. CASE slug = 0
    <3>1. steps' = <<>> /\ UNCHANGED <<life, unconfirmed>>
      BY <1>2, <2>2 DEF End
    <3> QED
      BY <2>1, <3>1, NothingLeftPhase DEF Quiet, StopReady
  <2>3. CASE slug # 0
    <3>1. /\ unconfirmed' = None /\ life' = "stopping"
          /\ steps' = <<"stop", "complete", "reset">>
      BY <1>2, <2>3 DEF End
    <3>2. Phase("stop")'
      BY <2>1, <3>1 DEF Phase, StopReady, Quiet
    <3>3. steps' # <<>> /\ Head(steps') = "stop"
      BY <3>1, Three
    <3> QED
      BY <2>1, <3>1, <3>2, <3>3, FirstStepPhase
  <2> QED
    BY <2>2, <2>3
<1>3. CASE Follow
  <2>1. /\ Quiet /\ (closing # None => capture = None) /\ op' # None
        /\ op'.kind = "follow" /\ op' = Head(queue) /\ op'.tab \in Tabs
        /\ UNCHANGED <<slug, window, capture, slot, closing, life>>
        /\ unconfirmed' = None
    BY <1>3, TakenPhase DEF Follow, session, HasTab
  <2>2. CASE steps' = <<>>
    BY <2>1, <2>2, NothingLeftPhase DEF Quiet, StopReady
  <2>3. CASE steps' = <<"record">> /\ capture = None
    <3>1. Phase("record")'
      BY <2>1, <2>3 DEF Phase, Free, Quiet, StopReady
    <3>2. steps' # <<>> /\ Head(steps') = "record"
      BY <2>3
    <3> QED
      BY <2>1, <3>1, <3>2, FirstStepPhase
  <2>4. CASE steps' = <<"stop", "select">> \/ steps' = <<"stop", "record">>
    <3>1. Phase("stop")'
      BY <2>1 DEF Phase, Quiet, StopReady
    <3>2. steps' # <<>> /\ Head(steps') = "stop"
      BY <2>4, Two
    <3> QED
      BY <2>1, <3>1, <3>2, FirstStepPhase
  <2> QED
    BY <1>3, <2>2, <2>3, <2>4 DEF Follow
<1>4. CASE StopClosing
  <2>1. /\ Quiet /\ (closing # None => capture = None) /\ op' # None
        /\ op' = Head(queue)
        /\ UNCHANGED <<slug, window, capture, slot, closing, life>>
        /\ unconfirmed' = None
    BY <1>4, TakenPhase DEF StopClosing, session
  <2>2. CASE steps' = <<>>
    BY <2>1, <2>2, NothingLeftPhase DEF Quiet, StopReady
  <2>3. CASE steps' = <<"stop", "closing">> /\ window = Head(queue).tab
    <3>1. Phase("stop")'
      BY <2>1 DEF Phase, Quiet, StopReady
    <3>2. steps' # <<>> /\ Head(steps') = "stop"
      BY <2>3, Two
    <3>3. window' = op'.tab
      BY <2>1, <2>3
    <3> QED
      BY <2>1, <3>1, <3>2, <3>3, FirstStepPhase
  <2> QED
    BY <1>4, <2>2, <2>3 DEF StopClosing
<1>5. CASE RecoverClose
  <2>1. /\ Quiet /\ (closing # None => capture = None) /\ op' # None
        /\ capture # None \/ closing # None => unconfirmed = None
        /\ op'.kind = "recover-close" /\ op' = Head(queue) /\ op'.tab \in Tabs
        /\ UNCHANGED <<slug, window, capture, slot, life, unconfirmed>>
    <3>1. Take("recover-close")
      BY <1>5 DEF RecoverClose
    <3>2. UNCHANGED <<slug, window, capture, slot, life, unconfirmed>>
      BY <1>5 DEF RecoverClose, session
    <3> QED
      BY <3>1, <3>2, TakenPhase DEF HasTab
  <2>2. CASE steps' = <<>> /\ closing' = closing
    BY <2>1, <2>2, NothingLeftPhase DEF Quiet, StopReady
  <2>3. CASE closing = Head(queue).tab /\ closing' = None /\ steps' = <<"record">>
    <3>1. closing # None
      BY <2>1, <2>3, NoneAssumption
    <3>2. Phase("record")' /\ unconfirmed' = None
      BY <2>1, <3>1 DEF Phase, Free, Quiet, StopReady
    <3>3. steps' # <<>> /\ Head(steps') = "record"
      BY <2>3
    <3> QED
      BY <2>1, <2>3, <3>2, <3>3, FirstStepPhase
  <2> QED
    BY <1>5, <2>2, <2>3 DEF RecoverClose
<1>6. CASE Resume
  <2>1. /\ Quiet /\ (closing # None => capture = None) /\ op' # None
        /\ op'.kind = "resume"
        /\ UNCHANGED <<slug, window, capture, slot, closing, life>>
        /\ unconfirmed' = None
    BY <1>6, TakenPhase DEF Resume, session
  <2>2. CASE steps' = <<>>
    BY <2>1, <2>2, NothingLeftPhase DEF Quiet, StopReady
  <2>3. CASE steps' = <<"next">> /\ capture = None
    <3>1. Phase("next")'
      BY <2>1, <2>3 DEF Phase, Free, Quiet, StopReady
    <3>2. steps' # <<>> /\ Head(steps') = "next"
      BY <2>3
    <3> QED
      BY <2>1, <3>1, <3>2, FirstStepPhase
  <2>4. CASE steps' = <<"stop", "next">>
    <3>1. Phase("stop")'
      BY <2>1 DEF Phase, Quiet, StopReady
    <3>2. steps' # <<>> /\ Head(steps') = "stop"
      BY <2>4, Two
    <3> QED
      BY <2>1, <3>1, <3>2, FirstStepPhase
  <2> QED
    BY <1>6, <2>2, <2>3, <2>4 DEF Resume
<1>7. CASE Teardown
  <2>1. /\ Quiet /\ (closing # None => capture = None) /\ op' # None
        /\ capture # None \/ closing # None => unconfirmed = None
        /\ op'.kind = "teardown"
        /\ UNCHANGED <<slug, window, capture, slot, closing, life, unconfirmed>>
    BY <1>7, TakenPhase DEF Teardown, session, gaps
  <2>2. CASE slug = 0 /\ steps' = <<"release">>
    <3>1. Phase("release")'
      BY <2>1, <2>2 DEF Phase, Free, Quiet, StopReady
    <3>2. steps' # <<>> /\ Head(steps') = "release"
      BY <2>2
    <3> QED
      BY <2>1, <3>1, <3>2, FirstStepPhase
  <2>3. CASE steps' = <<"stop", "reset", "release">>
    <3>1. Phase("stop")'
      BY <2>1 DEF Phase, Quiet, StopReady
    <3>2. steps' # <<>> /\ Head(steps') = "stop"
      BY <2>3, Three
    <3> QED
      BY <2>1, <3>1, <3>2, FirstStepPhase
  <2> QED
    BY <1>7, <2>2, <2>3 DEF Teardown
<1> QED
  BY <1>1, <1>2, <1>3, <1>4, <1>5, <1>6, <1>7

\* What holds of an operation under way, however it came there.
LEMMA UnderWay ==
    ASSUME NEW callers \in SUBSET {"command", "runner"},
           ControlInv(callers), NEW w, At(w)
    PROVE  /\ op.kind = "stop-closing" => window = op.tab
           /\ closing # None => capture = None
           /\ unconfirmed = None \/ (op.kind = "teardown" /\ closing = None)
           /\ op.kind # "teardown" => unconfirmed = None
           /\ w = "record" => op.tab \in Tabs
           /\ w \in {"acquire", "attach"} /\ op.kind # "begin"
                 => window = op.tab /\ op.tab \in Tabs
<1>1. /\ op # None /\ steps # <<>> /\ Head(steps) = w /\ PhaseOK /\ ChainOK
  BY AtWord DEF ControlInv
<1> QED
  BY <1>1 DEF PhaseOK, ChainOK

LEMMA StartStation ==
    ASSUME NEW callers \in SUBSET {"command", "runner"}, ControlInv(callers),
           Record \/ Select \/ Acquire \/ Attach
    PROVE  StationOK'
<1>1. CASE Record
  <2>1. /\ At("record") /\ Free /\ op.tab \in Tabs
        /\ Planned(op.kind, "record", Tail(steps))
    BY <1>1, AtWord, UnderWay DEF Record, Phase
  <2>2. /\ op.kind \in Filming /\ Tail(steps) = <<>>
    BY <2>1 DEF Planned, Stopping
  <2>3. unconfirmed = None
    BY <2>1, <2>2, UnderWay DEF Filming
  <2>4. /\ window' = op.tab /\ closing' = None /\ segments' = NextSegment
        /\ UNCHANGED <<slug, capture, slot>>
    BY <1>1 DEF Record
  <2>5. CASE StartRefused
    <3>1. StartFailed /\ life' = life
      BY <1>1, <2>5 DEF Record
    <3>2. Free'
      BY <2>1, <2>4, <3>1 DEF Free
    <3> QED
      BY <2>1, <2>4, <3>1, <3>2, StartFailedPhase
  <2>6. CASE ~StartRefused
    <3>1. GoOn(<<"acquire">>) /\ life' = "preparing" /\ unconfirmed' = unconfirmed
      BY <1>1, <2>6 DEF Record
    <3>2. slug # 0 /\ slug' # 0
      BY <2>4, <2>6 DEF StartRefused
    <3>3. segments # <<>> /\ segments \in Seq(Tabs \union {None})
      BY <3>2 DEF ControlInv, ControlTypeOK
    <3>4. ~SegmentStarted'
      BY <2>4, <3>3, NextSegmentType DEF SegmentStarted
    <3>5. Free'
      BY <2>1, <2>4, <3>1 DEF Free
    <3>6. Phase("acquire")'
      BY <2>4, <3>2, <3>4, <3>5 DEF Phase
    <3>7. Planned(op.kind, "acquire", Tail(steps))
      BY <2>2 DEF Planned
    <3>8. "acquire" \in Words \ {"record"} /\ capture' = None
      BY <3>5 DEF Words, Free
    <3>9. op.kind # "stop-closing"
      BY <2>2 DEF Filming
    <3> QED
      BY <2>1, <2>3, <2>4, <3>1, <3>6, <3>7, <3>8, <3>9, GoOnPhase
  <2> QED
    BY <2>5, <2>6
<1>2. CASE Select
  <2>1. /\ At("select") /\ Free /\ Planned(op.kind, "select", Tail(steps))
    BY <1>2, AtWord DEF Select, Phase
  <2>2. op.kind = "follow" /\ Tail(steps) = <<>>
    BY <2>1 DEF Planned, Stopping
  <2>3. /\ closing' = None /\ Continue /\ steps' = Tail(steps)
        /\ UNCHANGED <<capture, slot, life>>
    BY <1>2 DEF Select, Continue
  <2>4. Free'
    BY <2>1, <2>3 DEF Free
  <2> QED
    BY <2>1, <2>2, <2>3, <2>4, ContinuePhase
<1>3. CASE Acquire
  <2>1. /\ At("acquire") /\ Free /\ Planned(op.kind, "acquire", Tail(steps))
        /\ slug # 0 /\ ~SegmentStarted /\ closing = None
        /\ op.kind # "begin" => window = op.tab /\ op.tab \in Tabs
    BY <1>3, AtWord, UnderWay DEF Acquire, Phase
  <2>2. op.kind \in Filming \union {"begin"} /\ Tail(steps) = <<>>
    BY <2>1 DEF Planned, Stopping
  <2>3. unconfirmed = None
    BY <2>1, <2>2, UnderWay DEF Filming
  <2>4. UNCHANGED <<slug, segments, window, capture, closing>>
    BY <1>3 DEF Acquire, session
  <2>5. CASE slot' = TRUE /\ GoOn(<<"attach">>) /\ UNCHANGED <<life, unconfirmed>>
    <3>1. ~SegmentStarted'
      BY <2>1, <2>4 DEF SegmentStarted
    <3>2. Phase("attach")'
      BY <2>1, <2>4, <2>5, <3>1 DEF Phase, Free
    <3>3. Planned(op.kind, "attach", Tail(steps))
      BY <2>2 DEF Planned
    <3>4. "attach" \in Words \ {"record"} /\ capture' = None
      BY <2>1, <2>4 DEF Words, Free
    <3>5. op.kind # "stop-closing"
      BY <2>2 DEF Filming
    <3> QED
      BY <2>1, <2>3, <2>4, <2>5, <3>2, <3>3, <3>4, <3>5, GoOnPhase
  <2>6. CASE life' = "failed" /\ StartFailed /\ UNCHANGED slot
    <3>1. Free' /\ closing' = None
      BY <2>1, <2>4, <2>6 DEF Free
    <3> QED
      BY <2>1, <2>6, <3>1, StartFailedPhase
  <2> QED
    BY <1>3, <2>5, <2>6 DEF Acquire
<1>4. CASE Attach
  <2>1. /\ At("attach") /\ Planned(op.kind, "attach", Tail(steps))
        /\ capture = None /\ slot = TRUE /\ life # "recording"
        /\ slug # 0 /\ closing = None
    BY <1>4, AtWord DEF Attach, Phase
  <2>2. op.kind \in Filming \union {"begin"} /\ Tail(steps) = <<>>
    BY <2>1 DEF Planned, Stopping
  <2>3. unconfirmed = None
    BY <2>1, <2>2, UnderWay DEF Filming
  <2>4. UNCHANGED <<slug, closing>>
    BY <1>4 DEF Attach
  <2>5. CASE Attached
    <3>1. capture' = Target /\ window' = Target /\ Target \in open
      BY <2>5 DEF Attached
    <3>2. Target # None
      BY <3>1, NoneAssumption DEF ControlInv, BrowserOK
    <3>3. steps' = <<>> /\ UNCHANGED <<slot, unconfirmed>> /\ life' = "recording"
      BY <2>2, <2>5 DEF Attached, Continue
    <3>4. Quiet'
      BY <2>1, <2>4, <3>1, <3>2, <3>3 DEF Quiet, StopReady
    <3> QED
      BY <2>1, <2>3, <2>4, <3>3, <3>4, NothingLeftPhase
  <2>6. CASE NotAttached
    <3>1. StartFailed /\ Free' /\ closing' = None
      BY <2>1, <2>4, <2>6 DEF NotAttached, Free
    <3> QED
      BY <2>1, <3>1, StartFailedPhase
  <2> QED
    BY <1>4, <2>5, <2>6 DEF Attach
<1> QED
  BY <1>1, <1>2, <1>3, <1>4

LEMMA StopStation ==
    ASSUME NEW callers \in SUBSET {"command", "runner"}, ControlInv(callers),
           StopNothing \/ Detach \/ Stopped \/ ReleaseSlot \/ FinalizeSegment
    PROVE  StationOK'
<1>1. CASE StopNothing
  <2>1. /\ At("stop") /\ StopReady /\ capture = None
    BY <1>1, AtWord DEF StopNothing, Phase
  <2>2. /\ slot' = FALSE /\ Continue
        /\ UNCHANGED <<capture, window, life, closing, unconfirmed>>
    BY <1>1 DEF StopNothing, session, gaps
  <2>3. Free'
    BY <2>1, <2>2 DEF Free, StopReady
  <2> QED
    BY <2>1, <2>2, <2>3, UnderWay, ContinuePhase
<1>2. CASE Detach \/ Stopped \/ ReleaseSlot
  <2>1. PICK w \in Stopping, v \in Stopping : At(w) /\ GoOn(<<v>>) /\ Phase(v)'
    <3>1. CASE Detach
      <4>1. At("stop") /\ StopReady /\ capture # None
        BY <3>1, AtWord DEF Detach, Phase
      <4>2. /\ GoOn(<<"stopped">>) /\ capture' = None /\ life' = "stopping"
            /\ UNCHANGED <<slug, slot>>
        BY <3>1 DEF Detach
      <4>3. slot = TRUE
        BY <4>1 DEF StopReady, ControlInv, ControlTypeOK
      <4>4. Phase("stopped")'
        BY <4>1, <4>2, <4>3 DEF Phase, StopReady
      <4> QED
        BY <4>1, <4>2, <4>4 DEF Stopping
    <3>2. CASE Stopped
      <4>1. At("stopped") /\ capture = None /\ slot = TRUE /\ slug # 0
        BY <3>2, AtWord DEF Stopped, Phase
      <4>2. /\ GoOn(<<"slot">>) /\ life' = "processing"
            /\ UNCHANGED <<slug, capture, slot>>
        BY <3>2 DEF Stopped, session
      <4>3. Phase("slot")'
        BY <4>1, <4>2 DEF Phase
      <4> QED
        BY <4>1, <4>2, <4>3 DEF Stopping
    <3>3. CASE ReleaseSlot
      <4>1. At("slot") /\ capture = None /\ life # "recording" /\ slug # 0
        BY <3>3, AtWord DEF ReleaseSlot, Phase
      <4>2. /\ GoOn(<<"segment">>) /\ slot' = FALSE
            /\ UNCHANGED <<slug, capture, life>>
        BY <3>3 DEF ReleaseSlot, session
      <4>3. Phase("segment")'
        BY <4>1, <4>2 DEF Phase, Free
      <4> QED
        BY <4>1, <4>2, <4>3 DEF Stopping
    <3> QED
      BY <1>2, <3>1, <3>2, <3>3
  <2>2. capture' = None
    <3>1. Detach => capture' = None
      BY DEF Detach
    <3>2. Stopped => capture' = capture /\ capture = None
      BY AtWord DEF Stopped, session, Phase
    <3>3. ReleaseSlot => capture' = capture /\ capture = None
      BY AtWord DEF ReleaseSlot, session, Phase
    <3> QED
      BY <1>2, <3>1, <3>2, <3>3
  <2>3. UNCHANGED <<window, closing, unconfirmed>>
    BY <1>2 DEF Detach, Stopped, ReleaseSlot, session, gaps
  <2>4. Planned(op.kind, w, Tail(steps))
    BY <2>1, AtWord
  <2>5. Planned(op.kind, v, Tail(steps))
    BY <2>1, <2>4 DEF Planned, Stopping
  <2>6. v \in Words \ {"record"} /\ v \notin {"acquire", "attach"}
    BY <2>1 DEF Words, Stopping
  <2>7. op.kind = "stop-closing" => window' = op.tab
    BY <2>1, <2>3, UnderWay
  <2>8. unconfirmed' = None \/ (op.kind = "teardown" /\ closing' = None)
    BY <2>1, <2>3, UnderWay
  <2> QED
    BY <2>1, <2>2, <2>5, <2>6, <2>7, <2>8, GoOnPhase
<1>3. CASE FinalizeSegment
  <2>1. At("segment") /\ Free
    BY <1>3, AtWord DEF FinalizeSegment, Phase
  <2>2. /\ UNCHANGED <<capture, window, slot, closing, unconfirmed>>
        /\ life' \in {"completed", "failed"}
        /\ op' = op
    BY <1>3 DEF FinalizeSegment, session, gaps, Continue, Abort
  <2>3. Free'
    BY <2>1, <2>2 DEF Free
  <2>4. CASE Continue
    BY <2>1, <2>2, <2>3, <2>4, UnderWay, ContinuePhase
  <2>5. CASE Abort
    <3>1. op # None
      BY <2>1, AtWord
    <3>2. \/ op.kind = "end" /\ steps' = <<"reset">>
          \/ op.kind = "teardown" /\ steps' = <<"release">>
          \/ steps' = <<>>
      BY <2>5 DEF Abort
    <3>3. Phase("reset")' /\ Phase("release")' /\ Quiet' /\ capture' = None
      BY <2>3 DEF Phase, Free, Quiet, StopReady
    <3>4. closing # None => unconfirmed = None
      BY <2>1, UnderWay
    <3>5. op.kind # "teardown" => unconfirmed = None
      BY <2>1, UnderWay
    <3>6. CASE steps' = <<>>
      BY <2>2, <3>3, <3>4, <3>6, NothingLeftPhase
    <3>7. CASE op.kind = "end" /\ steps' = <<"reset">>
      <4>1. steps' # <<>> /\ Head(steps') = "reset"
        BY <3>7
      <4> QED
        BY <2>2, <3>1, <3>3, <3>5, <3>7, <4>1, FirstStepPhase
    <3>8. CASE op.kind = "teardown" /\ steps' = <<"release">>
      <4>1. steps' # <<>> /\ Head(steps') = "release"
        BY <3>8
      <4> QED
        BY <2>2, <3>1, <3>3, <3>4, <3>8, <4>1, FirstStepPhase
    <3> QED
      BY <3>2, <3>6, <3>7, <3>8
  <2> QED
    BY <1>3, <2>4, <2>5 DEF FinalizeSegment
<1> QED
  BY <1>1, <1>2, <1>3

LEMMA RestStation ==
    ASSUME NEW callers \in SUBSET {"command", "runner"}, ControlInv(callers),
           \/ MarkClosing \/ Successor \/ Complete \/ ReleaseResources
           \/ Reset \/ Forget \/ Finish
    PROVE  StationOK'
<1>1. CASE MarkClosing
  <2>1. /\ At("closing") /\ Free /\ Planned(op.kind, "closing", Tail(steps))
    BY <1>1, AtWord DEF MarkClosing, Phase
  <2>2. op.kind = "stop-closing" /\ Tail(steps) = <<>>
    BY <2>1 DEF Planned, Stopping
  <2>3. /\ Continue /\ steps' = <<>>
        /\ UNCHANGED <<capture, window, slot, life, unconfirmed>>
    BY <1>1, <2>2 DEF MarkClosing, session, Continue
  <2>4. unconfirmed = None
    BY <2>1, <2>2, UnderWay
  <2>5. Quiet' /\ capture' = None
    BY <2>1, <2>3 DEF Free, Quiet, StopReady
  <2> QED
    BY <2>3, <2>4, <2>5, NothingLeftPhase
<1>2. CASE Successor
  <2>1. /\ At("next") /\ Free /\ Planned(op.kind, "next", Tail(steps))
        /\ op # None /\ op \in Operations(callers)
    BY <1>2, AtWord DEF Successor, Phase
  <2>2. op.kind = "resume" /\ Tail(steps) = <<>>
    BY <2>1 DEF Planned, Stopping
  <2>3. /\ closing' = None /\ UNCHANGED <<capture, slot, life, unconfirmed>>
    BY <1>2 DEF Successor, session
  <2>4. unconfirmed = None
    BY <2>1, <2>2, UnderWay
  <2>5. Free'
    BY <2>1, <2>3 DEF Free
  <2>6. CASE steps' = <<>>
    <3>1. Quiet'
      BY <2>5 DEF Free, Quiet, StopReady
    <3> QED
      BY <2>3, <2>4, <2>6, <3>1, NothingLeftPhase
  <2>7. CASE /\ wdioWindow \notin {None, window}
             /\ op' = [op EXCEPT !.tab = wdioWindow] /\ steps' = <<"record">>
    <3>1. wdioWindow \in Tabs
      BY <2>7 DEF ControlInv, BrowserOK
    <3>2. op' \in Operations(callers) /\ op'.tab \in Tabs /\ op'.kind = "resume"
      BY <2>1, <2>2, <2>7, <3>1 DEF Operations
    <3>3. op' # None
      BY <3>2, OperationAssumption DEF Operations
    <3>4. Phase("record")' /\ steps' # <<>> /\ Head(steps') = "record"
      BY <2>5, <2>7 DEF Phase
    <3> QED
      BY <2>3, <2>4, <3>2, <3>3, <3>4, FirstStepPhase
  <2> QED
    BY <1>2, <2>2, <2>6, <2>7 DEF Successor
<1>3. CASE Complete
  <2>1. /\ At("complete") /\ Free
    BY <1>3, AtWord DEF Complete, Phase
  <2>2. /\ Continue /\ life' \in {"completed", "failed"}
        /\ UNCHANGED <<capture, window, slot, closing, unconfirmed>>
    BY <1>3 DEF Complete, session, gaps
  <2>3. Free'
    BY <2>1, <2>2 DEF Free
  <2> QED
    BY <2>1, <2>2, <2>3, UnderWay, ContinuePhase
<1>4. CASE ReleaseResources
  <2>1. /\ At("release") /\ Free /\ Planned(op.kind, "release", Tail(steps))
    BY <1>4, AtWord DEF ReleaseResources, Phase
  <2>2. op.kind = "teardown" /\ Tail(steps) = <<>>
    BY <2>1 DEF Planned, Stopping
  <2>3. UNCHANGED <<capture, window, slot, life, closing, unconfirmed>>
    BY <1>4 DEF ReleaseResources, session, gaps
  <2>4. Free'
    BY <2>1, <2>3 DEF Free
  <2>5. CASE Continue
    BY <2>1, <2>2, <2>3, <2>4, <2>5, UnderWay, ContinuePhase
  <2>6. CASE GoOn(<<"reset">>)
    <3>1. Phase("reset")' /\ "reset" \in Words \ {"record"} /\ capture' = None
      BY <2>4 DEF Phase, Words, Free
    <3>2. Planned(op.kind, "reset", Tail(steps))
      BY <2>2 DEF Planned
    <3> QED
      BY <2>1, <2>2, <2>3, <2>6, <3>1, <3>2, UnderWay, GoOnPhase
  <2> QED
    BY <1>4, <2>5, <2>6 DEF ReleaseResources
<1>5. CASE Reset
  <2>1. /\ At("reset") /\ Free /\ Planned(op.kind, "reset", Tail(steps))
    BY <1>5, AtWord DEF Reset, Phase
  <2>2. /\ Planned(op.kind, "forget", Tail(steps))
        /\ op.kind # "stop-closing"
    BY <2>1 DEF Planned, Stopping
  <2>3. /\ failure' = None /\ closing' = None /\ unconfirmed' = None
        /\ capture' = None /\ GoOn(<<"forget">>) /\ UNCHANGED <<slot, life>>
    BY <1>5 DEF Reset, ClearGaps
  <2>4. Phase("forget")' /\ "forget" \in Words \ {"record"}
    BY <2>1, <2>3 DEF Phase, Free, Words
  <2> QED
    BY <2>1, <2>2, <2>3, <2>4, GoOnPhase
<1>6. CASE Forget
  <2>1. /\ At("forget") /\ Free /\ Planned(op.kind, "forget", Tail(steps))
        /\ unconfirmed = None /\ closing = None
    BY <1>6, AtWord DEF Forget, Phase
  <2>2. op.kind # "stop-closing"
    BY <2>1 DEF Planned, Stopping
  <2>3. /\ slot' = FALSE /\ life' = "idle" /\ Continue
        /\ UNCHANGED <<capture, unconfirmed>>
    BY <1>6 DEF Forget, gaps
  <2>4. Free'
    BY <2>1, <2>3 DEF Free
  <2> QED
    BY <2>1, <2>2, <2>3, <2>4, ContinuePhase
<1>7. CASE Finish
  <2>1. steps = <<>> /\ PhaseOK
    BY <1>7 DEF Finish, ControlInv
  <2>2. UNCHANGED <<slug, window, capture, slot, life, closing, unconfirmed, steps>>
    BY <1>7 DEF Finish, session, gaps
  <2> QED
    BY <2>1, <2>2, NothingLeftPhase DEF PhaseOK, Quiet, StopReady
<1> QED
  BY <1>1, <1>2, <1>3, <1>4, <1>5, <1>6, <1>7

\* The chain does nothing to the browser's tabs itself.
LEMMA StepBrowser ==
    ASSUME Step
    PROVE  UNCHANGED browser
BY DEF Step, Begin, End, Follow, StopClosing, RecoverClose, Resume, Teardown,
       Record, Select, Acquire, Attach, StopNothing, Detach, Stopped,
       ReleaseSlot, FinalizeSegment, MarkClosing, Successor, Complete,
       ReleaseResources, Reset, Forget, Finish

LEMMA ControlStep ==
    ASSUME NEW callers \in SUBSET {"command", "runner"},
           ControlInv(callers), Step
    PROVE  ControlInv(callers)'
<1>1. /\ StepsOK' /\ QueueOK' /\ StateTypeOK'
      /\ op' \in Operations(callers) \union {None}
      /\ queue' \in Seq(Operations(callers))
  BY StepsStep, QueueStep, StateTypeStep, OpType
<1>2. ControlTypeOK(callers)'
  BY <1>1 DEF ControlTypeOK, StateTypeOK
<1>3. StationOK'
  BY TakeStation, StartStation, StopStation, RestStation DEF Step
<1>4. ChainOK'
  BY <1>1, <1>3 DEF QueueOK, ChainOK, StationOK, RecordsTab
<1>5. UNCHANGED browser
  BY StepBrowser
<1>6. BrowserOK'
  BY <1>5 DEF browser, BrowserOK, ControlInv
<1> QED
  BY <1>1, <1>2, <1>3, <1>4, <1>6 DEF ControlInv, StationOK

\* How a step moves the chain.
Taken == /\ op = None /\ queue # <<>> /\ steps = <<>>
         /\ op' = Head(queue) /\ queue' = Tail(queue)
Kept == op # None /\ op' = op /\ queue' = queue
Done == op # None /\ op' = None /\ queue' = queue /\ steps = <<>>

LEMMA ChainMoves ==
    ASSUME NEW callers \in SUBSET {"command", "runner"},
           ControlInv(callers), Step
    PROVE  Taken \/ Kept \/ Done \/ (Successor /\ op # None)
<1>1. CASE \/ Begin \/ End \/ Follow \/ StopClosing \/ RecoverClose \/ Resume
           \/ Teardown
  <2>1. \E kind : Take(kind)
    BY <1>1
    DEF Begin, End, Follow, StopClosing, RecoverClose, Resume, Teardown
  <2> QED
    BY <2>1 DEF Take, Taken, ControlInv, StepsOK
<1>2. CASE \/ Record \/ Select \/ Acquire \/ Attach \/ StopNothing \/ Detach
           \/ Stopped \/ ReleaseSlot \/ FinalizeSegment \/ MarkClosing
           \/ Complete \/ ReleaseResources \/ Reset \/ Forget
  <2>1. UNCHANGED <<queue, op>> /\ op # None
    BY <1>2
    DEF Record, Select, Acquire, Attach, StopNothing, Detach, Stopped,
        ReleaseSlot, FinalizeSegment, MarkClosing, Complete, ReleaseResources,
        Reset, Forget, Attached, NotAttached, StartFailed, GoOn, Continue,
        Abort, At
  <2> QED
    BY <2>1 DEF Kept
<1>3. CASE Successor
  BY <1>3 DEF Successor, At
<1>4. CASE Finish
  BY <1>4 DEF Finish, Done
<1> QED
  BY <1>1, <1>2, <1>3, <1>4 DEF Step

\* The chain settles promises and never unsettles one.
LEMMA SettledStep ==
    ASSUME NEW callers \in SUBSET {"command", "runner"},
           ControlInv(callers), Step,
           NEW by, Settled(by)
    PROVE  Settled(by)'
<1>1. queue \in Seq(Operations(callers)) /\ op \in Operations(callers) \union {None}
  BY DEF ControlInv, ControlTypeOK
<1>2. CASE Taken
  <2>1. /\ op' = queue[1] /\ 1 \in DOMAIN queue
        /\ \A i \in DOMAIN queue' : i + 1 \in DOMAIN queue
                                   /\ queue'[i] = queue[i + 1]
    BY <1>1, <1>2 DEF Taken
  <2> QED
    BY <2>1 DEF Settled
<1>3. CASE Kept \/ Done
  BY <1>3 DEF Kept, Done, Settled
<1>4. CASE Successor /\ op # None
  <2>1. op'.by = op.by /\ queue' = queue
    BY <1>1, <1>4 DEF Successor, Operations
  <2> QED
    BY <1>4, <2>1 DEF Settled
<1> QED
  BY <1>2, <1>3, <1>4, ChainMoves

----------------------------------------------------------------------------
(* What the controller's callers and the browser may do.                   *)

LEMMA ControlStarts ==
    ASSUME NEW callers \in SUBSET {"command", "runner"}, ControlInit, BrowserOK
    PROVE  ControlInv(callers)
<1>1. ControlTypeOK(callers)
  <2>1. /\ segments \in Seq(Tabs \union {None}) /\ segments = <<>>
        /\ queue \in Seq(Operations(callers))
        /\ slug = 0 /\ slug \in 0 .. MaxTests /\ begun \in 0 .. MaxTests
    BY FaultAssumption DEF ControlInit
  <2>2. /\ failedStarts \in [Tabs -> Nat]
        /\ results \in [Recordings -> {"none", "completed", "failed"}]
        /\ life \in LifecycleStates /\ slot \in BOOLEAN
    BY DEF ControlInit, LifecycleStates
  <2> QED
    BY <2>1, <2>2 DEF ControlInit, ControlTypeOK
<1>2. StepsOK /\ ChainOK /\ PhaseOK
  BY DEF ControlInit, StepsOK, ChainOK, PhaseOK, Quiet, StopReady
<1> QED
  BY <1>1, <1>2 DEF ControlInv

LEMMA JoinSettled ==
    ASSUME NEW callers \in SUBSET {"command", "runner"}, ControlInv(callers),
           NEW o, queue' = Append(queue, o), op' = op,
           NEW by, o.by # by, Settled(by)
    PROVE  Settled(by)'
<1>1. queue \in Seq(Operations(callers))
  BY DEF ControlInv, ControlTypeOK
<1>2. \A i \in DOMAIN queue' : (i \in DOMAIN queue /\ queue'[i] = queue[i])
                             \/ queue'[i] = o
  BY <1>1
<1> QED
  BY <1>2 DEF Settled

\* An operation a caller may put on the chain.
Joins(o) ==
    /\ queue' = Append(queue, o)
    /\ Settled(o.by) /\ HasTab(o) /\ OwnKind(o)
    /\ o.kind = "begin" => begun < MaxTests

LEMMA ControlStays ==
    ASSUME NEW callers \in SUBSET {"command", "runner"}, ControlInv(callers),
           UNCHANGED <<session, slot, life, gaps, op, steps, reports>>,
           BrowserOK',
           queue' = queue \/ \E o \in Operations(callers) : Joins(o)
    PROVE  ControlInv(callers)'
<1>1. /\ ControlTypeOK(callers) /\ StepsOK /\ ChainOK /\ PhaseOK
      /\ queue \in Seq(Operations(callers))
  BY DEF ControlInv, ControlTypeOK
<1>2. UNCHANGED <<slug, segments, window, capture, slot, life, failure, closing,
                  failedStarts, unconfirmed, op, steps, begun, results, spoiled,
                  broken>>
  BY DEF session, gaps, reports
<1>3. StepsOK'
  BY <1>1, <1>2 DEF StepsOK
<1>4. PhaseOK'
  <2>1. Quiet' <=> Quiet
    BY <1>2 DEF Quiet, StopReady
  <2>2. Phase(Head(steps))' <=> Phase(Head(steps))
    BY <1>2 DEF Phase, Free, StopReady, SegmentStarted
  <2> QED
    BY <1>1, <1>2, <2>1, <2>2 DEF PhaseOK
<1>5. queue' \in Seq(Operations(callers))
  BY <1>1 DEF Joins
<1>6. ControlTypeOK(callers)'
  BY <1>1, <1>2, <1>5 DEF ControlTypeOK
<1>7. ChainOK'
  <2>1. CASE queue' = queue
    BY <1>1, <1>2, <2>1 DEF ChainOK, HasTab, OwnKind
  <2>2. ASSUME NEW o \in Operations(callers), Joins(o) PROVE ChainOK'
    <3>1. /\ Len(queue) \in Nat /\ DOMAIN queue = 1 .. Len(queue)
          /\ DOMAIN queue' = 1 .. Len(queue) + 1
          /\ \A i \in DOMAIN queue : queue'[i] = queue[i]
          /\ queue'[Len(queue) + 1] = o
      BY <1>1, <2>2 DEF Joins
    <3>2. \A i \in DOMAIN queue' : i \in DOMAIN queue \/ i = Len(queue) + 1
      BY <3>1
    <3>3. /\ \A i \in DOMAIN queue : queue[i].by # o.by
          /\ op # None => op.by # o.by
      BY <2>2 DEF Joins, Settled
    <3>4. \A i, j \in DOMAIN queue' : queue'[i].by = queue'[j].by => i = j
      BY <1>1, <3>1, <3>2, <3>3, SMTT(30) DEF ChainOK
    <3>5. op # None => \A i \in DOMAIN queue' : queue'[i].by # op.by
      BY <1>1, <3>1, <3>2, <3>3, SMTT(30) DEF ChainOK
    <3>6. ASSUME NEW i \in DOMAIN queue'
          PROVE  /\ HasTab(queue'[i]) /\ OwnKind(queue'[i])
                 /\ queue'[i].kind = "begin" => begun < MaxTests
      BY <1>1, <2>2, <3>1, <3>2, <3>6 DEF ChainOK, Joins, HasTab, OwnKind
    <3>7. op # None => HasTab(op) /\ OwnKind(op)
      BY <1>1 DEF ChainOK
    <3>8. op # None /\ steps # <<>> /\ Head(steps) = "record" => op.tab \in Tabs
      BY <1>1 DEF ChainOK
    <3> QED
      BY <1>2, <3>4, <3>5, <3>6, <3>7, <3>8 DEF ChainOK, HasTab, OwnKind
  <2> QED
    BY <2>1, <2>2
<1> QED
  BY <1>3, <1>4, <1>6, <1>7 DEF ControlInv

----------------------------------------------------------------------------
(* What follows from the invariant.                                        *)

\* Between two operations slot, capture, lifecycle and selected tab agree.
LEMMA SlotFollows ==
    ASSUME NEW callers \in SUBSET {"command", "runner"}, ControlInv(callers)
    PROVE  SlotFollowsCapture
BY DEF ControlInv, StepsOK, PhaseOK, Quiet, StopReady, SlotFollowsCapture

\* Only startCapture attaches, and it finds a segment that was not filmed.
LEMMA FilmedOnceStep ==
    ASSUME NEW callers \in SUBSET {"command", "runner"},
           ControlInv(callers), Step,
           capture = None, capture' # None
    PROVE  ~SegmentStarted
<1>1. CASE Attach
  BY <1>1, AtWord DEF Attach, Phase
<1>2. CASE ~Attach
  <2>1. capture' \in {capture, None}
    BY <1>2
    DEF Step, Begin, End, Follow, StopClosing, RecoverClose, Resume, Teardown,
        Record, Select, Acquire, StopNothing, Detach, Stopped, ReleaseSlot,
        FinalizeSegment, MarkClosing, Successor, Complete, ReleaseResources,
        Reset, Forget, Finish, session
  <2> QED
    BY <2>1
<1> QED
  BY <1>1, <1>2

----------------------------------------------------------------------------
(* Layer 1, for every test: types, and who may be on the chain.            *)

FollowerTypeOK ==
    /\ currentWindow \in seen \union {None}
    /\ pendingSwitch \in Switches \union {None}
    /\ command \in Commands \union {None}
    /\ runner \in Runner
    /\ open \union introduced \union known \union held \subseteq seen
    /\ seen \subseteq Tabs
    /\ wdioWindow \in open \union {None}
    /\ command # None /\ command.kind \in {"drive", "switch", "close"}
          => command.tab \in seen

\* A hook waits for its operation before the next one can be called.
CallersWait ==
    /\ command = None \/ command.at \in {"sent", "answered"}
          => Settled("command")
    /\ runner \in {"between", "testing", "done"} => Settled("runner")

FollowerInv == ControlInv(Callers) /\ FollowerTypeOK /\ CallersWait

----------------------------------------------------------------------------
(* Layer 2, when no command outlasts its test: gaps have an owner.         *)

CommandInTest == command # None => runner \in {"between", "testing"}

\* The hooks of a command ask for an operation only while something is
\* recorded, and no recording ends before they have returned.
CommandRecorded == ~Settled("command") => slug # 0

GapsOwned ==
    /\ failure # None => slug # 0 /\ failure = slug
    /\ unconfirmed # None => slug # 0

SerialInv == FollowerInv /\ CommandInTest /\ CommandRecorded /\ GapsOwned

----------------------------------------------------------------------------
(* Layer 3, when the browser's tree can be read as well: gaps are found.   *)

Now(kinds, ats) ==
    command # None /\ command.kind \in kinds /\ command.at \in ats

\* The tab the command drives.
Driven == IF command.kind = "drive" THEN command.tab ELSE currentWindow

\* What a hook of the runner, or of the command under way, asked for.
HookFits(o) ==
    \/ /\ o.kind = "follow" /\ o.reason = "command"
       /\ Now({"drive", "current"}, {"run"}) /\ o.tab = Driven
    \/ /\ o.kind = "follow" /\ o.reason = "switch-to-window"
       /\ Now({"switch"}, {"run"}) /\ o.tab = command.tab
    \/ /\ o.kind = "follow" /\ o.reason = "switch-failed"
       /\ Now({"switch"}, {"settling"}) /\ o.tab # command.tab
    \/ /\ o.kind = "stop-closing" /\ o.reason = "command"
       /\ Now({"close"}, {"run"}) /\ o.tab = command.tab
    \/ /\ o.kind = "recover-close" /\ o.reason = "close-failed"
       /\ Now({"close"}, {"settling"}) /\ o.tab = command.tab
    \/ /\ o.kind = "resume" /\ o.reason = "tab-closed"
       /\ Now({"close", "closeWindow"}, {"settling"})
       /\ command.kind = "close" => ~command.failed

Fits(o) ==
    IF o.by = "runner"
    THEN o.kind \in {"begin", "end", "teardown"} /\ o.reason = "start"
    ELSE HookFits(o)

OperationsFit ==
    /\ op # None => Fits(op)
    /\ \A i \in DOMAIN queue : Fits(queue[i])

TabsSeen ==
    /\ window \in seen \union {None}
    /\ op # None => op.tab \in seen \union {None}
    /\ \A i \in DOMAIN queue : queue[i].tab \in seen \union {None}

\* The test drives what it holds, and the follower was introduced to that.
Introduced ==
    /\ Now({"drive"}, {"sent"}) => command.tab \in held
    /\ Now({"handles", "create"}, {"answered"}) \/ held \subseteq introduced
    /\ runner = "reloading" => held = {}

\* A switch is pending from the hook before it to the hook after it.
SwitchPending ==
    /\ pendingSwitch # None =>
          /\ Now({"switch"}, {"run", "answered"})
          /\ pendingSwitch.tab = command.tab
          /\ currentWindow = command.tab
          /\ command.tab \in held => pendingSwitch.wasIntroduced
    /\ Now({"switch"}, {"run"}) /\ pendingSwitch = None
          => command.tab \notin open
    /\ Now({"switch"}, {"answered"}) /\ ~command.failed =>
          /\ pendingSwitch # None
          /\ wdioWindow \in {None, command.tab}

\* The follower remembers WDIO's current window, or nothing.
CurrentKnown ==
    runner # "reloading" /\ pendingSwitch = None
        => currentWindow = None \/ wdioWindow \in {None, currentWindow}

\* A tab is closing only during its close command, and one of the operations
\* of that command settles what became of it.
ClosingSettled ==
    /\ closing # None =>
          /\ slug # 0
          /\ Now({"close"}, {"run", "answered", "settling"})
          /\ command.tab = closing
          /\ command.at = "settling" =>
                \/ \E i \in DOMAIN queue :
                      queue[i].kind \in {"recover-close", "resume"}
                \/ /\ op # None /\ op.kind = "resume"
                   /\ steps # <<>> /\ Head(steps) = "next"
    /\ Now({"close"}, {"answered", "settling"}) /\ ~command.failed
          => command.tab \notin open

\* A recording is known to be incomplete.
Known == failure # None \/ slug \in broken

\* A selected tab that is open and not filmed is a gap, or about to be one.
WindowCovered ==
    /\ steps = <<>> /\ slug # 0 /\ capture = None /\ window \in open
          => Known \/ unconfirmed = window \/ closing = window
    /\ op # None /\ op.kind = "resume" /\ steps # <<>> =>
          (Head(steps) \in Stopping \union {"next"} => window \notin open)

\* The gap of a switch that may yet be rejected is that switch's tab.
GapOfSwitch ==
    /\ op # None /\ op.reason = "switch-to-window"
          => unconfirmed \in {None, op.tab}
    /\ pendingSwitch # None /\ Settled("command")
          => unconfirmed \in {None, command.tab}
    /\ (\E i \in DOMAIN queue : queue[i].reason = "switch-failed")
          => unconfirmed \in {None, command.tab}

\* When the hook before a command returns, the driven tab is filmed or a gap.
Covered(tab) == tab \in open => capture = tab \/ Known
DrivenCovered ==
    /\ op # None /\ op.kind = "follow" /\ op.reason = "command" =>
          (steps = <<>> => Covered(op.tab))
    /\ Now({"drive", "current"}, {"run"}) /\ Settled("command") /\ slug # 0
          => Covered(Driven)
    /\ Now({"current"}, {"run"}) /\ currentWindow = None => wdioWindow = None

\* Every gap of the recording is known until the recording is forgotten.
GapsKnown ==
    \/ slug \notin missed \union spoiled
    \/ Known
    \/ steps # <<>> /\ Head(steps) = "forget"

\* A verdict is final.
Verdicts ==
    /\ slug <= begun
    /\ missed \union spoiled \subseteq 1 .. begun
    /\ \A r \in Recordings : results[r] = "completed" =>
          /\ r <= begun
          /\ r \notin (missed \union spoiled) \ broken
          /\ r = slug => /\ op # None /\ op.kind = "end" /\ steps # <<>>
                         /\ Head(steps) \in {"reset", "forget"}

CompleteInv ==
    /\ SerialInv /\ OperationsFit /\ TabsSeen /\ Introduced /\ SwitchPending
    /\ CurrentKnown /\ ClosingSettled /\ WindowCovered /\ GapOfSwitch
    /\ DrivenCovered /\ GapsKnown /\ Verdicts

----------------------------------------------------------------------------
(* Layer 1: every behaviour.                                               *)

LEMMA CallersAreNames == Callers \in SUBSET {"command", "runner"}
BY DEF Callers

\* The kinds of operation a command's hooks ask for.
HookKinds == {"follow", "stop-closing", "recover-close", "resume"}

\* What a command's hook may do to the chain.
HookQueue ==
    \/ queue' = queue
    \/ \E kind \in HookKinds, tab \in Tabs \union {None}, reason \in Reasons :
          /\ Enqueue(kind, tab, reason, "command")
          /\ kind # "resume" => tab \in Tabs
          /\ slug # 0

LEMMA AskQueue ==
    ASSUME NEW kind \in HookKinds, NEW tab \in Tabs \union {None},
           kind # "resume" => tab \in Tabs,
           NEW reason \in Reasons, Ask(kind, tab, reason)
    PROVE  HookQueue
BY DEF Ask, HookQueue

LEMMA FollowQueue ==
    ASSUME NEW tab \in Tabs, NEW reason \in Reasons, FollowTab(tab, reason)
    PROVE  HookQueue
<1>1. CASE queue' = queue
  BY <1>1 DEF HookQueue
<1>2. CASE Ask("follow", tab, reason)
  BY <1>2, AskQueue DEF HookKinds
<1> QED
  BY <1>1, <1>2 DEF FollowTab

\* A hook leaves the controller sound, and the runner's promises alone.
LEMMA HookControl ==
    ASSUME FollowerInv, HookUnchanged, HookQueue, Settled("command"), BrowserOK'
    PROVE  /\ ControlInv(Callers)'
           /\ Settled("runner") => Settled("runner")'
           /\ queue' = queue => Settled("command")'
<1>1. UNCHANGED <<session, slot, life, gaps, op, steps, reports>> /\ op' = op
  BY DEF HookUnchanged
<1>2. CASE queue' = queue
  <2>1. ControlInv(Callers)'
    BY <1>1, <1>2, CallersAreNames, ControlStays DEF FollowerInv
  <2>2. \A by : Settled(by)' <=> Settled(by)
    BY <1>1, <1>2 DEF Settled
  <2> QED
    BY <2>1, <2>2
<1>3. ASSUME NEW kind \in HookKinds, NEW tab \in Tabs \union {None},
             NEW reason \in Reasons, Enqueue(kind, tab, reason, "command"),
             kind # "resume" => tab \in Tabs
      PROVE  /\ ControlInv(Callers)'
             /\ Settled("runner") => Settled("runner")'
             /\ queue' # queue
  <2> DEFINE o == [kind |-> kind, tab |-> tab, reason |-> reason,
                   by |-> "command"]
  <2>1. o \in Operations(Callers) /\ queue' = Append(queue, o)
    BY <1>3 DEF Operations, Kinds, HookKinds, Callers, Enqueue
  <2>2. /\ o.by = "command" /\ HasTab(o) /\ OwnKind(o) /\ o.kind # "begin"
    BY <1>3 DEF HasTab, OwnKind, HookKinds
  <2> HIDE DEF o
  <2>3. Joins(o)
    BY <2>1, <2>2 DEF Joins
  <2>4. ControlInv(Callers)'
    BY <1>1, <2>1, <2>3, CallersAreNames, ControlStays DEF FollowerInv
  <2>5. Settled("runner") => Settled("runner")'
    <3>1. o.by # "runner"
      BY <2>2
    <3> QED
      BY <1>1, <2>1, <3>1, CallersAreNames, JoinSettled DEF FollowerInv
  <2>6. queue \in Seq(Operations(Callers))
    BY DEF FollowerInv, ControlInv, ControlTypeOK
  <2>7. Len(queue') # Len(queue)
    BY <2>1, <2>6
  <2> QED
    BY <2>4, <2>5, <2>7
<1> QED
  BY <1>2, <1>3 DEF HookQueue

\* The command's record, one step further.
LEMMA CommandMoves ==
    ASSUME command \in Commands,
           NEW a \in {"sent", "run", "answered", "settling"},
           NEW f \in BOOLEAN,
           \/ command' = [command EXCEPT !.at = a]
           \/ command' = [command EXCEPT !.at = a, !.failed = f]
    PROVE  /\ command' \in Commands /\ command' # None
           /\ command'.at = a /\ command'.kind = command.kind
           /\ command'.tab = command.tab
<1>1. /\ command' \in Commands
      /\ command'.at = a /\ command'.kind = command.kind
      /\ command'.tab = command.tab
  BY DEF Commands
<1> QED
  BY <1>1, CommandAssumption

LEMMA TabsAreSeen ==
    ASSUME FollowerTypeOK
    PROVE  BrowserOK /\ (currentWindow \in Tabs \union {None})
BY DEF FollowerTypeOK, BrowserOK

----------------------------------------------------------------------------
(* The hooks before a command.                                             *)

LEMMA BeforeKeepsInv ==
    ASSUME FollowerInv,
           BeforeCurrent \/ BeforeDrive \/ BeforeSwitch \/ BeforeClose
              \/ BeforeOther
    PROVE  FollowerInv'
<1>0. /\ FollowerTypeOK /\ BrowserOK /\ CallersWait /\ Settled("command")
      /\ command \in Commands /\ command # None /\ Proceed("run")
      /\ HookUnchanged /\ currentWindow \in Tabs \union {None}
  BY TabsAreSeen
  DEF FollowerInv, FollowerTypeOK, CallersWait, BeforeCurrent, BeforeDrive,
      BeforeSwitch, BeforeClose, BeforeOther, Sent
<1>1. /\ command' \in Commands /\ command' # None /\ command'.at = "run"
      /\ command'.kind = command.kind /\ command'.tab = command.tab
  BY <1>0, CommandMoves DEF Proceed
<1>2. /\ UNCHANGED <<open, wdioWindow, runner, held, seen>>
  BY <1>0 DEF HookUnchanged, browser
<1>3. ASSUME HookQueue,
             currentWindow' \in seen \union {None},
             introduced' \subseteq seen, known' \subseteq seen,
             pendingSwitch' \in Switches \union {None}
      PROVE  FollowerInv'
  <2>1. FollowerTypeOK'
    BY <1>0, <1>1, <1>2, <1>3 DEF FollowerTypeOK
  <2>2. /\ ControlInv(Callers)'
        /\ Settled("runner") => Settled("runner")'
    BY <1>0, <1>3, <2>1, TabsAreSeen, HookControl DEF FollowerTypeOK, BrowserOK
  <2>3. CallersWait'
    BY <1>0, <1>1, <1>2, <2>2 DEF CallersWait
  <2> QED
    BY <2>1, <2>2, <2>3 DEF FollowerInv
<1>r. {"command", "switch-to-window"} \subseteq Reasons
  BY DEF Reasons
<1>l. ASSUME NEW tab, NEW read, LookUp(tab, read) PROVE known' \subseteq seen
  BY <1>0, <1>l DEF LookUp, FollowerTypeOK
<1>4. CASE BeforeCurrent
  <2> DEFINE current == CurrentWindow(currentWindow)
  <2>1. current \in seen \union {None} /\ current \in Tabs \union {None}
    BY <1>0 DEF CurrentWindow, FollowerTypeOK, BrowserOK
  <2>2. /\ currentWindow' = current
        /\ introduced' = introduced \union ({current} \ {None})
        /\ known' = known /\ pendingSwitch' = pendingSwitch
        /\ IF current = None THEN UNCHANGED queue
           ELSE FollowTab(current, "command")
    BY <1>4 DEF BeforeCurrent
  <2> HIDE DEF current
  <2>3. HookQueue
    BY <1>r, <2>1, <2>2, FollowQueue DEF HookQueue
  <2> QED
    BY <1>0, <1>3, <2>1, <2>2, <2>3 DEF FollowerTypeOK
<1>5. CASE BeforeDrive
  <2>1. command.tab \in Tabs
    BY <1>0, <1>5 DEF BeforeDrive, Sent, FollowerTypeOK
  <2>2. HookQueue
    BY <1>5, <1>r, <2>1, FollowQueue DEF BeforeDrive, HookQueue
  <2>3. /\ UNCHANGED <<currentWindow, introduced, pendingSwitch>>
        /\ known' \subseteq seen
    BY <1>0, <1>5, <1>l DEF BeforeDrive, FollowerTypeOK
  <2> QED
    BY <1>0, <1>3, <2>2, <2>3 DEF FollowerTypeOK
<1>6. CASE BeforeSwitch
  <2>1. command.tab \in Tabs /\ command.tab \in seen
    BY <1>0, <1>6 DEF BeforeSwitch, Sent, FollowerTypeOK
  <2>2. HookQueue
    BY <1>6, <1>r, <2>1, FollowQueue DEF BeforeSwitch, HookQueue
  <2>3. /\ known' \subseteq seen
        /\ currentWindow' \in {currentWindow, command.tab}
        /\ introduced' \subseteq introduced \union {command.tab}
    BY <1>0, <1>6, <1>l DEF BeforeSwitch
  <2>4. pendingSwitch' \in Switches \union {None}
    <3> DEFINE was == command.tab \in introduced
               new == [tab |-> command.tab, wasIntroduced |-> was]
    <3>1. was \in BOOLEAN
      OBVIOUS
    <3>2. pendingSwitch' = new \/ pendingSwitch' = pendingSwitch
      BY <1>6 DEF BeforeSwitch
    <3> HIDE DEF was
    <3>3. new \in Switches
      BY <2>1, <3>1 DEF Switches
    <3> QED
      BY <1>0, <3>2, <3>3, Zenon DEF FollowerTypeOK
  <2> QED
    BY <1>0, <1>3, <2>1, <2>2, <2>3, <2>4 DEF FollowerTypeOK
<1>7. CASE BeforeClose
  <2>1. command.tab \in Tabs
    BY <1>0, <1>7 DEF BeforeClose, Sent, FollowerTypeOK
  <2>2. HookQueue
    <3>1. Ask("stop-closing", command.tab, "command") => HookQueue
      BY <1>r, <2>1, AskQueue DEF HookKinds
    <3> QED
      BY <1>7, <3>1 DEF BeforeClose, HookQueue
  <2>3. /\ UNCHANGED <<currentWindow, introduced, pendingSwitch>>
        /\ known' \subseteq seen
    BY <1>0, <1>7, <1>l DEF BeforeClose, FollowerTypeOK
  <2> QED
    BY <1>0, <1>3, <2>2, <2>3 DEF FollowerTypeOK
<1>8. CASE BeforeOther
  <2>1. UNCHANGED <<currentWindow, introduced, pendingSwitch, known, queue>>
    BY <1>8 DEF BeforeOther, follower
  <2> QED
    BY <1>0, <1>3, <2>1 DEF FollowerTypeOK, HookQueue
<1> QED
  BY <1>4, <1>5, <1>6, <1>7, <1>8

----------------------------------------------------------------------------
(* The browser runs the command.                                           *)

\* Nothing but the browser, the follower and the test changes.
LEMMA ControllerRests ==
    ASSUME FollowerInv, BrowserOK',
           UNCHANGED <<session, slot, life, gaps, op, steps, reports, queue>>
    PROVE  ControlInv(Callers)' /\ \A by : Settled(by)' <=> Settled(by)
<1>1. ControlInv(Callers)'
  BY CallersAreNames, ControlStays DEF FollowerInv
<1>2. op' = op /\ queue' = queue
  OBVIOUS
<1> QED
  BY <1>1, <1>2 DEF Settled

LEMMA RunKeepsInv ==
    ASSUME FollowerInv,
           Drive \/ Switch \/ Close \/ CloseWindow \/ Hand \/ CannotHand
    PROVE  FollowerInv'
<1>0. /\ FollowerTypeOK /\ CallersWait /\ Settled("command")
      /\ command \in Commands /\ command # None
      /\ Answer(TRUE) \/ Answer(FALSE)
      /\ UNCHANGED <<session, slot, life, gaps, op, steps, reports, queue>>
      /\ UNCHANGED <<currentWindow, introduced, pendingSwitch, known, runner>>
  BY DEF FollowerInv, FollowerTypeOK, Drive, Switch, Close, CloseWindow, Hand,
         CannotHand, Running, BrowserUnchanged, follower, chain
<1>1. /\ command' \in Commands /\ command' # None
      /\ command'.kind = command.kind /\ command'.tab = command.tab
  BY <1>0, CommandMoves DEF Answer
<1>2. /\ seen \subseteq seen' /\ seen' \subseteq Tabs
      /\ open' \subseteq seen' /\ held' \subseteq seen'
      /\ wdioWindow' \in open' \union {None}
  <2>1. CASE Drive
    BY <1>0, <2>1 DEF Drive, browser, FollowerTypeOK
  <2>2. CASE Switch
    BY <1>0, <2>2 DEF Switch, FollowerTypeOK
  <2>3. CASE Close
    BY <1>0, <2>3 DEF Close, ClosesTab, browser, FollowerTypeOK
  <2>4. CASE CloseWindow
    BY <1>0, <2>4 DEF CloseWindow, ClosesTab, browser, FollowerTypeOK
  <2>5. CASE Hand
    BY <1>0, <2>5 DEF Hand, browser, FollowerTypeOK
  <2>6. CASE CannotHand
    BY <1>0, <2>6 DEF CannotHand, browser, FollowerTypeOK
  <2> QED
    BY <2>1, <2>2, <2>3, <2>4, <2>5, <2>6
<1>3. FollowerTypeOK'
  BY <1>0, <1>1, <1>2 DEF FollowerTypeOK
<1>4. ControlInv(Callers)' /\ \A by : Settled(by)' <=> Settled(by)
  BY <1>0, <1>2, ControllerRests DEF BrowserOK
<1>5. CallersWait'
  BY <1>0, <1>4 DEF CallersWait
<1> QED
  BY <1>3, <1>4, <1>5 DEF FollowerInv

----------------------------------------------------------------------------
(* The hooks after a command.                                              *)

LEMMA RecoverQueue ==
    ASSUME FollowerTypeOK, pendingSwitch # None, RecoverFailedSwitch
    PROVE  /\ HookQueue
           /\ currentWindow' \in seen \union {None}
           /\ introduced' \subseteq seen /\ known' \subseteq seen
<1> DEFINE tab == pendingSwitch.tab
           remembered == IF currentWindow = tab THEN None ELSE currentWindow
           current == CurrentWindow(remembered)
<1>1. current \in seen \union {None} /\ current \in Tabs \union {None}
  BY DEF CurrentWindow, FollowerTypeOK
<1>2. /\ known' = known \ {tab} /\ currentWindow' = current
      /\ introduced' \subseteq introduced \union ({current} \ {None})
      /\ queue' = queue \/ (current # None /\ FollowTab(current, "switch-failed"))
  BY DEF RecoverFailedSwitch
<1> HIDE DEF current
<1>3. HookQueue
  <2>1. "switch-failed" \in Reasons
    BY DEF Reasons
  <2> QED
    BY <1>1, <1>2, <2>1, FollowQueue DEF HookQueue
<1> QED
  BY <1>1, <1>2, <1>3 DEF FollowerTypeOK

LEMMA AfterKeepsInv ==
    ASSUME FollowerInv,
           AfterHand \/ AfterDrive \/ AfterSwitch \/ AfterClose
              \/ AfterCloseWindow
    PROVE  FollowerInv'
<1>0. /\ FollowerTypeOK /\ BrowserOK /\ CallersWait /\ Settled("command")
      /\ command \in Commands /\ command # None
      /\ HookUnchanged
  BY TabsAreSeen
  DEF FollowerInv, FollowerTypeOK, CallersWait, Answered, AfterHand, AfterDrive,
      AfterSwitch, AfterClose, AfterCloseWindow
<1>2. UNCHANGED <<open, wdioWindow, runner, held, seen>>
  BY <1>0 DEF HookUnchanged, browser
<1>3. ASSUME HookQueue,
             \/ command' = None /\ queue' = queue
             \/ Proceed("settling"),
             currentWindow' \in seen \union {None},
             introduced' \subseteq seen, known' \subseteq seen,
             pendingSwitch' \in {pendingSwitch, None}
      PROVE  FollowerInv'
  <2>0. \/ command' = None /\ queue' = queue
        \/ /\ command' \in Commands /\ command' # None
           /\ command'.at = "settling"
           /\ command'.kind = command.kind /\ command'.tab = command.tab
    BY <1>0, <1>3, CommandMoves DEF Proceed
  <2>1. FollowerTypeOK'
    BY <1>0, <1>2, <1>3, <2>0 DEF FollowerTypeOK
  <2>2. /\ ControlInv(Callers)'
        /\ Settled("runner") => Settled("runner")'
        /\ queue' = queue => Settled("command")'
    BY <1>0, <1>3, <2>1, TabsAreSeen, HookControl DEF FollowerTypeOK, BrowserOK
  <2>3. CallersWait'
    BY <1>0, <1>2, <2>0, <2>2 DEF CallersWait
  <2> QED
    BY <2>1, <2>2, <2>3 DEF FollowerInv
<1>4. CASE AfterHand
  <2>1. /\ queue' = queue /\ command' = None
        /\ UNCHANGED <<currentWindow, pendingSwitch, known>>
        /\ introduced' = introduced \union held
    BY <1>4 DEF AfterHand
  <2> QED
    BY <1>0, <1>3, <2>1 DEF HookQueue, FollowerTypeOK
<1>5. CASE AfterDrive
  <2>1. /\ queue' = queue /\ command' = None
        /\ UNCHANGED <<currentWindow, pendingSwitch, known, introduced>>
    BY <1>5 DEF AfterDrive, follower
  <2> QED
    BY <1>0, <1>3, <2>1 DEF HookQueue, FollowerTypeOK
<1>6. CASE AfterSwitch
  <2>1. /\ Proceed("settling") /\ pendingSwitch' = None
        /\ \/ pendingSwitch # None /\ RecoverFailedSwitch
           \/ UNCHANGED <<known, introduced, currentWindow, queue>>
    BY <1>6 DEF AfterSwitch
  <2>2. CASE UNCHANGED <<known, introduced, currentWindow, queue>>
    BY <1>0, <1>3, <2>1, <2>2 DEF HookQueue, FollowerTypeOK
  <2>3. CASE pendingSwitch # None /\ RecoverFailedSwitch
    BY <1>0, <1>3, <2>1, <2>3, RecoverQueue
  <2> QED
    BY <2>1, <2>2, <2>3
<1>7. CASE AfterClose \/ AfterCloseWindow
  <2>1. /\ Proceed("settling") /\ currentWindow' \in {currentWindow, None}
        /\ UNCHANGED <<introduced, pendingSwitch, known>>
    BY <1>7 DEF AfterClose, AfterCloseWindow
  <2>2. HookQueue
    <3>1. {"close-failed", "tab-closed"} \subseteq Reasons
      BY DEF Reasons
    <3>2. Ask("resume", None, "tab-closed") => HookQueue
      BY <3>1, AskQueue DEF HookKinds
    <3>3. CASE AfterCloseWindow
      BY <3>2, <3>3 DEF AfterCloseWindow
    <3>4. CASE AfterClose
      <4>1. command.tab \in Tabs
        BY <1>0, <3>4 DEF AfterClose, Answered, FollowerTypeOK
      <4>2. Ask("recover-close", command.tab, "close-failed") => HookQueue
        BY <3>1, <4>1, AskQueue DEF HookKinds
      <4> QED
        BY <3>2, <3>4, <4>2 DEF AfterClose
    <3> QED
      BY <1>7, <3>3, <3>4
  <2> QED
    BY <1>0, <1>3, <2>1, <2>2 DEF FollowerTypeOK
<1> QED
  BY <1>4, <1>5, <1>6, <1>7

----------------------------------------------------------------------------
(* The test, its pages, the runner and the chain.                          *)

LEMMA ChainKeepsInv ==
    ASSUME FollowerInv, ChainStep
    PROVE  FollowerInv'
<1>1. /\ UNCHANGED browser /\ ControlInv(Callers)'
      /\ \A by : Settled(by) => Settled(by)'
  BY CallersAreNames, StepBrowser, ControlStep, SettledStep
  DEF ChainStep, FollowerInv
<1>2. UNCHANGED <<currentWindow, introduced, pendingSwitch, known, command, runner,
                  held, seen, open, wdioWindow>>
  BY <1>1 DEF ChainStep, follower, test, browser
<1>3. FollowerTypeOK' /\ CallersWait'
  BY <1>1, <1>2 DEF FollowerInv, FollowerTypeOK, CallersWait
<1> QED
  BY <1>1, <1>3 DEF FollowerInv

LEMMA TestKeepsInv ==
    ASSUME FollowerInv, Send \/ PageOpens \/ PageCloses \/ Returned
    PROVE  FollowerInv'
<1>0. FollowerTypeOK /\ CallersWait /\ BrowserOK
  BY TabsAreSeen DEF FollowerInv
<1>1. /\ UNCHANGED <<session, slot, life, gaps, op, steps, reports, queue>>
      /\ UNCHANGED <<currentWindow, introduced, pendingSwitch, known, runner, held>>
  BY DEF Send, PageOpens, PageCloses, Returned, controlVars, chain, follower,
         test, TestUnchanged
<1>2. /\ seen \subseteq seen' /\ seen' \subseteq Tabs
      /\ open' \subseteq seen'
      /\ wdioWindow' \in open' \union {None}
  <2>1. CASE Send \/ Returned
    BY <1>0, <2>1 DEF Send, Returned, controlVars, browser, FollowerTypeOK
  <2>2. CASE PageOpens
    BY <1>0, <2>2 DEF PageOpens, FollowerTypeOK
  <2>3. CASE PageCloses
    BY <1>0, <2>3 DEF PageCloses, ClosesTab, FollowerTypeOK
  <2> QED
    BY <2>1, <2>2, <2>3
<1>3. /\ command' \in Commands \union {None}
      /\ command' # None /\ command'.kind \in {"drive", "switch", "close"}
            => command'.tab \in seen'
  <2>1. CASE Send
    <3>1. PICK kind \in CommandKinds : \E tab \in Nameable(kind) :
             command' = [kind |-> kind, tab |-> tab, at |-> "sent",
                         failed |-> FALSE]
      BY <2>1 DEF Send
    <3>2. PICK tab \in Nameable(kind) :
             command' = [kind |-> kind, tab |-> tab, at |-> "sent",
                         failed |-> FALSE]
      BY <3>1
    <3>3. /\ tab \in Tabs \union {None}
          /\ kind \in {"drive", "switch", "close"} => tab \in seen
      BY <1>0, <3>2 DEF Nameable, FollowerTypeOK
    <3>4. command' \in Commands
      BY <3>2, <3>3 DEF Commands
    <3>5. command'.kind = kind /\ command'.tab = tab
      BY <3>2
    <3> QED
      BY <1>2, <3>3, <3>4, <3>5
  <2>2. CASE command' = None
    BY <2>2
  <2>3. CASE PageOpens \/ PageCloses
    BY <1>0, <1>2, <2>3 DEF PageOpens, PageCloses, test, FollowerTypeOK
  <2> QED
    BY <2>1, <2>2, <2>3 DEF Returned
<1>4. FollowerTypeOK'
  BY <1>0, <1>1, <1>2, <1>3 DEF FollowerTypeOK
<1>5. ControlInv(Callers)' /\ \A by : Settled(by)' <=> Settled(by)
  BY <1>1, <1>2, ControllerRests DEF BrowserOK
<1>6. CallersWait'
  <2>1. CASE Send
    BY <1>0, <1>1, <1>5, <2>1 DEF Send, CallersWait
  <2>2. CASE Returned
    BY <1>0, <1>1, <1>5, <2>2 DEF Returned, CallersWait
  <2>3. CASE PageOpens \/ PageCloses
    BY <1>0, <1>1, <1>5, <2>3 DEF PageOpens, PageCloses, test, CallersWait
  <2> QED
    BY <2>1, <2>2, <2>3
<1> QED
  BY <1>4, <1>5, <1>6 DEF FollowerInv

LEMMA RunnerKeepsInv ==
    ASSUME FollowerInv,
           HookReturns \/ Reloaded \/ EndTest \/ BeginTest \/ Reload \/ After
    PROVE  FollowerInv'
<1>0. /\ FollowerTypeOK /\ CallersWait
      /\ UNCHANGED <<session, slot, life, gaps, op, steps, reports, command>>
      /\ op' = op
  BY DEF FollowerInv, HookReturns, Reloaded, EndTest, BeginTest, Reload, After,
         RunnerMoves, TestUnchanged
<1>1. /\ seen \subseteq seen' /\ seen' \subseteq Tabs /\ open' \subseteq seen'
      /\ wdioWindow' \in open' \union {None}
      /\ held' \subseteq seen' /\ introduced' \subseteq seen
      /\ known' \subseteq seen /\ currentWindow' \in seen \union {None}
      /\ pendingSwitch' \in Switches \union {None}
      /\ runner' \in Runner
  <2>1. CASE HookReturns
    BY <1>0, <2>1 DEF HookReturns, RunnerMoves, browser, follower, FollowerTypeOK,
                      Runner
  <2>2. CASE Reloaded
    BY <1>0, <2>2 DEF Reloaded, RunnerMoves, browser, FollowerTypeOK, Runner
  <2>3. CASE EndTest
    BY <1>0, <2>3 DEF EndTest, RunnerMoves, browser, follower, FollowerTypeOK,
                      Runner
  <2>4. CASE BeginTest \/ After
    BY <1>0, <2>4 DEF BeginTest, After, RunnerMoves, browser, follower,
                      FollowerTypeOK, Runner
  <2>5. CASE Reload
    BY <1>0, <2>5 DEF Reload, RunnerMoves, follower, FollowerTypeOK, Runner
  <2> QED
    BY <2>1, <2>2, <2>3, <2>4, <2>5
<1>2. FollowerTypeOK' /\ BrowserOK'
  <2>1. FollowerTypeOK'
    BY <1>0, <1>1 DEF FollowerTypeOK
  <2> QED
    BY <1>1, <2>1 DEF BrowserOK
<1>3. CASE queue' = queue
  <2>1. ControlInv(Callers)' /\ \A by : Settled(by)' <=> Settled(by)
    BY <1>0, <1>2, <1>3, ControllerRests
  <2>2. CallersWait'
    <3>1. HookReturns \/ Reloaded => Settled("runner")
      BY DEF HookReturns, Reloaded
    <3>2. BeginTest \/ Reload \/ After => queue' # queue
      <4>1. queue \in Seq(Operations(Callers))
        BY DEF FollowerInv, ControlInv, ControlTypeOK
      <4>2. \A o : Len(Append(queue, o)) # Len(queue)
        BY <4>1
      <4> QED
        BY <4>2 DEF BeginTest, Reload, After, Enqueue
    <3>3. EndTest => runner' = "ending"
      BY DEF EndTest, RunnerMoves
    <3> QED
      BY <1>0, <1>3, <2>1, <3>1, <3>2, <3>3 DEF CallersWait
  <2> QED
    BY <1>2, <2>1, <2>2 DEF FollowerInv
<1>4. ASSUME NEW kind \in {"begin", "end", "teardown"},
             Enqueue(kind, None, "start", "runner"),
             kind = "begin" => begun < MaxTests,
             runner \in {"between", "testing"},
             runner' \notin {"between", "testing", "done"}
      PROVE  FollowerInv'
  <2> DEFINE o == [kind |-> kind, tab |-> None, reason |-> "start",
                   by |-> "runner"]
  <2>1. o \in Operations(Callers) /\ queue' = Append(queue, o)
    BY <1>4 DEF Operations, Kinds, Reasons, Callers, Enqueue
  <2>2. /\ o.by = "runner" /\ o.kind = kind /\ HasTab(o) /\ OwnKind(o)
    BY <1>4 DEF HasTab, OwnKind
  <2> HIDE DEF o
  <2>3. Settled("runner")
    BY <1>0, <1>4 DEF CallersWait
  <2>4. Joins(o)
    BY <1>4, <2>1, <2>2, <2>3 DEF Joins
  <2>5. ControlInv(Callers)'
    BY <1>0, <1>2, <2>1, <2>4, CallersAreNames, ControlStays DEF FollowerInv
  <2>6. Settled("command") => Settled("command")'
    <3>1. o.by # "command"
      BY <2>2
    <3> QED
      BY <1>0, <2>1, <3>1, CallersAreNames, JoinSettled DEF FollowerInv
  <2>7. CallersWait'
    BY <1>0, <1>4, <2>6 DEF CallersWait
  <2> QED
    BY <1>2, <2>5, <2>7 DEF FollowerInv
<1>5. CASE HookReturns \/ Reloaded
  BY <1>3, <1>5 DEF HookReturns, Reloaded
<1>6. CASE EndTest
  BY <1>3, <1>4, <1>6 DEF EndTest, RunnerMoves
<1>7. CASE BeginTest
  BY <1>4, <1>7 DEF BeginTest, RunnerMoves
<1>8. CASE Reload \/ After
  BY <1>4, <1>8 DEF Reload, After, RunnerMoves
<1> QED
  BY <1>5, <1>6, <1>7, <1>8

LEMMA FollowerInit ==
    ASSUME Init
    PROVE  FollowerInv
<1>1. BrowserOK /\ ControlInit
  BY FirstTabAssumption DEF Init, BrowserOK
<1>2. ControlInv(Callers)
  BY <1>1, CallersAreNames, ControlStarts
<1>3. FollowerTypeOK
  BY FirstTabAssumption DEF Init, FollowerTypeOK, Runner
<1>4. CallersWait
  BY <1>1 DEF ControlInit, CallersWait, Settled
<1> QED
  BY <1>2, <1>3, <1>4 DEF FollowerInv

LEMMA FollowerStays ==
    ASSUME FollowerInv, UNCHANGED vars
    PROVE  FollowerInv'
<1>1. UNCHANGED <<session, slot, life, gaps, op, steps, reports, queue>>
  BY DEF vars, controlVars, chain
<1>2. UNCHANGED <<currentWindow, introduced, pendingSwitch, known, command,
                  runner, held, seen, open, wdioWindow>>
  BY DEF vars, controlVars, follower, test, browser
<1>3. FollowerTypeOK' /\ BrowserOK'
  BY <1>2, TabsAreSeen DEF FollowerInv, FollowerTypeOK, BrowserOK
<1>4. ControlInv(Callers)' /\ \A by : Settled(by)' <=> Settled(by)
  BY <1>1, <1>3, ControllerRests
<1> QED
  BY <1>2, <1>3, <1>4 DEF FollowerInv, CallersWait

LEMMA FollowerStep ==
    ASSUME FollowerInv, Next
    PROVE  FollowerInv'
<1>1. Finished => UNCHANGED vars
  BY DEF Finished
<1> QED
  BY <1>1, BeforeKeepsInv, RunKeepsInv, AfterKeepsInv, ChainKeepsInv, TestKeepsInv,
     RunnerKeepsInv, FollowerStays DEF Next, CommandStep, RunnerStep

\* The session's invariant: the controller's, and whom the chain serves.
THEOREM FollowerInvariant == Spec => []FollowerInv
<1>1. Init => FollowerInv
  BY FollowerInit
<1>2. FollowerInv /\ [Next]_vars => FollowerInv'
  BY FollowerStep, FollowerStays
<1> QED
  BY <1>1, <1>2, PTL DEF Spec

\* Every variable keeps its type, for every test, page and fault.
THEOREM TypeCorrect == Spec => []TypeOK
<1>1. FollowerInv => TypeOK
  BY TabsAreSeen DEF FollowerInv, ControlInv, FollowerTypeOK, TypeOK
<1> QED
  BY <1>1, FollowerInvariant, PTL

\* Between two operations of the chain a slot is owned exactly while a capture
\* is attached to the selected tab, whatever failed in the operations before.
THEOREM SlotFollowsCaptureHolds == Spec => []SlotFollowsCapture
<1>1. FollowerInv => SlotFollowsCapture
  BY CallersAreNames, SlotFollows DEF FollowerInv
<1> QED
  BY <1>1, FollowerInvariant, PTL

\* No segment is filmed twice: only startCapture attaches a capture, and every
\* path to it has opened a segment that was not filmed.
THEOREM SegmentFilmedOnceHolds == Spec => SegmentFilmedOnce
<1>1. ASSUME FollowerInv, [Next]_vars
      PROVE  [capture = None /\ capture' # None => ~SegmentStarted]_controlVars
  <2>1. CASE ChainStep
    BY <1>1, <2>1, CallersAreNames, FilmedOnceStep DEF ChainStep, FollowerInv
  <2>2. CASE Next /\ ~ChainStep
    <3>1. UNCHANGED session
      BY <2>2
      DEF Next, CommandStep, RunnerStep, BeforeCurrent, BeforeDrive, BeforeSwitch,
          BeforeClose, BeforeOther, HookUnchanged, Drive, Switch, Close,
          CloseWindow, Hand, CannotHand, BrowserUnchanged, AfterHand, AfterDrive,
          AfterSwitch, AfterClose, AfterCloseWindow, Returned, Send, PageOpens,
          PageCloses, HookReturns, Reloaded, EndTest, BeginTest, Reload, After,
          RunnerMoves, TestUnchanged, Finished, vars, controlVars
    <3> QED
      BY <3>1 DEF session
  <2>3. CASE UNCHANGED vars
    BY <2>3 DEF vars
  <2> QED
    BY <1>1, <2>1, <2>2, <2>3
<1> QED
  BY <1>1, FollowerInvariant, PTL DEF Spec, SegmentFilmedOnce

----------------------------------------------------------------------------
(* Layer 2: no command outlasts its test.                                  *)

\* Commands and hooks of the runner are never under way together.
LEMMA OneCaller ==
    ASSUME FollowerInv, CommandInTest
    PROVE  /\ ~Settled("runner") => command = None /\ Settled("command")
           /\ ~Settled("command") => command # None /\ Settled("runner")
BY DEF FollowerInv, CallersWait, CommandInTest

LEMMA OperationCaller ==
    ASSUME ControlInv(Callers), op # None
    PROVE  /\ op.kind \in {"begin", "end", "teardown"} =>
                 op.by = "runner" /\ ~Settled("runner")
           /\ op.kind \notin {"begin", "end", "teardown"} =>
                 op.by = "command" /\ ~Settled("command")
BY DEF ControlInv, ControlTypeOK, ChainOK, OwnKind, Operations, Callers, Settled

\* The chain holds one operation at most.
LEMMA OneOperation ==
    ASSUME FollowerInv, CommandInTest
    PROVE  /\ op # None => queue = <<>>
           /\ \A i \in DOMAIN queue : i = 1
           /\ Tail(queue) = <<>> \/ queue = <<>>
<1>1. /\ queue \in Seq(Operations(Callers))
      /\ op \in Operations(Callers) \union {None} /\ ChainOK
  BY DEF FollowerInv, ControlInv, ControlTypeOK
<1>2. ASSUME NEW i \in DOMAIN queue, NEW j \in DOMAIN queue PROVE i = j
  <2>0. queue[i] \in Operations(Callers) /\ queue[j] \in Operations(Callers)
    BY <1>1, <1>2
  <2>1. queue[i].by \in Callers /\ queue[j].by \in Callers
    BY <2>0 DEF Operations
  <2>2. ~Settled(queue[i].by) /\ ~Settled(queue[j].by)
    BY <1>2 DEF Settled
  <2>3. queue[i].by = queue[j].by
    BY <2>1, <2>2, OneCaller DEF Callers
  <2> QED
    BY <1>1, <1>2, <2>3 DEF ChainOK
<1>3. ASSUME op # None, NEW i \in DOMAIN queue PROVE FALSE
  <2>0. queue[i] \in Operations(Callers) /\ op \in Operations(Callers)
    BY <1>1, <1>3
  <2>1. queue[i].by \in Callers /\ op.by \in Callers
    BY <2>0 DEF Operations
  <2>2. ~Settled(queue[i].by) /\ ~Settled(op.by)
    BY <1>3 DEF Settled
  <2>3. queue[i].by = op.by
    BY <2>1, <2>2, OneCaller DEF Callers
  <2> QED
    BY <1>1, <1>3, <2>3 DEF ChainOK
<1>4. queue # <<>> => 1 \in DOMAIN queue
  BY <1>1
<1>5. op # None => queue = <<>>
  BY <1>3, <1>4
<1>6. queue # <<>> => Len(queue) = 1 /\ Tail(queue) = <<>>
  <2>1. queue # <<>> => Len(queue) \in DOMAIN queue
    BY <1>1
  <2>2. queue # <<>> => Len(queue) = 1
    BY <1>2, <1>4, <2>1
  <2>3. queue # <<>> => Tail(queue) \in Seq(Operations(Callers))
                       /\ Len(Tail(queue)) = Len(queue) - 1
    BY <1>1
  <2>4. queue # <<>> => Len(Tail(queue)) = 0
    BY <2>2, <2>3
  <2>5. ASSUME NEW s \in Seq(Operations(Callers)), Len(s) = 0 PROVE s = <<>>
    BY <2>5
  <2> QED
    BY <2>2, <2>3, <2>4, <2>5
<1> QED
  BY <1>2, <1>4, <1>5, <1>6

LEMMA SlugStep ==
    ASSUME NEW callers \in SUBSET {"command", "runner"}, ControlInv(callers),
           Step
    PROVE  \/ slug' = slug
           \/ Begin /\ slug = 0 /\ slug' # 0 /\ slug' = begun + 1
                 /\ begun' = begun + 1
           \/ Forget /\ slug' = 0
<1>1. CASE Begin
  <2>1. begun \in Nat
    BY FaultAssumption DEF ControlInv, ControlTypeOK
  <2> QED
    BY <1>1, <2>1 DEF Begin
<1>2. CASE Forget
  BY <1>2 DEF Forget, ForgetRecording
<1>3. CASE ~Begin /\ ~Forget
  BY <1>3
  DEF Step, End, Follow, StopClosing, RecoverClose, Resume, Teardown, Record,
      Select, Acquire, Attach, Attached, NotAttached, StopNothing, Detach,
      Stopped, ReleaseSlot, FinalizeSegment, MarkClosing, Successor, Complete,
      ReleaseResources, Reset, Finish, session
<1> QED
  BY <1>1, <1>2, <1>3

\* An operation that forgets a recording is the runner's.
LEMMA ForgetIsRunners ==
    ASSUME ControlInv(Callers), Forget
    PROVE  ~Settled("runner")
<1>1. /\ op # None /\ Planned(op.kind, "forget", Tail(steps))
  BY CallersAreNames, AtWord DEF Forget
<1>2. op.kind \in {"begin", "end", "teardown"}
  BY <1>1 DEF Planned, Stopping
<1> QED
  BY <1>1, <1>2, OperationCaller

LEMMA ReportOwned ==
    ASSUME slug # 0, GapsOwned
    PROVE  Report(failure) = slug
BY DEF Report, GapsOwned

LEMMA StartFailedOwned ==
    ASSUME SerialInv, NEW w \in {"record", "acquire", "attach"}, At(w),
           StartFailed, slug' = slug
    PROVE  GapsOwned'
<1>1. /\ op # None /\ Planned(op.kind, w, Tail(steps)) /\ ControlInv(Callers)
  BY CallersAreNames, AtWord DEF SerialInv, FollowerInv
<1>2. CASE op.kind = "begin"
  BY <1>2 DEF StartFailed, SerialInv, GapsOwned
<1>3. CASE op.kind # "begin"
  <2>1. op.kind \notin {"begin", "end", "teardown"}
    BY <1>1, <1>3 DEF Planned, Stopping, Filming
  <2>2. slug # 0
    BY <1>1, <2>1, OperationCaller DEF SerialInv, CommandRecorded
  <2> QED
    BY <1>3, <2>2, ReportOwned DEF StartFailed, NoteGap, SerialInv, GapsOwned
<1> QED
  BY <1>2, <1>3

LEMMA GapsOwnedStep ==
    ASSUME SerialInv, Step
    PROVE  GapsOwned'
<1>0. GapsOwned /\ ControlInv(Callers)
  BY DEF SerialInv, FollowerInv
<1>1. CASE Begin
  BY <1>0, <1>1 DEF Begin, GapsOwned
<1>2. CASE End \/ Follow \/ StopClosing \/ Resume
  <2>1. ASSUME NEW gap \in {None, unconfirmed}
        PROVE  Confirmed(gap) # None => slug # 0 /\ Confirmed(gap) = slug
    BY <1>0, ReportOwned DEF Confirmed, GapsOwned
  <2>2. PendingGap(Head(queue).reason) \in {None, unconfirmed}
    BY DEF PendingGap
  <2>3. /\ slug' = slug
        /\ failure' # failure => \E gap \in {None, unconfirmed} :
              failure' = Confirmed(gap)
        /\ unconfirmed' \in {None, unconfirmed}
    BY <1>2, <2>2 DEF End, Follow, StopClosing, Resume, session
  <2> QED
    BY <1>0, <2>1, <2>3 DEF GapsOwned
<1>3. CASE RecoverClose \/ Teardown \/ StopNothing \/ Detach \/ ReleaseSlot
           \/ FinalizeSegment \/ MarkClosing \/ Successor \/ Complete
           \/ ReleaseResources \/ Finish
  <2>1. UNCHANGED <<slug, failure, unconfirmed>>
    BY <1>3
    DEF RecoverClose, Teardown, StopNothing, Detach, ReleaseSlot, FinalizeSegment,
        MarkClosing, Successor, Complete, ReleaseResources, Finish, session, gaps
  <2> QED
    BY <1>0, <2>1 DEF GapsOwned
<1>4. CASE Record
  <2>1. At("record") /\ slug' = slug
    BY <1>4 DEF Record
  <2>2. StartFailed \/ UNCHANGED <<failure, unconfirmed>>
    BY <1>4 DEF Record
  <2> QED
    BY <1>0, <2>1, <2>2, StartFailedOwned DEF GapsOwned
<1>5. CASE Acquire
  <2>1. At("acquire") /\ slug' = slug
    BY <1>5 DEF Acquire, session
  <2>2. StartFailed \/ UNCHANGED <<failure, unconfirmed>>
    BY <1>5 DEF Acquire
  <2> QED
    BY <1>0, <2>1, <2>2, StartFailedOwned DEF GapsOwned
<1>6. CASE Attach
  <2>1. At("attach") /\ slug' = slug
    BY <1>6 DEF Attach
  <2>2. StartFailed \/ UNCHANGED <<failure, unconfirmed>>
    BY <1>6 DEF Attach, Attached, NotAttached
  <2> QED
    BY <1>0, <2>1, <2>2, StartFailedOwned DEF GapsOwned
<1>7. CASE Select
  <2>1. op # None /\ Planned(op.kind, "select", Tail(steps))
    BY <1>0, <1>7, CallersAreNames, AtWord DEF Select
  <2>2. op.kind = "follow"
    BY <2>1 DEF Planned, Stopping
  <2>3. slug # 0
    BY <1>0, <2>1, <2>2, OperationCaller DEF SerialInv, CommandRecorded
  <2>4. NoteGap /\ slug' = slug
    BY <1>7 DEF Select
  <2> QED
    BY <1>0, <2>3, <2>4, ReportOwned DEF NoteGap, GapsOwned
<1>8. CASE Stopped
  <2>1. slug # 0
    BY <1>0, <1>8, CallersAreNames, AtWord DEF Stopped, Phase
  <2>2. /\ slug' = slug /\ unconfirmed' = unconfirmed
        /\ failure' \in {failure, Report(failure)}
    BY <1>8 DEF Stopped, Unclean, session
  <2> QED
    BY <1>0, <2>1, <2>2, ReportOwned DEF GapsOwned
<1>9. CASE Reset
  BY <1>9 DEF Reset, ClearGaps, GapsOwned
<1>10. CASE Forget
  <2>1. failure = None /\ unconfirmed = None
    BY <1>0, <1>10, CallersAreNames, AtWord DEF Forget, Phase
  <2>2. failure' = None /\ unconfirmed' = None
    BY <1>10, <2>1 DEF Forget, gaps
  <2> QED
    BY <2>2 DEF GapsOwned
<1> QED
  BY <1>1, <1>2, <1>3, <1>4, <1>5, <1>6, <1>7, <1>8, <1>9, <1>10 DEF Step

LEMMA SerialChain ==
    ASSUME SerialInv, ChainStep
    PROVE  SerialInv'
<1>1. FollowerInv' /\ GapsOwned'
  BY ChainKeepsInv, GapsOwnedStep DEF SerialInv, ChainStep
<1>2. CommandInTest'
  BY DEF ChainStep, test, SerialInv, CommandInTest
<1>3. CommandRecorded'
  <2>1. ~Settled("command")' => ~Settled("command")
    BY CallersAreNames, SettledStep DEF ChainStep, SerialInv, FollowerInv
  <2>2. ~Settled("command") => slug # 0 /\ Settled("runner")
    BY OneCaller DEF SerialInv, CommandRecorded
  <2>3. Forget => ~Settled("runner")
    BY ForgetIsRunners DEF SerialInv, FollowerInv
  <2>4. slug' = slug \/ slug' # 0 \/ Forget
    BY CallersAreNames, SlugStep DEF ChainStep, SerialInv, FollowerInv
  <2> QED
    BY <2>1, <2>2, <2>3, <2>4 DEF CommandRecorded
<1> QED
  BY <1>1, <1>2, <1>3 DEF SerialInv

LEMMA SerialHooks ==
    ASSUME SerialInv,
           \/ BeforeCurrent \/ BeforeDrive \/ BeforeSwitch \/ BeforeClose
           \/ BeforeOther
           \/ AfterHand \/ AfterDrive \/ AfterSwitch \/ AfterClose
           \/ AfterCloseWindow
    PROVE  SerialInv'
<1>1. FollowerInv'
  BY BeforeKeepsInv, AfterKeepsInv DEF SerialInv
<1>2. HookUnchanged /\ command # None
  BY DEF BeforeCurrent, BeforeDrive, BeforeSwitch, BeforeClose, BeforeOther,
         AfterHand, AfterDrive, AfterSwitch, AfterClose, AfterCloseWindow, Sent,
         Answered
<1>3. UNCHANGED <<slug, failure, unconfirmed, op, runner>>
  BY <1>2 DEF HookUnchanged, session, gaps
<1>4. queue' = queue \/ slug # 0
  BY DEF BeforeCurrent, BeforeDrive, BeforeSwitch, BeforeClose, BeforeOther,
         AfterHand, AfterDrive, AfterSwitch, AfterClose, AfterCloseWindow,
         FollowTab, Ask, RecoverFailedSwitch
<1>5. GapsOwned' /\ CommandInTest'
  BY <1>2, <1>3 DEF SerialInv, GapsOwned, CommandInTest
<1>6. CommandRecorded'
  BY <1>3, <1>4 DEF SerialInv, CommandRecorded, Settled
<1> QED
  BY <1>1, <1>5, <1>6 DEF SerialInv

LEMMA SerialRest ==
    ASSUME SerialInv, ~Stray,
           \/ Drive \/ Switch \/ Close \/ CloseWindow \/ Hand \/ CannotHand
           \/ Send \/ PageOpens \/ PageCloses \/ Returned
           \/ HookReturns \/ Reloaded \/ EndTest \/ BeginTest \/ Reload \/ After
    PROVE  SerialInv'
<1>1. FollowerInv'
  BY RunKeepsInv, TestKeepsInv, RunnerKeepsInv DEF SerialInv
<1>2. UNCHANGED <<slug, failure, unconfirmed, op>>
  BY DEF Drive, Switch, Close, CloseWindow, Hand, CannotHand, BrowserUnchanged,
         Send, PageOpens, PageCloses, Returned, HookReturns, Reloaded, EndTest,
         BeginTest, Reload, After, RunnerMoves, TestUnchanged, controlVars,
         chain, session, gaps
<1>3. CommandInTest'
  <2>1. CASE Drive \/ Switch \/ Close \/ CloseWindow \/ Hand \/ CannotHand
    BY <2>1
    DEF Drive, Switch, Close, CloseWindow, Hand, CannotHand, Running,
        BrowserUnchanged, SerialInv, CommandInTest
  <2>2. CASE Send
    BY <2>2 DEF Send, CommandInTest
  <2>3. CASE PageOpens \/ PageCloses \/ Returned
    BY <2>3 DEF PageOpens, PageCloses, Returned, test, SerialInv, CommandInTest
  <2>4. CASE HookReturns \/ Reloaded \/ EndTest \/ BeginTest \/ Reload \/ After
    <3>1. /\ command' = command
          /\ runner' \in {"between", "testing"} \/ command = None
      BY <2>4, OneCaller
      DEF HookReturns, Reloaded, EndTest, BeginTest, Reload, After, RunnerMoves,
          SerialInv, CommandInTest
    <3> QED
      BY <3>1 DEF CommandInTest
  <2> QED
    BY <2>1, <2>2, <2>3, <2>4
<1>4. CommandRecorded'
  <2>1. CASE queue' = queue
    BY <1>2, <2>1 DEF SerialInv, CommandRecorded, Settled
  <2>2. ASSUME NEW kind, Enqueue(kind, None, "start", "runner")
        PROVE  Settled("command") => Settled("command")'
    <3> DEFINE o == [kind |-> kind, tab |-> None, reason |-> "start",
                     by |-> "runner"]
    <3>1. queue' = Append(queue, o) /\ o.by # "command"
      BY <2>2 DEF Enqueue
    <3> HIDE DEF o
    <3> QED
      BY <1>2, <3>1, CallersAreNames, JoinSettled DEF SerialInv, FollowerInv
  <2>3. queue' = queue \/ \E kind : Enqueue(kind, None, "start", "runner")
    BY DEF Drive, Switch, Close, CloseWindow, Hand, CannotHand, BrowserUnchanged,
           Send, PageOpens, PageCloses, Returned, HookReturns, Reloaded, EndTest,
           BeginTest, Reload, After, controlVars, chain
  <2> QED
    BY <1>2, <2>1, <2>2, <2>3 DEF SerialInv, CommandRecorded
<1>5. GapsOwned'
  BY <1>2 DEF SerialInv, GapsOwned
<1> QED
  BY <1>1, <1>3, <1>4, <1>5 DEF SerialInv

LEMMA SerialStays ==
    ASSUME SerialInv, UNCHANGED vars
    PROVE  SerialInv'
<1>1. FollowerInv'
  BY FollowerStays DEF SerialInv
<1>2. UNCHANGED <<slug, failure, unconfirmed, op, queue, command, runner>>
  BY DEF vars, controlVars, session, gaps, chain, test
<1> QED
  BY <1>1, <1>2
  DEF SerialInv, CommandInTest, CommandRecorded, GapsOwned, Settled

LEMMA SerialStep ==
    ASSUME SerialInv, ~Stray, [Next]_vars
    PROVE  SerialInv'
BY SerialChain, SerialHooks, SerialRest, SerialStays
DEF Next, CommandStep, RunnerStep, Finished

LEMMA SerialInit ==
    ASSUME Init
    PROVE  SerialInv
<1>1. /\ failure = None /\ unconfirmed = None /\ command = None /\ op = None
      /\ queue = <<>>
  BY DEF Init, ControlInit
<1> QED
  BY <1>1, FollowerInit
  DEF SerialInv, CommandInTest, CommandRecorded, GapsOwned, Settled

\* A recording is only reported incomplete for what happened while it was made,
\* provided no command outlasts its test.
THEOREM FailureIsOwnHolds ==
    ASSUME ~Stray
    PROVE  Spec => []FailureIsOwn
<1>1. Init => SerialInv
  BY SerialInit
<1>2. SerialInv /\ [Next]_vars => SerialInv'
  BY SerialStep
<1>3. SerialInv => FailureIsOwn
  BY DEF SerialInv, GapsOwned, FailureIsOwn
<1> QED
  BY <1>1, <1>2, <1>3, PTL DEF Spec

----------------------------------------------------------------------------
(* Layer 3: the browser's tree can be read.                                *)

LEMMA NoTab == None \notin Tabs
BY NoneAssumption

\* While a command waits for no operation, the chain is empty.
LEMMA ChainEmpty ==
    ASSUME FollowerInv, CommandInTest, Settled("command"),
           command # None \/ runner \in {"between", "testing", "done"}
    PROVE  op = None /\ queue = <<>> /\ steps = <<>>
<1>1. Settled("runner")
  BY OneCaller DEF FollowerInv, CallersWait
<1>2. /\ queue \in Seq(Operations(Callers))
      /\ op \in Operations(Callers) \union {None} /\ StepsOK
  BY DEF FollowerInv, ControlInv, ControlTypeOK
<1>3. op = None
  <2>1. op # None => op.by \in Callers
    BY <1>2 DEF Operations
  <2> QED
    BY <1>1, <2>1 DEF Settled, Callers
<1>4. queue = <<>>
  <2>1. \A i \in DOMAIN queue : queue[i] \in Operations(Callers)
    BY <1>2
  <2>2. \A i \in DOMAIN queue : queue[i].by \in Callers
    BY <2>1 DEF Operations
  <2>3. \A i \in DOMAIN queue : FALSE
    BY <1>1, <2>2 DEF Settled, Callers
  <2>4. queue # <<>> => 1 \in DOMAIN queue
    BY <1>2
  <2> QED
    BY <2>3, <2>4
<1> QED
  BY <1>2, <1>3, <1>4 DEF StepsOK

\* Nothing but the queue of the controller changes, and no known tab comes back.
Still == UNCHANGED <<slug, window, capture, failure, closing, unconfirmed, op,
                     steps, begun, results, spoiled, broken>>
Grows == seen \subseteq seen' /\ open' \intersect seen \subseteq open
         /\ open' \subseteq Tabs

LEMMA StillCovered ==
    ASSUME CompleteInv, Still, Grows
    PROVE  /\ WindowCovered'
           /\ missed' = missed => GapsKnown' /\ Verdicts'
           /\ op # None /\ op.kind = "follow" /\ op.reason = "command" =>
                 (steps = <<>> => Covered(op.tab)')
<1>1. /\ WindowCovered /\ GapsKnown /\ Verdicts /\ DrivenCovered
      /\ window \in seen \union {None}
      /\ op # None => op.tab \in seen \union {None}
  BY DEF CompleteInv, TabsSeen
<1>2. /\ window \in open' => window \in open
      /\ op # None /\ op.tab \in open' => op.tab \in open
  BY <1>1, NoTab DEF Grows
<1>3. WindowCovered'
  BY <1>1, <1>2 DEF Still, WindowCovered, Known
<1>4. missed' = missed => GapsKnown' /\ Verdicts'
  BY <1>1 DEF Still, GapsKnown, Known, Verdicts
<1>5. op # None /\ op.kind = "follow" /\ op.reason = "command" /\ steps = <<>>
         => Covered(op.tab)
  BY <1>1 DEF DrivenCovered
<1> QED
  BY <1>2, <1>3, <1>4, <1>5 DEF Still, Covered, Known

\* A command's hook found the chain empty: what it may hold now.
HookAsks(o) == queue' = <<o>> /\ slug # 0

LEMMA AskOne ==
    ASSUME queue = <<>>, NEW kind, NEW tab, NEW reason, Ask(kind, tab, reason)
    PROVE  \/ queue' = <<>> /\ slug = 0
           \/ HookAsks([kind |-> kind, tab |-> tab, reason |-> reason,
                        by |-> "command"])
<1> DEFINE o == [kind |-> kind, tab |-> tab, reason |-> reason,
                 by |-> "command"]
<1>1. Append(<<>>, o) = <<o>>
  OBVIOUS
<1> HIDE DEF o
<1>2. slug # 0 => queue' = <<o>>
  BY <1>1 DEF Ask, Enqueue, o
<1> QED
  BY <1>2 DEF Ask, HookAsks, o

LEMMA FollowOne ==
    ASSUME queue = <<>>, NEW tab, NEW reason, FollowTab(tab, reason)
    PROVE  \/ queue' = <<>> /\ (slug = 0 \/ (tab = window /\ capture # None))
           \/ HookAsks([kind |-> "follow", tab |-> tab, reason |-> reason,
                        by |-> "command"])
BY AskOne DEF FollowTab

LEMMA QueuedFits ==
    ASSUME op' = None, NEW kind, NEW tab, NEW reason,
           queue' = <<[kind |-> kind, tab |-> tab, reason |-> reason,
                       by |-> "command"]>>,
           HookFits([kind |-> kind, tab |-> tab, reason |-> reason,
                     by |-> "command"])',
           tab \in seen' \union {None}, window' \in seen' \union {None}
    PROVE  /\ OperationsFit' /\ TabsSeen' /\ ~Settled("command")'
           /\ \A i \in DOMAIN queue' : queue'[i].reason = reason
           /\ \E i \in DOMAIN queue' : queue'[i].kind = kind
<1> DEFINE o == [kind |-> kind, tab |-> tab, reason |-> reason,
                 by |-> "command"]
<1>1. /\ DOMAIN queue' = {1} /\ queue'[1] = o
  <2>1. queue' = <<o>>
    OBVIOUS
  <2> HIDE DEF o
  <2> QED
    BY <2>1
<1>2. o.by = "command" /\ o.tab = tab /\ o.reason = reason /\ o.kind = kind
  OBVIOUS
<1>3. HookFits(o)'
  OBVIOUS
<1> HIDE DEF o
<1>4. Fits(o)'
  BY <1>2, <1>3 DEF Fits
<1> QED
  BY <1>1, <1>2, <1>4 DEF OperationsFit, TabsSeen, Settled

LEMMA NothingQueued ==
    ASSUME op' = None, queue' = <<>>, window' \in seen' \union {None}
    PROVE  OperationsFit' /\ TabsSeen' /\ Settled("command")'
BY DEF OperationsFit, TabsSeen, Settled

\* What every hook before a command finds, and leaves alone.
LEMMA BeforeFrame ==
    ASSUME CompleteInv,
           BeforeCurrent \/ BeforeDrive \/ BeforeSwitch \/ BeforeClose
              \/ BeforeOther
    PROVE  /\ op = None /\ queue = <<>> /\ steps = <<>> /\ op' = None
           /\ closing = None /\ pendingSwitch = None
           /\ Still /\ Grows
           /\ UNCHANGED <<open, wdioWindow, runner, held, missed, seen>>
           /\ runner # "reloading"
           /\ command # None /\ command.at = "sent" /\ command \in Commands
           /\ command' # None /\ command'.at = "run"
           /\ command'.kind = command.kind /\ command'.tab = command.tab
           /\ FollowerTypeOK /\ window' \in seen' \union {None}
           /\ held \subseteq introduced
           /\ capture # None => capture = window /\ unconfirmed = None
<1>1. /\ SerialInv /\ FollowerInv /\ FollowerTypeOK /\ CommandInTest /\ PhaseOK
      /\ HookUnchanged
  BY DEF CompleteInv, SerialInv, FollowerInv, ControlInv, BeforeCurrent,
         BeforeDrive, BeforeSwitch, BeforeClose, BeforeOther
<1>2. /\ command # None /\ command.at = "sent" /\ Proceed("run")
  BY DEF BeforeCurrent, BeforeDrive, BeforeSwitch, BeforeClose, BeforeOther, Sent
<1>3. Settled("command") /\ command \in Commands
  BY <1>1, <1>2 DEF FollowerInv, CallersWait, FollowerTypeOK
<1>4. /\ command' # None /\ command'.at = "run"
      /\ command'.kind = command.kind /\ command'.tab = command.tab
  BY <1>2, <1>3, CommandMoves DEF Proceed
<1>5. op = None /\ queue = <<>> /\ steps = <<>>
  BY <1>1, <1>2, <1>3, ChainEmpty
<1>6. closing = None /\ pendingSwitch = None
  BY <1>2 DEF CompleteInv, ClosingSettled, SwitchPending, Now
<1>7. /\ Still /\ UNCHANGED <<open, wdioWindow, runner, held, missed, seen>>
      /\ op' = op
  BY <1>1 DEF Still, HookUnchanged, session, gaps, reports, browser
<1>8. Grows
  BY <1>1, <1>7 DEF Grows, FollowerTypeOK
<1>9. capture # None => capture = window /\ unconfirmed = None
  BY <1>1, <1>5 DEF PhaseOK, Quiet, StopReady
<1>10. /\ window' \in seen' \union {None} /\ held \subseteq introduced
       /\ runner # "reloading"
  BY <1>1, <1>2, <1>7
  DEF CompleteInv, TabsSeen, Introduced, Now, Still, CommandInTest
<1> QED
  BY <1>1, <1>2, <1>3, <1>4, <1>5, <1>6, <1>7, <1>8, <1>9, <1>10

LEMMA BeforeComplete ==
    ASSUME CompleteInv, SerialInv',
           BeforeCurrent \/ BeforeDrive \/ BeforeSwitch \/ BeforeClose
              \/ BeforeOther,
           OperationsFit', TabsSeen', held \subseteq introduced',
           SwitchPending', CurrentKnown',
           pendingSwitch' # None /\ Settled("command")' =>
               unconfirmed \in {None, command.tab},
           \A i \in DOMAIN queue' : queue'[i].reason # "switch-failed",
           command.kind \in {"drive", "current"} /\ Settled("command")'
               /\ slug # 0 => Covered(Driven)',
           command.kind = "current" /\ currentWindow' = None
               => wdioWindow = None
    PROVE  CompleteInv'
<1>1. /\ op = None /\ op' = None /\ closing = None
      /\ Still /\ Grows
      /\ UNCHANGED <<open, wdioWindow, runner, held, missed, seen>>
      /\ runner # "reloading"
      /\ command' # None /\ command'.at = "run"
      /\ command'.kind = command.kind /\ command'.tab = command.tab
  BY BeforeFrame
<1>2. WindowCovered' /\ GapsKnown' /\ Verdicts'
  BY <1>1, StillCovered
<1>3. Introduced'
  BY <1>1 DEF Introduced, Now
<1>4. ClosingSettled'
  BY <1>1 DEF ClosingSettled, Now, Still
<1>5. GapOfSwitch'
  BY <1>1 DEF GapOfSwitch, Still
<1>6. DrivenCovered'
  BY <1>1 DEF DrivenCovered, Now, Still
<1> QED
  BY <1>2, <1>3, <1>4, <1>5, <1>6 DEF CompleteInv

LEMMA CompleteBefore ==
    ASSUME CompleteInv, ~TreeFaults,
           BeforeCurrent \/ BeforeDrive \/ BeforeSwitch \/ BeforeClose
              \/ BeforeOther
    PROVE  CompleteInv'
<1>0. SerialInv'
  BY SerialHooks DEF CompleteInv
<1>1. /\ op = None /\ queue = <<>> /\ steps = <<>> /\ op' = None
      /\ closing = None /\ pendingSwitch = None
      /\ Still /\ runner # "reloading"
      /\ UNCHANGED <<open, wdioWindow, runner, held, missed, seen>>
      /\ command # None /\ command.at = "sent" /\ command \in Commands
      /\ command' # None /\ command'.at = "run"
      /\ command'.kind = command.kind /\ command'.tab = command.tab
      /\ FollowerTypeOK /\ window' \in seen' \union {None}
      /\ held \subseteq introduced
      /\ capture # None => capture = window /\ unconfirmed = None
  BY BeforeFrame
<1>2. ASSUME queue' = <<>>
      PROVE  /\ OperationsFit' /\ TabsSeen' /\ Settled("command")'
             /\ \A i \in DOMAIN queue' : queue'[i].reason # "switch-failed"
  BY <1>1, <1>2, NothingQueued
<1>3. ASSUME pendingSwitch' = None, UNCHANGED <<currentWindow>>,
             command.kind # "switch"
      PROVE  SwitchPending' /\ CurrentKnown'
  BY <1>1, <1>3 DEF CompleteInv, SwitchPending, CurrentKnown, Now
<1>4. CASE BeforeCurrent
  <2>0. PICK current : current = CurrentWindow(currentWindow)
    OBVIOUS
  <2> DEFINE o == [kind |-> "follow", tab |-> current, reason |-> "command",
                   by |-> "command"]
  <2>1. /\ command.kind = "current" /\ currentWindow' = current
        /\ introduced' = introduced \union ({current} \ {None})
        /\ pendingSwitch' = None
        /\ IF current = None THEN UNCHANGED queue
           ELSE FollowTab(current, "command")
    BY <1>1, <1>4, <2>0 DEF BeforeCurrent, Sent
  <2>2. current \in seen \union {None}
    BY <1>1, <2>0 DEF CurrentWindow, FollowerTypeOK
  <2>3. current = None => wdioWindow = None
    BY <2>0 DEF CurrentWindow
  <2>4. wdioWindow \in {None, current} \/ current = None
    BY <1>1, <2>0 DEF CurrentWindow, CompleteInv, CurrentKnown
  <2>5. Driven' = current
    BY <1>1, <2>1 DEF Driven
  <2>6. SwitchPending' /\ CurrentKnown'
    BY <1>1, <2>1, <2>4 DEF SwitchPending, CurrentKnown, Now
  <2>7. CASE /\ queue' = <<>>
             /\ \/ current = None \/ slug = 0
                \/ current = window /\ capture # None
    <3>1. slug # 0 => Covered(Driven)'
      BY <1>1, <2>5, <2>7, NoTab DEF Covered, Still, FollowerTypeOK
    <3> QED
      BY <1>0, <1>1, <1>2, <1>4, <2>1, <2>3, <2>6, <2>7, <3>1, BeforeComplete
  <2>8. CASE HookAsks(o)
    <3>1. HookFits(o)'
      BY <1>1, <2>1, <2>5 DEF HookFits, Now
    <3>2. /\ OperationsFit' /\ TabsSeen' /\ ~Settled("command")'
          /\ \A i \in DOMAIN queue' : queue'[i].reason = "command"
      BY <1>1, <2>2, <2>8, <3>1, QueuedFits DEF HookAsks
    <3> QED
      BY <1>0, <1>1, <1>4, <2>1, <2>3, <2>6, <3>2, BeforeComplete
  <2>9. \/ queue' = <<>> /\ current = None
        \/ FollowTab(current, "command")
    BY <1>1, <2>1
  <2> QED
    BY <1>1, <2>7, <2>8, <2>9, FollowOne
<1>5. CASE BeforeDrive
  <2> DEFINE o == [kind |-> "follow", tab |-> command.tab,
                   reason |-> "command", by |-> "command"]
  <2>1. /\ command.kind = "drive" /\ pendingSwitch' = None
        /\ UNCHANGED <<currentWindow, introduced>>
    BY <1>1, <1>5 DEF BeforeDrive, Sent
  <2>2. command.tab \in seen /\ Driven' = command.tab
    BY <1>1, <2>1 DEF FollowerTypeOK, Driven
  <2>3. command.tab \in introduced
    BY <1>1, <2>1 DEF CompleteInv, Introduced, Now
  <2>4. IsAddressable(command.tab)
    BY <2>3 DEF IsAddressable
  <2>5. \/ FollowTab(command.tab, "command")
        \/ queue' = queue /\ command.tab \notin known'
    BY <1>5, <2>4 DEF BeforeDrive
  <2>6. \E read \in BOOLEAN : LookUp(command.tab, read)
    BY <1>5, <2>4 DEF BeforeDrive
  <2>7. command.tab \notin known' => command.tab \notin open
    BY <2>6 DEF LookUp
  <2>8. SwitchPending' /\ CurrentKnown'
    BY <1>3, <2>1
  <2>9. CASE queue' = <<>> /\ (command.tab \notin open \/ slug = 0 \/
                             (command.tab = window /\ capture # None))
    <3>1. slug # 0 => Covered(Driven)'
      BY <1>1, <2>2, <2>9 DEF Covered, Still
    <3> QED
      BY <1>0, <1>1, <1>2, <1>5, <2>1, <2>8, <2>9, <3>1, BeforeComplete
  <2>10. CASE HookAsks(o)
    <3>1. HookFits(o)'
      BY <1>1, <2>1, <2>2 DEF HookFits, Now
    <3>2. /\ OperationsFit' /\ TabsSeen' /\ ~Settled("command")'
          /\ \A i \in DOMAIN queue' : queue'[i].reason = "command"
      BY <1>1, <2>2, <2>10, <3>1, QueuedFits DEF HookAsks
    <3> QED
      BY <1>0, <1>1, <1>5, <2>1, <2>8, <3>2, BeforeComplete
  <2> QED
    BY <1>1, <2>5, <2>7, <2>9, <2>10, FollowOne
<1>6. CASE BeforeSwitch
  <2> DEFINE tab == command.tab
             o == [kind |-> "follow", tab |-> tab,
                   reason |-> "switch-to-window", by |-> "command"]
  <2>1. command.kind = "switch" /\ tab \in seen
    BY <1>1, <1>6 DEF BeforeSwitch, Sent, FollowerTypeOK
  <2>2. PICK read \in BOOLEAN :
          /\ LookUp(tab, read)
          /\ IF tab \in known' \/ ~read
             THEN /\ pendingSwitch' = [tab |-> tab,
                                       wasIntroduced |-> tab \in introduced]
                  /\ introduced' = introduced \union {tab}
                  /\ currentWindow' = tab
                  /\ FollowTab(tab, "switch-to-window")
             ELSE UNCHANGED <<pendingSwitch, introduced, currentWindow, queue>>
    BY <1>6 DEF BeforeSwitch
  <2>3. CASE tab \in known' \/ ~read
    <3> DEFINE was == tab \in introduced
               new == [tab |-> tab, wasIntroduced |-> was]
    <3>0. /\ pendingSwitch' = new /\ was \in BOOLEAN
          /\ was => tab \in introduced
          /\ tab \in introduced => was
      BY <2>2, <2>3
    <3>1. /\ currentWindow' = tab /\ introduced' = introduced \union {tab}
          /\ FollowTab(tab, "switch-to-window")
      BY <2>2, <2>3
    <3>2. /\ pendingSwitch' # None
          /\ pendingSwitch'.tab = tab
          /\ tab \in introduced => pendingSwitch'.wasIntroduced
      <4>1. tab \in Tabs
        BY <1>1, <2>1 DEF FollowerTypeOK
      <4> HIDE DEF was
      <4>2. new.tab = tab /\ new.wasIntroduced = was
        OBVIOUS
      <4>3. new \in Switches
        BY <3>0, <4>1 DEF Switches
      <4>4. new # None
        BY <4>3, CommandAssumption
      <4> QED
        BY <3>0, <4>2, <4>4
    <3>3. SwitchPending'
      BY <1>1, <2>1, <3>1, <3>2 DEF SwitchPending, Now
    <3>4. CurrentKnown'
      BY <3>2 DEF CurrentKnown
    <3>5. CASE queue' = <<>> /\ (slug = 0 \/ (tab = window /\ capture # None))
      <4>1. unconfirmed = None
        BY <1>1, <3>5 DEF CompleteInv, SerialInv, GapsOwned
      <4> QED
        BY <1>0, <1>1, <1>2, <1>6, <2>1, <3>1, <3>3, <3>4, <3>5, <4>1,
           BeforeComplete
    <3>6. CASE HookAsks(o)
      <4>1. HookFits(o)'
        BY <1>1, <2>1 DEF HookFits, Now
      <4>2. /\ OperationsFit' /\ TabsSeen' /\ ~Settled("command")'
            /\ \A i \in DOMAIN queue' : queue'[i].reason = "switch-to-window"
        BY <1>1, <2>1, <3>6, <4>1, QueuedFits DEF HookAsks
      <4> QED
        BY <1>0, <1>1, <1>6, <2>1, <3>1, <3>3, <3>4, <4>2, BeforeComplete
    <3> QED
      BY <1>1, <3>1, <3>5, <3>6, FollowOne
  <2>4. CASE ~(tab \in known' \/ ~read)
    <3>1. UNCHANGED <<pendingSwitch, introduced, currentWindow, queue>>
      BY <2>2, <2>4
    <3>2. tab \notin open
      BY <2>2, <2>4 DEF LookUp
    <3>3. SwitchPending' /\ CurrentKnown'
      BY <1>1, <2>1, <3>1, <3>2
      DEF CompleteInv, SwitchPending, CurrentKnown, Now
    <3> QED
      BY <1>0, <1>1, <1>2, <1>6, <2>1, <3>1, <3>3, BeforeComplete
  <2> QED
    BY <2>3, <2>4
<1>7. CASE BeforeClose
  <2> DEFINE o == [kind |-> "stop-closing", tab |-> command.tab,
                   reason |-> "command", by |-> "command"]
  <2>1. /\ command.kind = "close" /\ pendingSwitch' = None
        /\ UNCHANGED <<currentWindow, introduced>>
    BY <1>1, <1>7 DEF BeforeClose, Sent
  <2>2. command.tab \in seen
    BY <1>1, <2>1 DEF FollowerTypeOK
  <2>3. SwitchPending' /\ CurrentKnown'
    BY <1>3, <2>1
  <2>4. CASE queue' = <<>>
    BY <1>0, <1>1, <1>2, <1>7, <2>1, <2>3, <2>4, BeforeComplete
  <2>5. CASE HookAsks(o)
    <3>1. HookFits(o)'
      BY <1>1, <2>1 DEF HookFits, Now
    <3>2. /\ OperationsFit' /\ TabsSeen' /\ ~Settled("command")'
          /\ \A i \in DOMAIN queue' : queue'[i].reason = "command"
      BY <1>1, <2>2, <2>5, <3>1, QueuedFits DEF HookAsks
    <3> QED
      BY <1>0, <1>1, <1>7, <2>1, <2>3, <3>2, BeforeComplete
  <2>6. queue' = queue \/ Ask("stop-closing", command.tab, "command")
    BY <1>7 DEF BeforeClose
  <2> QED
    BY <1>1, <2>4, <2>5, <2>6, AskOne
<1>8. CASE BeforeOther
  <2>1. /\ command.kind \notin {"switch", "drive", "current"}
        /\ UNCHANGED <<currentWindow, introduced, pendingSwitch, queue>>
    BY <1>1, <1>8 DEF BeforeOther, follower
  <2>2. SwitchPending' /\ CurrentKnown'
    BY <1>1, <1>3, <2>1
  <2> QED
    BY <1>0, <1>1, <1>2, <1>8, <2>1, <2>2, BeforeComplete
<1> QED
  BY <1>4, <1>5, <1>6, <1>7, <1>8

\* What the browser finds when it runs a command, and leaves alone.
LEMMA RunFrame ==
    ASSUME CompleteInv, SerialInv',
           Drive \/ Switch \/ Close \/ CloseWindow \/ Hand \/ CannotHand
    PROVE  /\ op = None /\ queue' = <<>> /\ steps = <<>> /\ op' = None
           /\ Settled("command") /\ runner \in {"between", "testing"}
           /\ Still /\ Grows
           /\ UNCHANGED <<currentWindow, introduced, pendingSwitch, runner>>
           /\ command # None /\ command.at = "run" /\ command \in Commands
           /\ command' # None /\ command'.at = "answered"
           /\ command'.kind = command.kind /\ command'.tab = command.tab
           /\ FollowerTypeOK /\ window' \in seen' \union {None}
           /\ held \subseteq introduced
<1>1. /\ SerialInv /\ FollowerInv /\ FollowerTypeOK /\ CommandInTest
      /\ FollowerTypeOK'
  BY DEF CompleteInv, SerialInv, FollowerInv
<1>2. /\ command # None /\ command.at = "run" /\ Settled("command")
      /\ Answer(TRUE) \/ Answer(FALSE)
      /\ BrowserUnchanged
  BY DEF Drive, Switch, Close, CloseWindow, Hand, CannotHand, Running
<1>3. command \in Commands
  BY <1>1, <1>2 DEF FollowerTypeOK
<1>4. /\ command' # None /\ command'.at = "answered"
      /\ command'.kind = command.kind /\ command'.tab = command.tab
  BY <1>2, <1>3, CommandMoves DEF Answer
<1>5. op = None /\ queue = <<>> /\ steps = <<>>
  BY <1>1, <1>2, ChainEmpty
<1>6. /\ Still /\ op' = op /\ queue' = queue
      /\ UNCHANGED <<currentWindow, introduced, pendingSwitch, runner>>
  BY <1>2 DEF Still, BrowserUnchanged, session, gaps, reports, chain, follower
<1>7. /\ seen \subseteq seen' /\ open' \intersect seen \subseteq open
  BY <1>1 DEF Drive, Switch, Close, CloseWindow, Hand, CannotHand, ClosesTab,
              browser, FollowerTypeOK
<1>8. Grows
  BY <1>1, <1>7 DEF Grows, FollowerTypeOK
<1>9. /\ runner \in {"between", "testing"} /\ held \subseteq introduced
      /\ window' \in seen' \union {None}
  BY <1>1, <1>2, <1>6, <1>7
  DEF CompleteInv, Introduced, Now, CommandInTest, TabsSeen, Still
<1> QED
  BY <1>1, <1>2, <1>3, <1>4, <1>5, <1>6, <1>8, <1>9

LEMMA CompleteRun ==
    ASSUME CompleteInv, ~Stray,
           Drive \/ Switch \/ Close \/ CloseWindow \/ Hand \/ CannotHand
    PROVE  CompleteInv'
<1>0. SerialInv'
  BY SerialRest DEF CompleteInv
<1>1. /\ op = None /\ queue' = <<>> /\ steps = <<>> /\ op' = None
      /\ Settled("command") /\ runner \in {"between", "testing"}
      /\ Still /\ Grows
      /\ UNCHANGED <<currentWindow, introduced, pendingSwitch, runner>>
      /\ command # None /\ command.at = "run" /\ command \in Commands
      /\ command' # None /\ command'.at = "answered"
      /\ command'.kind = command.kind /\ command'.tab = command.tab
      /\ FollowerTypeOK /\ window' \in seen' \union {None}
      /\ held \subseteq introduced
  BY <1>0, RunFrame
<1>2. /\ SwitchPending /\ CurrentKnown /\ ClosingSettled /\ GapOfSwitch
      /\ DrivenCovered /\ GapsKnown /\ Verdicts
  BY DEF CompleteInv
<1>3. OperationsFit' /\ TabsSeen' /\ Settled("command")'
  BY <1>1, NothingQueued
<1>4. WindowCovered'
  BY <1>1, StillCovered
<1>5. GapOfSwitch'
  BY <1>1, <1>2 DEF GapOfSwitch, Still
<1>6. DrivenCovered'
  BY <1>1 DEF DrivenCovered, Now
<1>7. Introduced'
  <2>1. held' = held \/ command.kind \in {"handles", "create"}
    BY DEF Drive, Switch, Close, CloseWindow, Hand, CannotHand, Running
  <2> QED
    BY <1>1, <2>1 DEF Introduced, Now
<1>8. command.kind = "close" /\ ~command'.failed => command'.tab \notin open'
  <2>1. ASSUME command.kind = "close" PROVE Close
    BY <2>1 DEF Drive, Switch, Close, CloseWindow, Hand, CannotHand, Running
  <2>2. Close => \/ command' = [command EXCEPT !.at = "answered", !.failed = TRUE]
                 \/ open' = open \ {command.tab}
    BY DEF Close, ClosesTab, Answer
  <2>3. command' = [command EXCEPT !.at = "answered", !.failed = TRUE]
           => command'.failed
    BY <1>1 DEF Commands
  <2> QED
    BY <1>1, <2>1, <2>2, <2>3
<1>9. ClosingSettled'
  BY <1>1, <1>2, <1>8 DEF ClosingSettled, Now, Still
<1>10. CASE command.kind = "switch"
  <2>1. Switch /\ held' = held /\ missed' = missed
    BY <1>10 DEF Drive, Switch, Close, CloseWindow, Hand, CannotHand, Running
  <2>2. CASE command.tab \in open
    <3>1. wdioWindow' = command.tab /\ pendingSwitch # None
      BY <1>1, <1>2, <1>10, <2>1, <2>2 DEF Switch, SwitchPending, Now
    <3>2. SwitchPending' /\ CurrentKnown'
      BY <1>1, <1>2, <1>10, <2>1, <3>1 DEF SwitchPending, CurrentKnown, Now
    <3>3. GapsKnown' /\ Verdicts'
      BY <1>1, <2>1, StillCovered
    <3> QED
      BY <1>0, <1>3, <1>4, <1>5, <1>6, <1>7, <1>9, <3>2, <3>3 DEF CompleteInv
  <2>3. CASE command.tab \notin open
    <3>1. /\ wdioWindow' = wdioWindow
          /\ command' = [command EXCEPT !.at = "answered", !.failed = TRUE]
      BY <2>1, <2>3 DEF Switch, Answer
    <3>2. command'.failed
      BY <1>1, <3>1 DEF Commands
    <3>3. SwitchPending' /\ CurrentKnown'
      BY <1>1, <1>2, <1>10, <2>1, <3>1, <3>2
      DEF SwitchPending, CurrentKnown, Now
    <3>4. GapsKnown' /\ Verdicts'
      BY <1>1, <2>1, StillCovered
    <3> QED
      BY <1>0, <1>3, <1>4, <1>5, <1>6, <1>7, <1>9, <3>3, <3>4 DEF CompleteInv
  <2> QED
    BY <2>2, <2>3
<1>11. CASE command.kind # "switch"
  <2>1. pendingSwitch = None
    BY <1>2, <1>11 DEF SwitchPending, Now
  <2>2. wdioWindow' \in {wdioWindow, None}
    BY <1>11 DEF Drive, Switch, Close, CloseWindow, Hand, CannotHand, Running,
                 ClosesTab, browser
  <2>3. SwitchPending' /\ CurrentKnown'
    BY <1>1, <1>2, <1>11, <2>1, <2>2 DEF SwitchPending, CurrentKnown, Now
  <2>4. CASE missed' = missed
    <3>1. GapsKnown' /\ Verdicts'
      BY <1>1, <2>4, StillCovered
    <3> QED
      BY <1>0, <1>3, <1>4, <1>5, <1>6, <1>7, <1>9, <2>3, <3>1 DEF CompleteInv
  <2>5. CASE missed' # missed
    <3> DEFINE tab == IF command.kind = "drive" THEN command.tab ELSE wdioWindow
    <3>1. /\ command.kind \in {"drive", "current"} /\ tab \in open
          /\ slug # 0 /\ capture # tab
          /\ missed' = missed \union {slug}
      BY <2>5 DEF Drive, Switch, Close, CloseWindow, Hand, CannotHand, Running
    <3>2. tab # None
      BY <1>1, <3>1, NoTab DEF FollowerTypeOK
    <3>3. tab = Driven
      BY <1>1, <1>2, <2>1, <3>1, <3>2
      DEF Driven, DrivenCovered, CurrentKnown, Now
    <3>4. Covered(Driven)
      BY <1>1, <1>2, <3>1 DEF DrivenCovered, Now
    <3>5. Known
      BY <3>1, <3>3, <3>4 DEF Covered
    <3>6. GapsKnown'
      BY <1>1, <3>5 DEF GapsKnown, Known, Still
    <3>7. slug \in 1 .. begun
      BY <1>0, <1>1, <1>2, <3>1
      DEF Verdicts, CompleteInv, SerialInv, FollowerInv, ControlInv,
          ControlTypeOK
    <3>8. Verdicts'
      <4>1. missed' \union spoiled \subseteq 1 .. begun
        BY <1>2, <3>1, <3>7 DEF Verdicts
      <4>2. ASSUME NEW r \in Recordings, results[r] = "completed"
            PROVE  r # slug
        BY <1>1, <1>2, <4>2 DEF Verdicts
      <4> QED
        BY <1>1, <1>2, <3>1, <4>1, <4>2 DEF Verdicts, Still
    <3> QED
      BY <1>0, <1>3, <1>4, <1>5, <1>6, <1>7, <1>9, <2>3, <3>6, <3>8
      DEF CompleteInv
  <2> QED
    BY <2>4, <2>5
<1> QED
  BY <1>10, <1>11

\* What the hooks after a command find, and leave alone.
LEMMA AfterFrame ==
    ASSUME CompleteInv,
           AfterHand \/ AfterDrive \/ AfterSwitch \/ AfterClose
              \/ AfterCloseWindow
    PROVE  /\ op = None /\ queue = <<>> /\ steps = <<>> /\ op' = None
           /\ Settled("command") /\ runner \in {"between", "testing"}
           /\ Still /\ Grows
           /\ UNCHANGED <<open, wdioWindow, runner, held, missed, seen>>
           /\ command # None /\ command.at = "answered" /\ command \in Commands
           /\ FollowerTypeOK /\ window' \in seen' \union {None}
           /\ capture # None => unconfirmed = None
<1>1. /\ SerialInv /\ FollowerInv /\ FollowerTypeOK /\ CommandInTest /\ PhaseOK
      /\ HookUnchanged /\ TabsSeen
  BY DEF CompleteInv, SerialInv, FollowerInv, ControlInv, AfterHand, AfterDrive,
         AfterSwitch, AfterClose, AfterCloseWindow
<1>2. /\ command # None /\ command.at = "answered"
  BY DEF AfterHand, AfterDrive, AfterSwitch, AfterClose, AfterCloseWindow,
         Answered
<1>3. Settled("command") /\ command \in Commands
      /\ runner \in {"between", "testing"}
  BY <1>1, <1>2 DEF FollowerInv, CallersWait, FollowerTypeOK, CommandInTest
<1>4. op = None /\ queue = <<>> /\ steps = <<>>
  BY <1>1, <1>2, <1>3, ChainEmpty
<1>5. /\ Still /\ UNCHANGED <<open, wdioWindow, runner, held, missed, seen>>
      /\ op' = op
  BY <1>1 DEF Still, HookUnchanged, session, gaps, reports, browser
<1>6. Grows
  BY <1>1, <1>5 DEF Grows, FollowerTypeOK
<1>7. /\ window' \in seen' \union {None}
      /\ capture # None => unconfirmed = None
  BY <1>1, <1>5 DEF TabsSeen, Still, PhaseOK
<1> QED
  BY <1>1, <1>2, <1>3, <1>4, <1>5, <1>6, <1>7

\* A command that is done with asks for nothing.
LEMMA CommandEnds ==
    ASSUME CompleteInv, SerialInv', Still, Grows, command' = None,
           op' = None, queue' = <<>>, closing = None, pendingSwitch' = None,
           missed' = missed, runner' = runner, runner # "reloading",
           window' \in seen' \union {None}, held' \subseteq introduced',
           currentWindow' = None \/ wdioWindow' \in {None, currentWindow'}
    PROVE  CompleteInv'
<1>1. OperationsFit' /\ TabsSeen'
  BY NothingQueued
<1>2. WindowCovered' /\ GapsKnown' /\ Verdicts'
  BY StillCovered
<1>3. /\ Introduced' /\ SwitchPending' /\ CurrentKnown' /\ ClosingSettled'
      /\ GapOfSwitch' /\ DrivenCovered'
  BY DEF Introduced, SwitchPending, CurrentKnown, ClosingSettled, GapOfSwitch,
         DrivenCovered, Now, Still
<1> QED
  BY <1>1, <1>2, <1>3 DEF CompleteInv

\* What the hook after a command leaves, however the command ended.
LEMMA AfterComplete ==
    ASSUME CompleteInv, SerialInv',
           AfterSwitch \/ AfterClose \/ AfterCloseWindow,
           command' # None, command'.at = "settling",
           command'.kind = command.kind, pendingSwitch' = None,
           OperationsFit', TabsSeen', held \subseteq introduced',
           currentWindow' = None \/ wdioWindow \in {None, currentWindow'},
           (\E i \in DOMAIN queue' : queue'[i].reason = "switch-failed")
               => unconfirmed \in {None, command'.tab},
           ClosingSettled'
    PROVE  CompleteInv'
<1>1. /\ op' = None /\ Still /\ Grows /\ runner \in {"between", "testing"}
      /\ UNCHANGED <<open, wdioWindow, runner, held, missed, seen>>
  BY AfterFrame
<1>2. WindowCovered' /\ GapsKnown' /\ Verdicts'
  BY <1>1, StillCovered
<1>3. /\ Introduced' /\ SwitchPending' /\ CurrentKnown'
      /\ GapOfSwitch' /\ DrivenCovered'
  BY <1>1 DEF Introduced, SwitchPending, CurrentKnown, GapOfSwitch,
         DrivenCovered, Now, Still
<1> QED
  BY <1>1, <1>2, <1>3 DEF CompleteInv

LEMMA CompleteAfter ==
    ASSUME CompleteInv,
           AfterHand \/ AfterDrive \/ AfterSwitch \/ AfterClose
              \/ AfterCloseWindow
    PROVE  CompleteInv'
<1>0. SerialInv'
  BY SerialHooks DEF CompleteInv
<1>1. /\ op = None /\ queue = <<>> /\ steps = <<>> /\ op' = None
      /\ Settled("command") /\ runner \in {"between", "testing"}
      /\ Still /\ Grows
      /\ UNCHANGED <<open, wdioWindow, runner, held, missed, seen>>
      /\ command # None /\ command.at = "answered" /\ command \in Commands
      /\ FollowerTypeOK /\ window' \in seen' \union {None}
      /\ capture # None => unconfirmed = None
  BY AfterFrame
<1>2. /\ SwitchPending /\ CurrentKnown /\ ClosingSettled /\ GapOfSwitch
      /\ Introduced
  BY DEF CompleteInv
<1>3. command.kind # "close" => closing = None
  BY <1>2 DEF ClosingSettled, Now
<1>4. command.kind # "switch" =>
         /\ pendingSwitch = None
         /\ currentWindow = None \/ wdioWindow \in {None, currentWindow}
  BY <1>1, <1>2 DEF SwitchPending, CurrentKnown, Now
<1>5. command.kind \notin {"handles", "create"} => held \subseteq introduced
  BY <1>2 DEF Introduced, Now
<1>6. CASE AfterHand
  <2>1. /\ command.kind \in {"handles", "create"} /\ command' = None
        /\ introduced' = introduced \union held
        /\ UNCHANGED <<currentWindow, pendingSwitch, queue>>
    BY <1>6 DEF AfterHand, Answered
  <2> QED
    BY <1>0, <1>1, <1>3, <1>4, <2>1, CommandEnds
<1>7. CASE AfterDrive
  <2>1. /\ command.kind \in {"drive", "current"} /\ command' = None
        /\ UNCHANGED <<introduced, currentWindow, pendingSwitch, queue>>
    BY <1>7 DEF AfterDrive, Answered, follower
  <2> QED
    BY <1>0, <1>1, <1>3, <1>4, <1>5, <2>1, CommandEnds
<1>8. ASSUME Proceed("settling")
      PROVE  /\ command' # None /\ command'.at = "settling"
             /\ command'.kind = command.kind /\ command'.tab = command.tab
             /\ command'.failed = command.failed
  <2>1. /\ command' # None /\ command'.at = "settling"
        /\ command'.kind = command.kind /\ command'.tab = command.tab
    BY <1>1, <1>8, CommandMoves DEF Proceed
  <2>2. command'.failed = command.failed
    BY <1>1, <1>8 DEF Proceed, Commands
  <2> QED
    BY <2>1, <2>2
<1>9. CASE AfterSwitch
  <2>1. command.kind = "switch" /\ Proceed("settling") /\ pendingSwitch' = None
    BY <1>9 DEF AfterSwitch, Answered
  <2>2. /\ command' # None /\ command'.at = "settling"
        /\ command'.kind = command.kind /\ command'.tab = command.tab
    BY <1>8, <2>1
  <2>3. ClosingSettled'
    BY <1>1, <1>3, <2>1, <2>2 DEF ClosingSettled, Now, Still
  <2>4. CASE ~(command.failed /\ pendingSwitch # None)
    <3>1. UNCHANGED <<introduced, currentWindow, queue>>
      BY <1>9, <2>4 DEF AfterSwitch
    <3>2. currentWindow = None \/ wdioWindow \in {None, currentWindow}
      BY <1>1, <1>2, <2>1, <2>4 DEF SwitchPending, CurrentKnown, Now
    <3>3. /\ OperationsFit' /\ TabsSeen'
      BY <1>1, <3>1, NothingQueued
    <3>4. \A i \in DOMAIN queue' : FALSE
      BY <1>1, <3>1
    <3> QED
      BY <1>0, <1>1, <1>5, <1>9, <2>1, <2>2, <2>3, <3>1, <3>2, <3>3, <3>4,
         AfterComplete
  <2>5. CASE command.failed /\ pendingSwitch # None
    <3>0. /\ pendingSwitch.tab = command.tab /\ currentWindow = command.tab
          /\ command.tab \in held => pendingSwitch.wasIntroduced
          /\ unconfirmed \in {None, command.tab}
      BY <1>1, <1>2, <2>5 DEF SwitchPending, GapOfSwitch
    <3>1. RecoverFailedSwitch
      BY <1>9, <2>5 DEF AfterSwitch
    <3>2. PICK current : current = wdioWindow
      OBVIOUS
    <3>3. /\ currentWindow' = current
          /\ IF current \in {None, command.tab} THEN UNCHANGED queue
             ELSE FollowTab(current, "switch-failed")
      BY <3>0, <3>1, <3>2 DEF RecoverFailedSwitch, CurrentWindow
    <3>4. held \subseteq introduced'
      BY <1>5, <2>1, <3>0, <3>1 DEF RecoverFailedSwitch
    <3>5. CASE queue' = <<>>
      <4>1. OperationsFit' /\ TabsSeen'
        BY <1>1, <3>5, NothingQueued
      <4>2. \A i \in DOMAIN queue' : FALSE
        BY <3>5
      <4> QED
        BY <1>0, <1>1, <1>9, <2>1, <2>2, <2>3, <3>2, <3>3, <3>4, <4>1, <4>2,
           AfterComplete
    <3>6. CASE /\ current \notin {None, command.tab}
               /\ HookAsks([kind |-> "follow", tab |-> current,
                            reason |-> "switch-failed", by |-> "command"])
      <4> DEFINE o == [kind |-> "follow", tab |-> current,
                       reason |-> "switch-failed", by |-> "command"]
      <4>1. HookFits(o)'
        BY <1>1, <2>1, <2>2, <3>6 DEF HookFits, Now
      <4>2. current \in seen \union {None}
        BY <1>1, <3>2 DEF FollowerTypeOK
      <4>3. OperationsFit' /\ TabsSeen'
        BY <1>1, <3>6, <4>1, <4>2, QueuedFits DEF HookAsks
      <4> QED
        BY <1>0, <1>1, <1>9, <2>1, <2>2, <2>3, <3>0, <3>2, <3>3, <3>4, <4>3,
           AfterComplete
    <3> QED
      BY <1>1, <3>3, <3>5, <3>6, FollowOne
  <2> QED
    BY <2>4, <2>5
<1>10. ASSUME command.kind \in {"close", "closeWindow"}, Proceed("settling"),
              NEW kind, NEW tab, NEW reason \in {"close-failed", "tab-closed"},
              Ask(kind, tab, reason), tab \in seen \union {None},
              kind \in {"recover-close", "resume"},
              HookFits([kind |-> kind, tab |-> tab, reason |-> reason,
                        by |-> "command"])'
       PROVE  /\ OperationsFit' /\ TabsSeen'
              /\ \A i \in DOMAIN queue' : queue'[i].reason # "switch-failed"
              /\ slug # 0 => \E i \in DOMAIN queue' :
                    queue'[i].kind \in {"recover-close", "resume"}
  <2>1. CASE queue' = <<>> /\ slug = 0
    BY <1>1, <2>1, NothingQueued
  <2>2. CASE HookAsks([kind |-> kind, tab |-> tab, reason |-> reason,
                       by |-> "command"])
    BY <1>1, <1>10, <2>2, QueuedFits DEF HookAsks
  <2> QED
    BY <1>1, <1>10, <2>1, <2>2, AskOne
<1>11. CASE AfterClose
  <2>1. command.kind = "close" /\ Proceed("settling") /\ pendingSwitch' = None
    BY <1>4, <1>11 DEF AfterClose, Answered
  <2>2. /\ command' # None /\ command'.at = "settling"
        /\ command'.kind = command.kind /\ command'.tab = command.tab
        /\ command'.failed = command.failed
    BY <1>8, <2>1
  <2>3. /\ introduced' = introduced
        /\ currentWindow' \in {None, currentWindow}
    BY <1>11 DEF AfterClose
  <2>4. /\ OperationsFit' /\ TabsSeen'
        /\ \A i \in DOMAIN queue' : queue'[i].reason # "switch-failed"
        /\ slug # 0 => \E i \in DOMAIN queue' :
              queue'[i].kind \in {"recover-close", "resume"}
    <3>1. CASE command.failed /\ Ask("recover-close", command.tab, "close-failed")
      <4>1. PICK tab : tab = command.tab
        OBVIOUS
      <4>2. tab \in seen
        BY <1>1, <2>1, <4>1 DEF FollowerTypeOK
      <4>3. HookFits([kind |-> "recover-close", tab |-> tab,
                      reason |-> "close-failed", by |-> "command"])'
        BY <2>1, <2>2, <4>1 DEF HookFits, Now
      <4>4. Ask("recover-close", tab, "close-failed")
        BY <3>1, <4>1
      <4> QED
        BY <1>10, <2>1, <4>2, <4>3, <4>4
    <3>2. CASE ~command.failed /\ Ask("resume", None, "tab-closed")
      <4>1. HookFits([kind |-> "resume", tab |-> None,
                      reason |-> "tab-closed", by |-> "command"])'
        BY <2>1, <2>2, <3>2 DEF HookFits, Now
      <4> QED
        BY <1>10, <2>1, <3>2, <4>1
    <3> QED
      BY <1>11, <3>1, <3>2 DEF AfterClose
  <2>5. ClosingSettled'
    <3>1. \A i \in DOMAIN queue' : queue[i]' = queue'[i]
      OBVIOUS
    <3> QED
      BY <1>1, <1>2, <2>1, <2>2, <2>4, <3>1 DEF ClosingSettled, Now, Still
  <2> QED
    BY <1>0, <1>1, <1>4, <1>5, <1>11, <2>1, <2>2, <2>3, <2>4, <2>5,
       AfterComplete
<1>12. CASE AfterCloseWindow
  <2>1. /\ command.kind = "closeWindow" /\ Proceed("settling")
        /\ pendingSwitch' = None /\ introduced' = introduced
        /\ currentWindow' \in {None, currentWindow}
        /\ Ask("resume", None, "tab-closed")
    BY <1>4, <1>12 DEF AfterCloseWindow, Answered
  <2>2. /\ command' # None /\ command'.at = "settling"
        /\ command'.kind = command.kind
    BY <1>8, <2>1
  <2>3. HookFits([kind |-> "resume", tab |-> None,
                  reason |-> "tab-closed", by |-> "command"])'
    BY <2>1, <2>2 DEF HookFits, Now
  <2>4. /\ OperationsFit' /\ TabsSeen'
        /\ \A i \in DOMAIN queue' : queue'[i].reason # "switch-failed"
    BY <1>10, <2>1, <2>3
  <2>5. ClosingSettled'
    BY <1>1, <1>3, <2>1, <2>2 DEF ClosingSettled, Now, Still
  <2> QED
    BY <1>0, <1>1, <1>4, <1>5, <1>12, <2>1, <2>2, <2>4, <2>5, AfterComplete
<1> QED
  BY <1>6, <1>7, <1>9, <1>11, <1>12

LEMMA CompleteReturned ==
    ASSUME CompleteInv, ~Stray, Returned
    PROVE  CompleteInv'
<1>0. /\ SerialInv' /\ FollowerInv /\ CommandInTest /\ SwitchPending
      /\ CurrentKnown /\ ClosingSettled /\ Introduced /\ TabsSeen
      /\ FollowerTypeOK
  BY SerialRest DEF CompleteInv, SerialInv, FollowerInv
<1>1. /\ command # None /\ command.at = "settling" /\ Settled("command")
      /\ command' = None
      /\ UNCHANGED <<controlVars, follower, runner, held, missed, seen>>
  BY DEF Returned
<1>2. op = None /\ queue = <<>> /\ steps = <<>>
      /\ runner \in {"between", "testing"}
  BY <1>0, <1>1, ChainEmpty DEF CommandInTest
<1>3. /\ Still /\ UNCHANGED <<open, wdioWindow, op, queue>>
      /\ UNCHANGED <<currentWindow, introduced, pendingSwitch>>
  BY <1>1 DEF Still, controlVars, session, gaps, chain, reports, browser, follower
<1>4. Grows
  BY <1>0, <1>1, <1>3 DEF Grows, FollowerTypeOK
<1>5. closing = None
  <2>1. \A i \in DOMAIN queue : FALSE
    BY <1>2
  <2> QED
    BY <1>0, <1>1, <1>2, <2>1 DEF ClosingSettled
<1>6. /\ pendingSwitch = None /\ held \subseteq introduced
      /\ currentWindow = None \/ wdioWindow \in {None, currentWindow}
      /\ window' \in seen' \union {None}
  BY <1>0, <1>1, <1>2, <1>3
  DEF SwitchPending, Introduced, CurrentKnown, Now, TabsSeen, Still
<1> QED
  BY <1>0, <1>1, <1>2, <1>3, <1>4, <1>5, <1>6, CommandEnds

LEMMA CompleteSend ==
    ASSUME CompleteInv, ~Stray, Send
    PROVE  CompleteInv'
<1>0. /\ SerialInv' /\ FollowerInv /\ CommandInTest /\ SwitchPending
      /\ CurrentKnown /\ ClosingSettled /\ Introduced /\ TabsSeen
      /\ FollowerTypeOK
  BY SerialRest DEF CompleteInv, SerialInv, FollowerInv
<1>1. /\ command = None /\ runner \in {"between", "testing"}
      /\ UNCHANGED <<controlVars, follower, runner, held, missed, seen>>
  BY DEF Send
<1>2. op = None /\ queue = <<>> /\ steps = <<>>
  BY <1>0, <1>1, ChainEmpty DEF FollowerInv, CallersWait
<1>3. /\ Still /\ UNCHANGED <<open, wdioWindow, op, queue>>
      /\ UNCHANGED <<currentWindow, introduced, pendingSwitch>>
  BY <1>1 DEF Still, controlVars, session, gaps, chain, reports, browser, follower
<1>4. Grows
  BY <1>0, <1>1, <1>3 DEF Grows, FollowerTypeOK
<1>4a. PICK kind \in CommandKinds : \E tab \in Nameable(kind) :
        command' = [kind |-> kind, tab |-> tab, at |-> "sent",
                    failed |-> FALSE]
  BY DEF Send
<1>5. PICK tab \in Nameable(kind) :
        command' = [kind |-> kind, tab |-> tab, at |-> "sent",
                    failed |-> FALSE]
  BY <1>4a
<1>6. /\ command' # None /\ command'.at = "sent"
      /\ command'.kind = "drive" => command'.tab \in held
  <2>1. tab \in Tabs \union {None}
    BY <1>0 DEF Nameable, FollowerTypeOK
  <2>2. command' \in Commands
    BY <1>5, <2>1 DEF Commands
  <2>3. command'.at = "sent" /\ command'.kind = kind /\ command'.tab = tab
    BY <1>5
  <2> QED
    BY <2>2, <2>3, CommandAssumption DEF Nameable
<1>7. OperationsFit' /\ TabsSeen'
  BY <1>0, <1>2, <1>3, <1>1, NothingQueued DEF TabsSeen, Still
<1>8. WindowCovered' /\ GapsKnown' /\ Verdicts'
  BY <1>0, <1>1, <1>3, <1>4, StillCovered DEF CompleteInv
<1>9. closing = None /\ pendingSwitch = None /\ held \subseteq introduced
  BY <1>0, <1>1 DEF ClosingSettled, SwitchPending, Introduced, Now
<1>10. Introduced'
  BY <1>1, <1>3, <1>6, <1>9 DEF Introduced, Now
<1>11. SwitchPending' /\ CurrentKnown' /\ ClosingSettled'
  BY <1>0, <1>1, <1>3, <1>6, <1>9
  DEF SwitchPending, CurrentKnown, ClosingSettled, Now, Still
<1>12. GapOfSwitch' /\ DrivenCovered'
  <2>1. \A i \in DOMAIN queue : FALSE
    BY <1>2
  <2> QED
    BY <1>2, <1>3, <1>6, <1>9, <2>1 DEF GapOfSwitch, DrivenCovered, Now
<1> QED
  BY <1>0, <1>7, <1>8, <1>10, <1>11, <1>12 DEF CompleteInv

LEMMA CompletePage ==
    ASSUME CompleteInv, ~Stray, PageOpens \/ PageCloses
    PROVE  CompleteInv'
<1>0. /\ SerialInv' /\ OperationsFit /\ TabsSeen /\ Introduced /\ SwitchPending
      /\ CurrentKnown /\ ClosingSettled /\ GapOfSwitch /\ DrivenCovered
      /\ FollowerTypeOK
  BY SerialRest DEF CompleteInv, SerialInv, FollowerInv
<1>1. /\ UNCHANGED <<queue, command, runner, held, missed>>
      /\ UNCHANGED <<currentWindow, introduced, pendingSwitch>>
      /\ Still
  BY DEF PageOpens, PageCloses, TestUnchanged, test, follower, Still, session,
         gaps, reports
<1>2. /\ seen \subseteq seen' /\ open' \intersect seen \subseteq open
      /\ wdioWindow' \in {wdioWindow, None}
      /\ open' \subseteq Tabs
  BY <1>0 DEF PageOpens, PageCloses, ClosesTab, FollowerTypeOK
<1>3. Grows
  BY <1>2 DEF Grows
<1>4. /\ WindowCovered' /\ GapsKnown' /\ Verdicts'
      /\ op # None /\ op.kind = "follow" /\ op.reason = "command" =>
            (steps = <<>> => Covered(op.tab)')
  BY <1>1, <1>3, StillCovered
<1>5. OperationsFit'
  BY <1>0, <1>1
  DEF OperationsFit, Fits, HookFits, Now, Driven, Still
<1>6. TabsSeen'
  BY <1>0, <1>1, <1>2 DEF TabsSeen, Still
<1>7. Introduced' /\ CurrentKnown'
  BY <1>0, <1>1, <1>2 DEF Introduced, CurrentKnown, Now
<1>8. command # None /\ command.kind \in {"switch", "close"} =>
         (command.tab \in open' => command.tab \in open)
  BY <1>0, <1>2 DEF FollowerTypeOK
<1>9. SwitchPending'
  BY <1>0, <1>1, <1>2, <1>8 DEF SwitchPending, Now
<1>10. ClosingSettled'
  <2>1. \A i \in DOMAIN queue : queue'[i] = queue[i]
    BY <1>1
  <2> QED
    BY <1>0, <1>1, <1>8, <2>1 DEF ClosingSettled, Now, Still
<1>11. GapOfSwitch'
  BY <1>0, <1>1 DEF GapOfSwitch, Settled, Still
<1>12. DrivenCovered'
  <2>1. Driven' = Driven /\ Settled("command")' = Settled("command")
        /\ (command # None => Driven \in seen \union {None})
    BY <1>0, <1>1 DEF Driven, Settled, Still, FollowerTypeOK
  <2>2. Driven \in open' => command = None \/ Driven \in open
    BY <1>2, <2>1, NoTab
  <2>3. Now({"drive", "current"}, {"run"}) /\ Covered(Driven)
           => Covered(Driven)'
    BY <1>1, <2>1, <2>2 DEF Covered, Known, Still, Now
  <2>4. Now({"drive", "current"}, {"run"})' = Now({"drive", "current"}, {"run"})
    BY <1>1 DEF Now
  <2> QED
    BY <1>0, <1>1, <1>2, <1>4, <2>1, <2>3, <2>4 DEF DrivenCovered, Now, Still
<1> QED
  BY <1>0, <1>4, <1>5, <1>6, <1>7, <1>9, <1>10, <1>11, <1>12 DEF CompleteInv

\* Between commands the runner's hooks are all there is.
LEMMA CompleteRunner ==
    ASSUME CompleteInv, ~Stray,
           HookReturns \/ Reloaded \/ EndTest \/ BeginTest \/ Reload \/ After
    PROVE  CompleteInv'
<1>0. /\ SerialInv' /\ FollowerInv /\ CommandInTest /\ OperationsFit
      /\ TabsSeen /\ Introduced /\ SwitchPending /\ CurrentKnown
      /\ ClosingSettled /\ GapOfSwitch /\ FollowerTypeOK
  BY SerialRest DEF CompleteInv, SerialInv, FollowerInv
<1>1. /\ command = None /\ command' = None
  BY <1>0 DEF HookReturns, Reloaded, EndTest, BeginTest, Reload, After,
              RunnerMoves, CommandInTest
<1>2. /\ Still /\ UNCHANGED <<missed, op>>
  BY DEF HookReturns, Reloaded, EndTest, BeginTest, Reload, After, RunnerMoves,
         TestUnchanged, session, gaps, reports, Still
<1>3. /\ closing = None /\ pendingSwitch = None /\ held \subseteq introduced
      /\ runner = "reloading" => held = {}
  BY <1>0, <1>1 DEF ClosingSettled, SwitchPending, Introduced, Now
<1>4. /\ seen \subseteq seen' /\ open' \intersect seen \subseteq open
      /\ open' \subseteq Tabs
  BY <1>0 DEF HookReturns, Reloaded, EndTest, BeginTest, Reload, After, browser,
              FollowerTypeOK
<1>5. Grows
  BY <1>4 DEF Grows
<1>6. /\ pendingSwitch' = None /\ held' \subseteq introduced'
      /\ runner' = "reloading" => held' = {}
      /\ \/ currentWindow' = None \/ runner' = "reloading"
         \/ /\ UNCHANGED <<currentWindow, wdioWindow>>
            /\ runner # "reloading"
  BY <1>3 DEF HookReturns, Reloaded, EndTest, BeginTest, Reload, After,
              RunnerMoves, follower, browser
<1>7. /\ WindowCovered' /\ GapsKnown' /\ Verdicts'
      /\ op # None /\ op.kind = "follow" /\ op.reason = "command" =>
            (steps = <<>> => Covered(op.tab)')
  BY <1>2, <1>5, StillCovered
<1>8. \/ queue' = queue
      \/ \E kind \in {"begin", "end", "teardown"} :
            /\ queue = <<>>
            /\ Enqueue(kind, None, "start", "runner")
  <2>1. runner \in {"between", "testing"} => queue = <<>>
    BY <1>0, <1>1, ChainEmpty DEF FollowerInv, CallersWait
  <2> QED
    BY <2>1 DEF HookReturns, Reloaded, EndTest, BeginTest, Reload, After
<1>9. ASSUME NEW o, Fits(o)
      PROVE  Fits(o)' /\ o.reason = "start"
  BY <1>1, <1>9 DEF Fits, HookFits, Now
<1>10. /\ OperationsFit' /\ TabsSeen'
       /\ \A i \in DOMAIN queue' : queue'[i].reason = "start"
  <2>1. /\ op' # None => Fits(op)'
        /\ op' # None => op'.tab \in seen' \union {None}
        /\ window' \in seen' \union {None}
    <3>2. op' # None => Fits(op)'
      BY <1>1, <1>2, <1>0 DEF OperationsFit, Fits, HookFits, Now
    <3> QED
      BY <1>0, <1>2, <1>4, <3>2 DEF TabsSeen, Still
  <2>2. CASE queue' = queue
    <3>1. ASSUME NEW i \in DOMAIN queue
          PROVE  /\ Fits(queue[i])' /\ queue[i].reason = "start"
                 /\ queue[i].tab \in seen'
                    \/ queue[i].tab = None
      BY <1>0, <1>1, <1>4, <2>2
      DEF OperationsFit, TabsSeen, Fits, HookFits, Now
    <3> QED
      BY <2>1, <2>2, <3>1 DEF OperationsFit, TabsSeen
  <2>3. ASSUME NEW kind \in {"begin", "end", "teardown"}, queue = <<>>,
               Enqueue(kind, None, "start", "runner")
        PROVE  /\ OperationsFit' /\ TabsSeen'
               /\ \A i \in DOMAIN queue' : queue'[i].reason = "start"
    <3> DEFINE o == [kind |-> kind, tab |-> None, reason |-> "start",
                     by |-> "runner"]
    <3>1. queue' = Append(queue, o)
      BY <2>3 DEF Enqueue
    <3>2. /\ o.kind = kind /\ o.tab = None /\ o.reason = "start"
          /\ o.by = "runner"
      OBVIOUS
    <3>3. Fits(o)'
      BY <3>2 DEF Fits
    <3> HIDE DEF o
    <3>4. DOMAIN queue' = {1} /\ queue'[1] = o
      BY <2>3, <3>1
    <3> QED
      BY <2>1, <3>2, <3>3, <3>4 DEF OperationsFit, TabsSeen
  <2> QED
    BY <1>8, <2>2, <2>3
<1>11. Introduced' /\ SwitchPending' /\ CurrentKnown' /\ ClosingSettled'
  BY <1>0, <1>1, <1>2, <1>3, <1>6
  DEF Introduced, SwitchPending, CurrentKnown, ClosingSettled, Now, Still
<1>12. GapOfSwitch' /\ DrivenCovered'
  BY <1>0, <1>1, <1>2, <1>6, <1>7, <1>10
  DEF GapOfSwitch, DrivenCovered, Now, Still
<1> QED
  BY <1>0, <1>7, <1>10, <1>11, <1>12 DEF CompleteInv

----------------------------------------------------------------------------
(* Layer 3: the steps of the chain.                                        *)

LEMMA ChainFrame ==
    ASSUME CompleteInv, ChainStep
    PROVE  /\ Step /\ ControlInv(Callers) /\ FollowerInv /\ CommandInTest
           /\ SerialInv' /\ FollowerTypeOK
           /\ UNCHANGED <<currentWindow, introduced, pendingSwitch, command,
                          runner, held, missed, seen, open, wdioWindow>>
           /\ queue' = <<>>
           /\ Taken \/ Kept \/ Done \/ (Successor /\ op # None)
           /\ slug \in Nat /\ begun \in Nat
<1>1. /\ Step /\ ControlInv(Callers) /\ FollowerInv /\ CommandInTest
      /\ SerialInv' /\ FollowerTypeOK
  BY SerialChain DEF CompleteInv, SerialInv, FollowerInv, ChainStep
<1>2. UNCHANGED <<currentWindow, introduced, pendingSwitch, command, runner,
                  held, missed, seen, open, wdioWindow>>
  BY <1>1, StepBrowser DEF ChainStep, follower, test, browser
<1>3. Taken \/ Kept \/ Done \/ (Successor /\ op # None)
  BY <1>1, CallersAreNames, ChainMoves
<1>4. queue' = <<>>
  BY <1>1, <1>3, OneOperation DEF Taken, Kept, Done, Successor
<1>5. slug \in Nat /\ begun \in Nat
  BY <1>1, FaultAssumption DEF ControlInv, ControlTypeOK
<1> QED
  BY <1>1, <1>2, <1>3, <1>4, <1>5

\* The operation that starts was asked for by the hook that waits for it.
LEMMA TakenFits ==
    ASSUME CompleteInv, Taken
    PROVE  /\ op' = queue[1] /\ 1 \in DOMAIN queue
           /\ op' = Head(queue) /\ op' \in Operations(Callers) /\ op' # None
           /\ Fits(queue[1]) /\ queue[1].tab \in seen \union {None}
           /\ OwnKind(queue[1])
           /\ ~Settled(queue[1].by)
<1>1. /\ queue \in Seq(Operations(Callers)) /\ OperationsFit /\ TabsSeen
      /\ ChainOK
  BY DEF CompleteInv, SerialInv, FollowerInv, ControlInv, ControlTypeOK
<1>2. op' = queue[1] /\ 1 \in DOMAIN queue /\ op' \in Operations(Callers)
  BY <1>1 DEF Taken
<1>3. op' # None
  BY <1>2, CallersAreNames, OperationAssumption DEF Operations
<1> QED
  BY <1>1, <1>2, <1>3 DEF Taken, OperationsFit, TabsSeen, ChainOK, Settled

\* An operation of the command under way works on the recording of its test.
LEMMA CommandsOperation ==
    ASSUME CompleteInv, op # None, op.kind \notin {"begin", "end", "teardown"}
    PROVE  HookFits(op) /\ slug # 0 /\ ~Settled("command")
<1>1. op.by = "command" /\ ~Settled("command")
  BY OperationCaller DEF CompleteInv, SerialInv, FollowerInv
<1> QED
  BY <1>1 DEF CompleteInv, OperationsFit, Fits, SerialInv, CommandRecorded

LEMMA CommandsTaken ==
    ASSUME CompleteInv, NEW kind \in Kinds \ {"begin", "end", "teardown"},
           Take(kind)
    PROVE  /\ Head(queue) = queue[1] /\ op' = queue[1] /\ op' # None
           /\ queue[1].kind = kind /\ HookFits(queue[1]) /\ slug # 0
           /\ 1 \in DOMAIN queue /\ op = None /\ steps = <<>>
           /\ ~Settled("command")
<1>1. Taken
  BY DEF Take, Taken, CompleteInv, SerialInv, FollowerInv, ControlInv, StepsOK
<1>2. /\ op' = queue[1] /\ 1 \in DOMAIN queue /\ op' = Head(queue)
      /\ op' # None /\ Fits(queue[1]) /\ OwnKind(queue[1])
      /\ ~Settled(queue[1].by) /\ op' \in Operations(Callers)
  BY <1>1, TakenFits
<1>3. queue[1].kind = kind /\ queue[1].by # "runner" /\ queue[1].by \in Callers
  BY <1>2 DEF Take, OwnKind, Operations
<1>4. queue[1].by = "command"
  BY <1>3 DEF Callers
<1> QED
  BY <1>1, <1>2, <1>3, <1>4
  DEF Fits, Taken, CompleteInv, SerialInv, CommandRecorded

LEMMA FollowerStands ==
    ASSUME CompleteInv, ChainStep
    PROVE  Introduced' /\ SwitchPending' /\ CurrentKnown'
BY ChainFrame
DEF CompleteInv, Introduced, SwitchPending, CurrentKnown, Now

LEMMA OperationStands ==
    ASSUME CompleteInv, ChainStep
    PROVE  OperationsFit' /\ TabsSeen'
<1>1. /\ ControlInv(Callers) /\ Step /\ FollowerTypeOK /\ queue' = <<>>
      /\ UNCHANGED <<currentWindow, command, seen, wdioWindow, open>>
      /\ Taken \/ Kept \/ Done \/ (Successor /\ op # None)
      /\ OperationsFit /\ TabsSeen
  BY ChainFrame DEF CompleteInv
<1>2. ASSUME NEW o, Fits(o) PROVE Fits(o)'
  BY <1>1, <1>2 DEF Fits, HookFits, Now, Driven
<1>3. /\ op' # None => Fits(op')
      /\ op' # None => op'.tab \in seen \union {None}
  <2>1. CASE Taken
    BY <2>1, TakenFits
  <2>2. CASE Kept \/ Done
    BY <1>1, <2>2 DEF Kept, Done, OperationsFit, TabsSeen
  <2>3. CASE Successor /\ op # None
    <3>1. op.kind = "resume" /\ op \in Operations(Callers)
      BY <1>1, <2>3, CallersAreNames, AtWord
      DEF Successor, Planned, Stopping
    <3>2. op' = op \/ op' = [op EXCEPT !.tab = wdioWindow]
      BY <2>3 DEF Successor
    <3>3. /\ op'.kind = op.kind /\ op'.reason = op.reason /\ op'.by = op.by
          /\ op'.tab \in {op.tab, wdioWindow}
      BY <3>1, <3>2 DEF Operations
    <3>4. Fits(op) /\ op.tab \in seen \union {None}
      BY <1>1, <2>3 DEF OperationsFit, TabsSeen
    <3>5. Fits(op')
      BY <3>1, <3>3, <3>4 DEF Fits, HookFits
    <3> QED
      BY <1>1, <3>3, <3>4, <3>5 DEF FollowerTypeOK
  <2> QED
    BY <1>1, <2>1, <2>2, <2>3
<1>4. OperationsFit'
  <2>1. PICK o : o = op'
    OBVIOUS
  <2>2. o # None => Fits(o)'
    BY <1>2, <1>3, <2>1
  <2> QED
    BY <1>1, <2>1, <2>2 DEF OperationsFit, Fits, HookFits
<1>5. window' \in seen \union {None}
  <2>1. window \in seen \union {None}
    BY <1>1 DEF TabsSeen
  <2>2. CASE Record \/ Select
    BY <1>1, <2>2, CallersAreNames, AtWord DEF Record, Select, TabsSeen
  <2>3. CASE Attach
    <3>1. op # None /\ op.tab \in seen \union {None}
      BY <1>1, <2>3, CallersAreNames, AtWord DEF Attach, TabsSeen
    <3> QED
      BY <1>1, <2>1, <2>3, <3>1
      DEF Attach, Attached, NotAttached, Target, FollowerTypeOK
  <2>4. CASE ~Record /\ ~Select /\ ~Attach
    <3>1. window' \in {window, None}
      BY <1>1, <2>4
      DEF Step, Begin, End, Follow, StopClosing, RecoverClose, Resume, Teardown,
          Acquire, StopNothing, Detach, Stopped, ReleaseSlot, FinalizeSegment,
          MarkClosing, Successor, Complete, ReleaseResources, Reset, Forget,
          ForgetRecording, Finish, session
    <3> QED
      BY <2>1, <3>1
  <2> QED
    BY <2>2, <2>3, <2>4
<1>6. TabsSeen'
  BY <1>1, <1>3, <1>5 DEF TabsSeen
<1> QED
  BY <1>4, <1>6

LEMMA ConfirmedKnown ==
    ASSUME slug \in Nat, NEW gap, failure # None \/ gap # None
    PROVE  Confirmed(gap) # None
BY NoneAssumption DEF Confirmed, Report

\* How the steps of an operation lead on.
LEMMA LeadsOn ==
    ASSUME CompleteInv, ChainStep
    PROVE  /\ \A w \in Stopping \union {"complete"} :
                 At(w) => Tail(steps) # <<>>
           /\ steps # <<>> =>
                 \A w \in Words : GoOn(<<w>>) => steps' # <<>>
<1>1. StepsOK /\ ControlInv(Callers)
  BY ChainFrame DEF ControlInv
<1>2. ASSUME NEW w \in Stopping \union {"complete"}, At(w)
      PROVE  Tail(steps) # <<>>
  <2>1. Planned(op.kind, w, Tail(steps))
    BY <1>1, <1>2, CallersAreNames, AtWord
  <2>2. \/ Tail(steps) \in {<<"record">>, <<"select">>, <<"closing">>,
                            <<"next">>, <<"reset">>}
        \/ Tail(steps) \in {<<"complete", "reset">>, <<"reset", "release">>}
    BY <1>2, <2>1 DEF Planned, Stopping
  <2> QED
    BY <2>2, One, Two
<1>3. ASSUME steps # <<>>, NEW w \in Words, GoOn(<<w>>)
      PROVE  steps' # <<>>
  <2>1. Tail(steps) \in Seq(Words)
    BY <1>1, <1>3 DEF StepsOK
  <2> QED
    BY <1>3, <2>1, Cons DEF GoOn
<1> QED
  BY <1>2, <1>3

\* How an operation, or a step of it, comes to its end with a recording left.
LEMMA StepEnds ==
    ASSUME CompleteInv, ChainStep, steps' = <<>>, slug' # 0
    PROVE  \/ /\ Finish \/ Begin \/ RecoverClose
              /\ steps = <<>>
              /\ UNCHANGED <<slug, window, capture, failure, closing,
                             unconfirmed, broken>>
           \/ Follow /\ window = Head(queue).tab
           \/ StopClosing
           \/ Resume /\ ~(window # None /\ closing = window)
           \/ /\ NoteGap /\ Kept /\ window' = op.tab /\ slug # 0
              /\ op.kind \notin {"begin", "end", "teardown"}
              /\ UNCHANGED <<slug, broken>>
           \/ Attach /\ Attached /\ Kept
           \/ Kept /\ slug' = slug /\ slug' \in broken'
           \/ MarkClosing /\ op.tab = window
           \/ /\ Successor /\ window' = window /\ op.kind = "resume"
              /\ steps # <<>> /\ Head(steps) = "next"
<1>0. /\ Step /\ ControlInv(Callers) /\ ControlInv(Callers)'
      /\ "reset" \in Words /\ "acquire" \in Words /\ "attach" \in Words
      /\ "stopped" \in Words /\ "slot" \in Words /\ "segment" \in Words
      /\ "forget" \in Words
  BY ChainFrame DEF SerialInv, FollowerInv, Words, Stopping
<1>1. ASSUME NEW w \in Words, At(w)
      PROVE  /\ ~GoOn(<<"reset">>) /\ ~GoOn(<<"acquire">>)
             /\ ~GoOn(<<"attach">>) /\ ~GoOn(<<"stopped">>)
             /\ ~GoOn(<<"slot">>) /\ ~GoOn(<<"segment">>)
             /\ ~GoOn(<<"forget">>)
             /\ w \in Stopping \union {"complete"} => ~Continue
  BY <1>0, <1>1, LeadsOn DEF At, Continue
<1>2. ASSUME NEW w \in {"record", "acquire", "attach"}, At(w), StartFailed,
             UNCHANGED <<slug, broken>>, window' = op.tab \/ window' = window,
             w = "record" => window' = op.tab
      PROVE  /\ NoteGap /\ Kept /\ window' = op.tab /\ slug # 0
             /\ op.kind \notin {"begin", "end", "teardown"}
             /\ UNCHANGED <<slug, broken>>
  <2>1. w \in Words /\ op # None /\ Planned(op.kind, w, Tail(steps))
    BY <1>0, <1>2, CallersAreNames, AtWord DEF Words, Stopping
  <2>2. op.kind # "begin"
    BY <1>1, <1>2, <2>1 DEF StartFailed
  <2>3. op.kind \notin {"begin", "end", "teardown"}
    BY <1>2, <2>1, <2>2 DEF Planned, Stopping, Filming
  <2>4. NoteGap /\ Continue
    BY <1>2, <2>2 DEF StartFailed
  <2>5. w # "record" => window = op.tab
    BY <1>0, <1>2, <2>2, CallersAreNames, UnderWay
  <2>6. slug # 0
    BY <2>1, <2>3, CommandsOperation
  <2> QED
    BY <1>2, <2>1, <2>3, <2>4, <2>5, <2>6 DEF Kept, Continue
<1>3. CASE Begin
  <2>1. ~(steps' = <<"acquire">>)
    BY One
  <2>2. steps = <<>>
    BY <1>0, <1>3 DEF Begin, Take, ControlInv, StepsOK
  <2> QED
    BY <1>3, <2>1, <2>2 DEF Begin
<1>4. CASE End \/ Teardown
  <2>1. /\ <<"stop", "complete", "reset">> # <<>>
        /\ <<"stop", "reset", "release">> # <<>> /\ <<"release">> # <<>>
    BY One, Three
  <2>2. slug' = slug
    BY <1>4 DEF End, Teardown, session
  <2> QED
    BY <1>4, <2>1, <2>2 DEF End, Teardown
<1>5. CASE Follow
  <2>1. /\ <<"record">> # <<>>
        /\ <<"stop", IF failedStarts[Head(queue).tab] >= MAX_TAB_START_ATTEMPTS
                     THEN "select" ELSE "record">> # <<>>
    BY One, Two
  <2>2. window = Head(queue).tab
    BY <1>5, <2>1 DEF Follow
  <2> QED
    BY <1>5, <2>2
<1>6. CASE StopClosing
  BY <1>6
<1>7. CASE RecoverClose
  <2>1. <<"record">> # <<>>
    BY One
  <2>2. steps = <<>>
    BY <1>0, <1>7 DEF RecoverClose, Take, ControlInv, StepsOK
  <2> QED
    BY <1>7, <2>1, <2>2 DEF RecoverClose, session, reports
<1>8. CASE Resume
  <2>1. <<"next">> # <<>> /\ <<"stop", "next">> # <<>>
    BY One, Two
  <2> QED
    BY <1>8, <2>1 DEF Resume
<1>9. CASE Record
  <2>1. /\ At("record") /\ "record" \in Words /\ window' = op.tab
        /\ UNCHANGED <<slug, broken>>
    BY <1>9 DEF Record, Words
  <2>2. StartFailed
    BY <1>1, <1>9, <2>1 DEF Record
  <2> QED
    BY <1>2, <2>1, <2>2
<1>10. CASE Select
  <2>1. /\ op # None /\ op.kind = "follow"
    BY <1>0, <1>10, CallersAreNames, AtWord DEF Select, Planned, Stopping
  <2>2. slug # 0
    BY <2>1, CommandsOperation
  <2> QED
    BY <1>10, <2>1, <2>2 DEF Select, Continue, Kept, reports
<1>11. CASE Acquire
  <2>1. /\ At("acquire") /\ "acquire" \in Words
        /\ UNCHANGED <<slug, broken, window>>
    BY <1>11 DEF Acquire, Words, session
  <2>2. StartFailed
    BY <1>1, <1>11, <2>1 DEF Acquire
  <2> QED
    BY <1>2, <2>1, <2>2
<1>12. CASE Attach
  <2>1. /\ At("attach") /\ "attach" \in Words /\ op # None
        /\ UNCHANGED <<slug, broken>>
    BY <1>12 DEF Attach, Words, At
  <2>2. CASE Attached
    BY <1>12, <2>1, <2>2 DEF Attached, Continue, Kept
  <2>3. CASE NotAttached
    <3>1. StartFailed /\ window' = window
      BY <2>3 DEF NotAttached
    <3> QED
      BY <1>2, <2>1, <3>1
  <2> QED
    BY <1>12, <2>2, <2>3 DEF Attach
<1>13. CASE StopNothing \/ Detach \/ Stopped \/ ReleaseSlot \/ Complete \/ Reset
  <2>1. {"stop", "stopped", "slot", "complete", "reset"} \subseteq Words
    BY DEF Words, Stopping
  <2> QED
    BY <1>1, <1>13, <2>1
    DEF StopNothing, Detach, Stopped, ReleaseSlot, Complete, Reset, Stopping
<1>14. CASE FinalizeSegment
  <2>1. /\ At("segment") /\ "segment" \in Words /\ op # None /\ slug' = slug
    BY <1>14 DEF FinalizeSegment, Words, Stopping, session, At
  <2>2. ~Continue
    BY <1>1, <2>1 DEF Stopping
  <2>3. broken' = broken \union {slug} /\ Abort
    BY <1>14, <2>2 DEF FinalizeSegment
  <2> QED
    BY <2>1, <2>3 DEF Abort, Kept
<1>15. CASE MarkClosing
  <2>1. op.kind = "stop-closing" /\ op.tab = window
    BY <1>0, <1>15, CallersAreNames, AtWord, UnderWay
    DEF MarkClosing, Planned, Stopping
  <2> QED
    BY <1>15, <2>1
<1>16. CASE Successor
  <2>1. op.kind = "resume"
    BY <1>0, <1>16, CallersAreNames, AtWord
    DEF Successor, Planned, Stopping
  <2> QED
    BY <1>16, <2>1 DEF Successor, At, session
<1>17. CASE ReleaseResources
  <2>1. slug = 0
    <3>1. At("release") /\ "release" \in Words
      BY <1>17 DEF ReleaseResources, Words
    <3> QED
      BY <1>1, <1>17, <3>1 DEF ReleaseResources
  <2> QED
    BY <1>17, <2>1 DEF ReleaseResources, session
<1>18. CASE Forget
  BY <1>18 DEF Forget, ForgetRecording
<1>19. CASE Finish
  BY <1>19 DEF Finish, session, gaps, reports
<1> QED
  BY <1>0, <1>3, <1>4, <1>5, <1>6, <1>7, <1>8, <1>9, <1>10, <1>11, <1>12,
     <1>13, <1>14, <1>15, <1>16, <1>17, <1>18, <1>19 DEF Step

\* Only reset() takes a gap back.
LEMMA KnownKept ==
    ASSUME CompleteInv, ChainStep, ~Reset, slug' = slug, Known
    PROVE  Known'
<1>2. Step /\ slug \in Nat
  BY ChainFrame
<1>3. failure # None => failure' # None
  <2>1. CASE End \/ Follow \/ StopClosing \/ Resume
    BY <1>2, <2>1, ConfirmedKnown DEF End, Follow, StopClosing, Resume
  <2>2. CASE Record \/ Select \/ Acquire \/ Attach \/ Stopped
    BY <1>2, <2>2, NoneAssumption
    DEF Record, Select, Acquire, Attach, Attached, NotAttached, StartFailed,
        NoteGap, Stopped, Unclean, Report
  <2>3. CASE Begin \/ RecoverClose \/ Teardown \/ StopNothing \/ Detach
             \/ ReleaseSlot \/ FinalizeSegment \/ MarkClosing \/ Successor
             \/ Complete \/ ReleaseResources \/ Forget \/ Finish
    BY <2>3
    DEF Begin, RecoverClose, Teardown, StopNothing, Detach, ReleaseSlot,
        FinalizeSegment, MarkClosing, Successor, Complete, ReleaseResources,
        Forget, Finish, gaps
  <2> QED
    BY <1>2, <2>1, <2>2, <2>3 DEF Step
<1>4. broken \subseteq broken'
  BY <1>2
  DEF Step, Begin, End, Follow, StopClosing, RecoverClose, Resume, Teardown,
      Record, Select, Acquire, Attach, StopNothing, Detach, Stopped,
      ReleaseSlot, FinalizeSegment, MarkClosing, Successor, Complete,
      ReleaseResources, Reset, Forget, Finish, reports
<1> QED
  BY <1>3, <1>4 DEF Known

\* A follow that finds its tab selected and not filmed knows of the gap.
LEMMA FollowKnows ==
    ASSUME CompleteInv, ChainStep, Follow, window = Head(queue).tab,
           capture = None, window \in open, closing # window
    PROVE  Known'
<1>1. /\ Head(queue) = queue[1] /\ HookFits(queue[1]) /\ slug # 0
      /\ 1 \in DOMAIN queue /\ steps = <<>> /\ queue[1].kind = "follow"
  BY CommandsTaken DEF Follow, Kinds
<1>2. slug \in Nat /\ ~Reset /\ slug' = slug /\ window # None
  BY ChainFrame, NoTab
  DEF Follow, session, Take, Reset, At, FollowerTypeOK
<1>3. Known \/ unconfirmed = window
  BY <1>1 DEF CompleteInv, WindowCovered
<1>4. CASE Known
  BY <1>2, <1>4, KnownKept
<1>5. CASE unconfirmed = window
  <2>1. queue[1].reason # "switch-failed"
    <3>1. queue[1].reason = "switch-failed" => queue[1].tab # command.tab
      BY <1>1 DEF HookFits
    <3>2. queue[1].reason = "switch-failed" =>
             unconfirmed \in {None, command.tab}
      BY <1>1 DEF CompleteInv, GapOfSwitch
    <3> QED
      BY <1>1, <1>2, <1>5, <3>1, <3>2
  <2>2. failure' = Confirmed(unconfirmed)
    BY <1>1, <2>1 DEF Follow, PendingGap
  <2>3. failure' # None
    BY <1>2, <1>5, <2>2, ConfirmedKnown
  <2> QED
    BY <2>3 DEF Known
<1> QED
  BY <1>3, <1>4, <1>5

LEMMA NotedGap ==
    ASSUME slug \in Nat, NoteGap
    PROVE  \/ op.reason = "switch-to-window" /\ unconfirmed' = op.tab
           \/ op.reason # "switch-to-window" /\ Known'
BY NoneAssumption DEF NoteGap, Report, Known

LEMMA WindowStands ==
    ASSUME CompleteInv, ChainStep
    PROVE  WindowCovered'
<1>0. /\ Step /\ ControlInv(Callers) /\ WindowCovered /\ ClosingSettled
      /\ UNCHANGED <<command, open, wdioWindow>> /\ slug \in Nat
      /\ FollowerTypeOK /\ queue' = <<>>
      /\ Taken \/ Kept \/ Done \/ (Successor /\ op # None)
  BY ChainFrame DEF CompleteInv
<1>1. ASSUME steps' = <<>>, slug' # 0, capture' = None, window' \in open
      PROVE  Known' \/ unconfirmed' = window' \/ closing' = window'
  <2>0. window' # None
    BY <1>0, <1>1, NoTab DEF FollowerTypeOK
  <2>1. CASE /\ Finish \/ Begin \/ RecoverClose
             /\ steps = <<>>
             /\ UNCHANGED <<slug, window, capture, failure, closing,
                            unconfirmed, broken>>
    BY <1>0, <1>1, <2>1 DEF WindowCovered, Known
  <2>2. CASE Follow /\ window = Head(queue).tab
    <3>1. /\ capture = None /\ window \in open /\ window' = window
          /\ closing' = closing
      BY <1>1, <2>2 DEF Follow, session
    <3> QED
      BY <2>2, <3>1, FollowKnows
  <2>3. CASE StopClosing \/ (Resume /\ ~(window # None /\ closing = window))
    <3>1. /\ slug' = slug /\ capture = None /\ window' = window
          /\ closing' = closing /\ failure' = Confirmed(unconfirmed)
          /\ ~Reset /\ op = None
      BY <1>1, <2>3 DEF StopClosing, Resume, session, Take, Reset, At
    <3>2. steps = <<>>
      BY <1>0, <3>1 DEF ControlInv, StepsOK
    <3>3. Known \/ unconfirmed = window \/ closing = window
      BY <1>0, <1>1, <3>1, <3>2 DEF WindowCovered
    <3>4. unconfirmed = window => failure' # None
      BY <1>0, <2>0, <3>1, ConfirmedKnown
    <3> QED
      BY <3>1, <3>3, <3>4, KnownKept DEF Known
  <2>4. CASE NoteGap /\ window' = op.tab
    BY <1>0, <2>4, NotedGap
  <2>5. CASE Attach /\ Attached
    BY <1>0, <1>1, <2>5, NoTab DEF Attached, FollowerTypeOK
  <2>6. CASE slug' \in broken'
    BY <2>6 DEF Known
  <2>7. CASE MarkClosing /\ op.tab = window
    BY <2>7 DEF MarkClosing, session
  <2>8. CASE /\ Successor /\ window' = window /\ op.kind = "resume"
             /\ steps # <<>> /\ Head(steps) = "next"
    BY <1>0, <1>1, <2>8 DEF WindowCovered, Successor, At
  <2> QED
    BY <1>1, <2>1, <2>2, <2>3, <2>4, <2>5, <2>6, <2>7, <2>8, StepEnds
<1>2. ASSUME op' # None, op'.kind = "resume", steps' # <<>>,
             Head(steps') \in Stopping \union {"next"}
      PROVE  window' \notin open
  <2>1. CASE Taken
    <3>1. op' = Head(queue) /\ op = None /\ op' = queue[1]
      BY <2>1, TakenFits DEF Taken
    <3>2. Resume
      BY <1>0, <1>2, <3>1
      DEF Step, Begin, End, Follow, StopClosing, RecoverClose, Resume, Teardown,
          Record, Select, Acquire, Attach, StopNothing, Detach, Stopped,
          ReleaseSlot, FinalizeSegment, MarkClosing, Successor, Complete,
          ReleaseResources, Reset, Forget, Finish, At, Take
    <3>3. /\ HookFits(queue[1]) /\ queue[1].kind = "resume" /\ steps = <<>>
      BY <3>2, CommandsTaken DEF Resume, Kinds
    <3>4. \/ window # None /\ closing = window
          \/ capture # None /\ capture \notin open
      BY <1>2, <3>2 DEF Resume
    <3>5. window' = window
      BY <3>2 DEF Resume, session
    <3>6. CASE window # None /\ closing = window
      <4>1. /\ command.tab = window /\ Now({"close"}, {"settling"})
            /\ ~command.failed
        BY <1>0, <3>3, <3>6 DEF ClosingSettled, HookFits, Now
      <4> QED
        BY <1>0, <3>5, <4>1 DEF ClosingSettled, Now
    <3>7. CASE capture # None /\ capture \notin open
      <4>1. capture = window
        BY <1>0, <3>3, <3>7 DEF ControlInv, PhaseOK, Quiet, StopReady
      <4> QED
        BY <3>5, <3>7, <4>1
    <3> QED
      BY <3>4, <3>6, <3>7
  <2>2. CASE Kept /\ ~Successor
    <3>1. /\ op.kind = "resume"
          /\ steps # <<>> => Planned(op.kind, Head(steps), Tail(steps))
      BY <1>0, <1>2, <2>2 DEF ControlInv, StepsOK, Kept
    <3>2. steps # <<>> /\ Head(steps) \in Stopping /\ window' = window
      <4>1. CASE StopNothing \/ Detach \/ Stopped \/ ReleaseSlot
                 \/ FinalizeSegment
        BY <4>1
        DEF StopNothing, Detach, Stopped, ReleaseSlot, FinalizeSegment, At,
            Stopping, session
      <4>2. ASSUME NEW w, At(w), w \in {"record", "acquire", "attach", "select",
                        "closing", "complete", "reset", "forget", "release"}
            PROVE  w \in {"record", "acquire", "attach"} /\ Tail(steps) = <<>>
        BY <3>1, <4>2 DEF Planned, At, Stopping
      <4>3. CASE Record \/ Acquire \/ Attach
        <5>1. /\ Tail(steps) = <<>> /\ op.kind # "begin"
              /\ steps' = Tail(steps) \/ GoOn(<<"acquire">>) \/ GoOn(<<"attach">>)
          BY <3>1, <4>2, <4>3
          DEF Record, Acquire, Attach, Attached, NotAttached, StartFailed,
              Continue
        <5>2. "acquire" \in Words /\ "attach" \in Words
          BY DEF Words
        <5>3. <<>> \in Seq(Words)
          OBVIOUS
        <5>4. steps' = <<>> \/ Head(steps') \in {"acquire", "attach"}
          BY <5>1, <5>2, <5>3, Cons DEF GoOn
        <5> QED
          BY <1>2, <5>4 DEF Stopping
      <4>4. CASE Select \/ MarkClosing \/ Complete \/ Reset \/ Forget
                 \/ ReleaseResources
        BY <4>2, <4>4
        DEF Select, MarkClosing, Complete, Reset, Forget, ReleaseResources
      <4>5. CASE \/ Begin \/ End \/ Follow \/ StopClosing \/ RecoverClose
                 \/ Resume \/ Teardown \/ Finish
        BY <1>2, <2>2, <4>5
        DEF Kept, Begin, End, Follow, StopClosing, RecoverClose, Resume,
            Teardown, Take, Finish
      <4> QED
        BY <1>0, <2>2, <4>1, <4>3, <4>4, <4>5 DEF Step
    <3> QED
      BY <1>0, <2>2, <3>1, <3>2 DEF WindowCovered, Kept
  <2>3. CASE Successor
    <3>1. Tail(steps) = <<>>
      BY <1>0, <2>3, CallersAreNames, AtWord
      DEF Successor, Planned, Stopping
    <3>2. steps' = <<"record">>
      BY <1>2, <2>3, <3>1 DEF Successor
    <3> QED
      BY <1>2, <3>2, One DEF Stopping
  <2> QED
    BY <1>0, <1>2, <2>1, <2>2, <2>3 DEF Done
<1> QED
  BY <1>0, <1>1, <1>2 DEF WindowCovered

\* A hook returns when its own operation finishes.
LEMMA HookSettles ==
    ASSUME CompleteInv, ChainStep, command # None, Settled("command")'
    PROVE  Finish /\ steps = <<>> /\ op # None /\ HookFits(op)
<1>0. /\ Step /\ ControlInv(Callers) /\ FollowerInv /\ CommandInTest
      /\ queue' = <<>> /\ OperationsFit
      /\ Taken \/ Kept \/ Done \/ (Successor /\ op # None)
  BY ChainFrame DEF CompleteInv
<1>1. ~Settled("command")
  BY <1>0, ChainEmpty DEF Taken, Kept, Done
<1>2. ASSUME op # None PROVE op.by = "command"
  <2>1. op.by \in Callers /\ ~Settled(op.by)
    BY <1>0, <1>2 DEF ControlInv, ControlTypeOK, Operations, Settled
  <2> QED
    BY <1>0, <2>1, OneCaller DEF Callers
<1>3. ~Taken
  <2>1. ASSUME Taken PROVE FALSE
    <3>1. /\ op' = queue[1] /\ op' \in Operations(Callers) /\ op' # None
          /\ ~Settled(queue[1].by)
      BY <2>1, TakenFits
    <3>2. op'.by \in Callers /\ ~Settled(op'.by)
      BY <3>1 DEF Operations
    <3>3. op'.by = "command"
      BY <1>0, <3>2, OneCaller DEF Callers
    <3> QED
      BY <3>1, <3>3 DEF Settled
  <2> QED
    BY <2>1
<1>4. ~Kept
  BY <1>2 DEF Kept, Settled
<1>5. ~(Successor /\ op # None)
  <2>1. ASSUME Successor, op # None PROVE FALSE
    <3>1. op \in Operations(Callers)
      BY <1>0, <2>1 DEF ControlInv, ControlTypeOK
    <3>2. op' = op \/ op' = [op EXCEPT !.tab = wdioWindow]
      BY <2>1 DEF Successor
    <3>3. op'.by = "command"
      BY <1>2, <2>1, <3>1, <3>2 DEF Operations
    <3>4. op' # None
      <4>1. wdioWindow \in Tabs \union {None}
        BY <1>0 DEF ControlInv, BrowserOK
      <4>2. op' \in Operations(Callers)
        BY <3>1, <3>2, <4>1 DEF Operations
      <4> QED
        BY <4>2, CallersAreNames, OperationAssumption DEF Operations
    <3> QED
      BY <3>3, <3>4 DEF Settled
  <2> QED
    BY <2>1
<1>6. Done
  BY <1>0, <1>3, <1>4, <1>5
<1>7. Finish
  BY <1>0, <1>6
  DEF Done, Step, Begin, End, Follow, StopClosing, RecoverClose, Resume,
      Teardown, Take, Record, Select, Acquire, Attach, StopNothing, Detach,
      Stopped, ReleaseSlot, FinalizeSegment, MarkClosing, Successor, Complete,
      ReleaseResources, Reset, Forget, At
<1>8. HookFits(op)
  BY <1>0, <1>2, <1>6 DEF Done, OperationsFit, Fits
<1> QED
  BY <1>6, <1>7, <1>8 DEF Done

LEMMA SwitchStands ==
    ASSUME CompleteInv, ChainStep
    PROVE  GapOfSwitch'
<1>0. /\ Step /\ ControlInv(Callers) /\ GapOfSwitch /\ OperationsFit
      /\ SwitchPending /\ queue' = <<>> /\ slug \in Nat
      /\ UNCHANGED <<command, pendingSwitch>>
      /\ Taken \/ Kept \/ Done \/ (Successor /\ op # None)
  BY ChainFrame DEF CompleteInv
<1>1. ASSUME op' # None, op'.reason = "switch-to-window"
      PROVE  unconfirmed' \in {None, op'.tab}
  <2>1. CASE Taken
    <3>1. op' = Head(queue) /\ op = None /\ op' = queue[1] /\ Fits(queue[1])
      BY <2>1, TakenFits DEF Taken
    <3>2. queue[1].kind = "follow"
      BY <1>1, <3>1 DEF Fits, HookFits
    <3>3. Follow
      BY <1>0, <3>1, <3>2
      DEF Step, Begin, End, Follow, StopClosing, RecoverClose, Resume, Teardown,
          Record, Select, Acquire, Attach, StopNothing, Detach, Stopped,
          ReleaseSlot, FinalizeSegment, MarkClosing, Successor, Complete,
          ReleaseResources, Reset, Forget, Finish, At, Take
    <3> QED
      BY <3>3 DEF Follow
  <2>2. CASE Kept /\ ~Successor
    <3>1. unconfirmed' \in {unconfirmed, None, op.tab}
      <4>1. CASE Record \/ Select \/ Acquire \/ Attach
        BY <4>1
        DEF Record, Select, Acquire, Attach, Attached, NotAttached, StartFailed,
            NoteGap
      <4>2. CASE ~(Record \/ Select \/ Acquire \/ Attach)
        BY <1>0, <2>2, <4>2
        DEF Kept, Step, Begin, End, Follow, StopClosing, RecoverClose, Resume,
            Teardown, Take, StopNothing, Detach, Stopped, ReleaseSlot,
            FinalizeSegment, MarkClosing, Complete, ReleaseResources, Reset,
            ClearGaps, Forget, Finish, gaps
      <4> QED
        BY <4>1, <4>2
    <3> QED
      BY <1>0, <1>1, <2>2, <3>1 DEF Kept, GapOfSwitch
  <2>3. CASE Successor
    <3>1. op.kind = "resume" /\ op \in Operations(Callers)
      BY <1>0, <2>3, CallersAreNames, AtWord
      DEF Successor, Planned, Stopping
    <3>2. op'.reason = op.reason
      BY <2>3, <3>1 DEF Successor, Operations
    <3>3. op # None /\ Fits(op)
      BY <1>0, <2>3 DEF Successor, At, OperationsFit
    <3> QED
      BY <1>1, <3>1, <3>2, <3>3 DEF Fits, HookFits
  <2> QED
    BY <1>0, <1>1, <2>1, <2>2, <2>3 DEF Done
<1>2. ASSUME pendingSwitch # None, Settled("command")'
      PROVE  unconfirmed' \in {None, command.tab}
  <2>1. Now({"switch"}, {"run", "answered"})
    BY <1>0, <1>2 DEF SwitchPending
  <2>2. Finish /\ op # None /\ HookFits(op)
    BY <1>2, <2>1, HookSettles DEF Now
  <2>3. op.reason = "switch-to-window" /\ op.tab = command.tab
    BY <2>1, <2>2 DEF HookFits, Now
  <2> QED
    BY <1>0, <2>2, <2>3 DEF GapOfSwitch, Finish, gaps
<1>3. \A i \in DOMAIN queue' : FALSE
  BY <1>0
<1> QED
  BY <1>0, <1>1, <1>2, <1>3 DEF GapOfSwitch

LEMMA DrivenStands ==
    ASSUME CompleteInv, ChainStep
    PROVE  DrivenCovered'
<1>0. /\ Step /\ ControlInv(Callers) /\ DrivenCovered /\ OperationsFit
      /\ ClosingSettled /\ FollowerTypeOK /\ slug \in Nat
      /\ UNCHANGED <<command, currentWindow, open, wdioWindow>>
      /\ Taken \/ Kept \/ Done \/ (Successor /\ op # None)
  BY ChainFrame DEF CompleteInv
<1>1. ASSUME op' # None, op'.kind = "follow", op'.reason = "command",
             steps' = <<>>
      PROVE  op'.tab \in open => capture' = op'.tab \/ Known'
  <2>1. CASE Taken
    <3>1. op' = Head(queue) /\ op = None /\ op' = queue[1]
      BY <2>1, TakenFits DEF Taken
    <3>2. Follow
      BY <1>0, <1>1, <3>1
      DEF Step, Begin, End, Follow, StopClosing, RecoverClose, Resume, Teardown,
          Record, Select, Acquire, Attach, StopNothing, Detach, Stopped,
          ReleaseSlot, FinalizeSegment, MarkClosing, Successor, Complete,
          ReleaseResources, Reset, Forget, Finish, At, Take
    <3>3. /\ HookFits(queue[1]) /\ slug # 0 /\ steps = <<>>
      BY <3>2, CommandsTaken DEF Follow, Kinds
    <3>4. window = Head(queue).tab /\ slug' = slug
      BY <1>1, <3>2, <3>3, StepEnds
      DEF Follow, session, Finish, Begin, RecoverClose, StopClosing, Resume,
          Take, Kept, Attach, At, MarkClosing, Successor
    <3>5. closing = None
      BY <1>0, <1>1, <3>1, <3>3 DEF HookFits, ClosingSettled, Now
    <3>6. capture' = capture
      BY <3>2 DEF Follow, session
    <3>7. capture # None => capture = window
      BY <1>0, <3>3 DEF ControlInv, PhaseOK, Quiet, StopReady
    <3>8. capture = None /\ window \in open => Known'
      BY <1>0, <3>2, <3>4, <3>5, NoTab, FollowKnows DEF FollowerTypeOK
    <3>9. op'.tab = window
      BY <3>1, <3>4
    <3> QED
      BY <1>0, <3>6, <3>7, <3>8, <3>9
  <2>2. CASE Kept /\ ~Successor
    <3>0. slug # 0 /\ op.kind = "follow" /\ op.reason = "command" /\ op' = op
          /\ op # None
      BY <1>1, <2>2, CommandsOperation DEF Kept
    <3>1. slug' # 0
      <4>1. CASE Forget
        BY <1>0, <3>0, <4>1, CallersAreNames, AtWord
        DEF Forget, Planned, Stopping
      <4> QED
        BY <1>0, <2>2, <3>0, <4>1, CallersAreNames, SlugStep DEF Begin, Take, Kept
    <3>2. CASE NoteGap /\ window' = op.tab
      BY <1>0, <3>0, <3>2, NotedGap
    <3>3. CASE Attach /\ Attached
      BY <3>0, <3>3 DEF Attached, Target
    <3>4. CASE slug' \in broken'
      BY <3>4 DEF Known
    <3>5. CASE MarkClosing
      BY <1>0, <3>0, <3>5, CallersAreNames, AtWord
      DEF MarkClosing, Planned, Stopping
    <3> QED
      BY <1>1, <2>2, <3>0, <3>1, <3>2, <3>3, <3>4, <3>5, StepEnds
      DEF Kept, Follow, Finish, Begin, RecoverClose, StopClosing, Resume, Take
  <2>3. CASE Successor
    <3>1. op.kind = "resume" /\ op \in Operations(Callers)
      BY <1>0, <2>3, CallersAreNames, AtWord
      DEF Successor, Planned, Stopping
    <3>2. op'.kind = op.kind
      BY <2>3, <3>1 DEF Successor, Operations
    <3> QED
      BY <1>1, <3>1, <3>2
  <2> QED
    BY <1>0, <1>1, <2>1, <2>2, <2>3 DEF Done
<1>2. ASSUME Now({"drive", "current"}, {"run"}), Settled("command")',
             slug' # 0
      PROVE  Covered(Driven)'
  <2>1. Finish /\ steps = <<>> /\ op # None /\ HookFits(op)
    BY <1>2, HookSettles DEF Now
  <2>2. op.kind = "follow" /\ op.reason = "command" /\ op.tab = Driven
    BY <1>2, <2>1 DEF HookFits, Now
  <2>3. Covered(Driven)
    BY <1>0, <2>1, <2>2 DEF DrivenCovered
  <2>4. Driven' = Driven
    BY <1>0 DEF Driven
  <2> QED
    BY <1>0, <2>1, <2>3, <2>4 DEF Covered, Known, Finish, session, gaps, reports
<1>3. op' # None /\ op'.kind = "follow" /\ op'.reason = "command"
         => (steps' = <<>> => Covered(op.tab)')
  BY <1>0, <1>1 DEF Covered
<1> QED
  BY <1>0, <1>2, <1>3 DEF DrivenCovered, Now

LEMMA ClosingStands ==
    ASSUME CompleteInv, ChainStep
    PROVE  ClosingSettled'
<1>0. /\ Step /\ ControlInv(Callers) /\ ClosingSettled /\ OperationsFit
      /\ UNCHANGED <<command, open>> /\ slug \in Nat
      /\ Taken \/ Kept \/ Done \/ (Successor /\ op # None)
  BY ChainFrame DEF CompleteInv
<1>1. CASE closing' = None
  BY <1>0, <1>1 DEF ClosingSettled, Now
<1>2. CASE MarkClosing
  <2>1. /\ op # None /\ op.kind = "stop-closing" /\ slug # 0 /\ HookFits(op)
    BY <1>0, <1>2, CallersAreNames, AtWord, CommandsOperation
    DEF MarkClosing, Planned, Stopping
  <2>2. Now({"close"}, {"run"}) /\ op.tab = command.tab
    BY <2>1 DEF HookFits
  <2>3. closing' = op.tab /\ slug' = slug
    BY <1>2 DEF MarkClosing, session
  <2> QED
    BY <1>0, <2>1, <2>2, <2>3 DEF ClosingSettled, Now
<1>3. CASE closing' # None /\ ~MarkClosing
  <2>1. closing' = closing
    BY <1>0, <1>3
    DEF Step, Begin, End, Follow, StopClosing, RecoverClose, Resume, Teardown,
        Record, Select, Acquire, Attach, StopNothing, Detach, Stopped,
        ReleaseSlot, FinalizeSegment, MarkClosing, Successor, Complete,
        ReleaseResources, Reset, ClearGaps, Forget, Finish, gaps
  <2>2. /\ slug # 0 /\ command # None /\ command.tab = closing
        /\ Now({"close"}, {"run", "answered", "settling"})
    BY <1>0, <1>3, <2>1 DEF ClosingSettled, Now
  <2>3. slug' # 0
    <3>1. ~Forget
      BY <1>0, <1>3, <2>1, CallersAreNames, AtWord DEF Forget, Phase
    <3> QED
      BY <1>0, <2>2, <3>1, CallersAreNames, SlugStep
  <2>4. ASSUME command.at = "settling"
        PROVE  op' # None /\ op'.kind = "resume" /\ steps' # <<>>
                  /\ Head(steps') = "next"
    <3>1. CASE \E i \in DOMAIN queue :
                  queue[i].kind \in {"recover-close", "resume"}
      <4>1. Taken /\ op = None
        <5>1. queue # <<>> /\ op = None
          BY <3>1, OneOperation DEF CompleteInv, SerialInv
        <5> QED
          BY <1>0, <5>1 DEF Kept, Done
      <4>2. /\ op' = queue[1] /\ op' = Head(queue) /\ op' # None
            /\ queue[1].kind \in {"recover-close", "resume"}
        <5>1. \A i \in DOMAIN queue : i = 1
          BY OneOperation DEF CompleteInv, SerialInv
        <5> QED
          BY <3>1, <4>1, <5>1, TakenFits
      <4>3. RecoverClose \/ Resume
        BY <1>0, <4>1, <4>2
        DEF Step, Begin, End, Follow, StopClosing, RecoverClose, Resume,
            Teardown, Record, Select, Acquire, Attach, StopNothing, Detach,
            Stopped, ReleaseSlot, FinalizeSegment, MarkClosing, Successor,
            Complete, ReleaseResources, Reset, Forget, Finish, At, Take
      <4>4. closing = window /\ capture = None
        BY <1>0, <1>3, <2>1 DEF ControlInv, ControlTypeOK, PhaseOK
      <4>5. CASE RecoverClose
        <5>1. HookFits(queue[1]) /\ queue[1].kind = "recover-close"
          BY <4>5, CommandsTaken DEF RecoverClose, Kinds
        <5>2. queue[1].tab = command.tab
          BY <5>1 DEF HookFits
        <5> QED
          BY <1>3, <2>2, <4>2, <4>4, <4>5, <5>2 DEF RecoverClose
      <4>6. CASE Resume
        <5>1. steps' = <<"next">>
          BY <1>3, <2>1, <4>4, <4>6 DEF Resume
        <5>2. op'.kind = "resume"
          BY <4>2, <4>6 DEF Resume, Take
        <5> QED
          BY <4>2, <5>1, <5>2, One
      <4> QED
        BY <4>3, <4>5, <4>6
    <3>2. CASE /\ op # None /\ op.kind = "resume"
               /\ steps # <<>> /\ Head(steps) = "next"
      <4>1. Successor
        BY <1>0, <3>2
        DEF Step, Begin, End, Follow, StopClosing, RecoverClose, Resume,
            Teardown, Record, Select, Acquire, Attach, StopNothing, Detach,
            Stopped, ReleaseSlot, FinalizeSegment, MarkClosing, Successor,
            Complete, ReleaseResources, Reset, Forget, Finish, At, Take
      <4> QED
        BY <1>3, <4>1 DEF Successor
    <3> QED
      BY <1>0, <1>3, <2>1, <2>4, <3>1, <3>2 DEF ClosingSettled
  <2> QED
    BY <1>0, <2>1, <2>2, <2>3, <2>4 DEF ClosingSettled, Now
<1> QED
  BY <1>1, <1>2, <1>3

LEMMA GapsStand ==
    ASSUME CompleteInv, ChainStep
    PROVE  GapsKnown'
<1>0. /\ Step /\ ControlInv(Callers) /\ GapsKnown /\ Verdicts
      /\ missed' = missed /\ slug \in Nat /\ begun \in Nat
  BY ChainFrame DEF CompleteInv
<1>1. CASE Reset
  <2>1. "forget" \in Words /\ Tail(steps) \in Seq(Words)
    BY <1>0, <1>1 DEF Reset, At, ControlInv, StepsOK, Words
  <2>2. steps' # <<>> /\ Head(steps') = "forget"
    BY <1>1, <2>1, Cons DEF Reset, GoOn
  <2> QED
    BY <2>2 DEF GapsKnown
<1>2. CASE Stopped
  <2>1. /\ slug' = slug /\ Head(steps) = "stopped"
        /\ \/ spoiled' = spoiled
           \/ spoiled' = spoiled \union {slug} /\ Known'
    BY <1>0, <1>2, NoneAssumption
    DEF Stopped, Unclean, Report, Known, session, At
  <2>2. CASE spoiled' = spoiled
    BY <1>0, <1>2, <2>1, <2>2, KnownKept DEF GapsKnown, Stopped, At, Reset
  <2> QED
    BY <2>1, <2>2 DEF GapsKnown
<1>3. CASE ~Reset /\ ~Stopped
  <2>1. spoiled' = spoiled
    BY <1>0, <1>3
    DEF Step, Begin, End, Follow, StopClosing, RecoverClose, Resume, Teardown,
        Record, Select, Acquire, Attach, StopNothing, Detach, ReleaseSlot,
        FinalizeSegment, MarkClosing, Successor, Complete, ReleaseResources,
        Reset, Forget, Finish, reports
  <2>2. missed \union spoiled \subseteq 1 .. begun
    BY <1>0 DEF Verdicts
  <2>3. CASE slug' = 0 \/ slug' = begun + 1
    BY <1>0, <2>1, <2>2, <2>3 DEF GapsKnown
  <2>4. CASE slug' = slug /\ slug # 0
    <3>1. CASE steps # <<>> /\ Head(steps) = "forget"
      <4>1. Forget
        BY <1>0, <3>1
        DEF Step, Begin, End, Follow, StopClosing, RecoverClose, Resume,
            Teardown, Record, Select, Acquire, Attach, StopNothing, Detach,
            Stopped, ReleaseSlot, FinalizeSegment, MarkClosing, Successor,
            Complete, ReleaseResources, Reset, Forget, Finish, At, Take,
            ControlInv, StepsOK
      <4> QED
        BY <2>4, <4>1 DEF Forget, ForgetRecording
    <3>2. CASE Known
      BY <1>3, <2>4, <3>2, KnownKept DEF GapsKnown
    <3>3. CASE slug \notin missed \union spoiled
      BY <1>0, <2>1, <2>4, <3>3 DEF GapsKnown
    <3> QED
      BY <1>0, <3>1, <3>2, <3>3 DEF GapsKnown
  <2> QED
    BY <1>0, <2>3, <2>4, CallersAreNames, SlugStep
<1> QED
  BY <1>1, <1>2, <1>3

\* Only processArtifacts reports a recording complete.
LEMMA CompletedNow ==
    ASSUME CompleteInv, ChainStep, NEW r \in Recordings,
           results'[r] = "completed", results[r] # "completed"
    PROVE  Complete /\ r = slug /\ failure = None
<1>0. /\ Step
      /\ results \in [Recordings -> {"none", "completed", "failed"}]
  BY ChainFrame DEF ControlInv, ControlTypeOK
<1>1. ASSUME results' = [results EXCEPT ![slug] = "failed"] PROVE FALSE
  BY <1>0, <1>1
<1>2. CASE Complete
  BY <1>0, <1>1, <1>2 DEF Complete
<1>3. CASE ~Complete
  BY <1>0, <1>1, <1>3
  DEF Step, Begin, End, Follow, StopClosing, RecoverClose, Resume, Teardown,
      Record, Select, Acquire, Attach, Attached, NotAttached, StartFailed,
      StopNothing, Detach, Stopped, ReleaseSlot, FinalizeSegment, MarkClosing,
      Successor, Complete, ReleaseResources, Reset, Forget, Finish, reports
<1> QED
  BY <1>2, <1>3

LEMMA VerdictsStand ==
    ASSUME CompleteInv, ChainStep
    PROVE  Verdicts'
<1>0. /\ Step /\ ControlInv(Callers) /\ GapsKnown /\ Verdicts
      /\ missed' = missed /\ slug \in Nat /\ begun \in Nat
  BY ChainFrame DEF CompleteInv
<1>1. begun' \in Nat /\ begun <= begun'
  <2>1. begun' \in {begun, begun + 1}
    BY <1>0
    DEF Step, Begin, End, Follow, StopClosing, RecoverClose, Resume, Teardown,
        Record, Select, Acquire, Attach, StopNothing, Detach, Stopped,
        ReleaseSlot, FinalizeSegment, MarkClosing, Successor, Complete,
        ReleaseResources, Reset, Forget, Finish, reports
  <2> QED
    BY <1>0, <2>1
<1>2. \/ slug' = slug
      \/ slug' = begun + 1 /\ begun' = begun + 1
      \/ slug' = 0
  BY <1>0, CallersAreNames, SlugStep
<1>3. slug' <= begun'
  BY <1>0, <1>1, <1>2 DEF Verdicts
<1>4. \/ spoiled' = spoiled
      \/ /\ spoiled' = spoiled \union {slug} /\ slug \in 1 .. begun
         /\ steps # <<>> /\ Head(steps) = "stopped"
  <2>1. CASE Stopped
    <3>1. slug # 0 /\ steps # <<>> /\ Head(steps) = "stopped"
      BY <1>0, <2>1, CallersAreNames, AtWord DEF Stopped, Phase
    <3>2. slug \in 1 .. begun
      BY <1>0, <3>1 DEF Verdicts
    <3> QED
      BY <2>1, <3>1, <3>2 DEF Stopped, Unclean
  <2>2. CASE ~Stopped
    BY <1>0, <2>2
    DEF Step, Begin, End, Follow, StopClosing, RecoverClose, Resume, Teardown,
        Record, Select, Acquire, Attach, StopNothing, Detach, ReleaseSlot,
        FinalizeSegment, MarkClosing, Successor, Complete, ReleaseResources,
        Reset, Forget, Finish, reports
  <2> QED
    BY <2>1, <2>2
<1>5. missed' \union spoiled' \subseteq 1 .. begun'
  BY <1>0, <1>1, <1>4 DEF Verdicts
<1>6. broken \subseteq broken'
  BY <1>0
  DEF Step, Begin, End, Follow, StopClosing, RecoverClose, Resume, Teardown,
      Record, Select, Acquire, Attach, StopNothing, Detach, Stopped,
      ReleaseSlot, FinalizeSegment, MarkClosing, Successor, Complete,
      ReleaseResources, Reset, Forget, Finish, reports
<1>7. ASSUME NEW r \in Recordings, results'[r] = "completed"
      PROVE  /\ r <= begun'
             /\ r \notin (missed' \union spoiled') \ broken'
             /\ r = slug' => /\ op' # None /\ op'.kind = "end" /\ steps' # <<>>
                             /\ Head(steps') \in {"reset", "forget"}
  <2>0. r \in Nat /\ r # 0
    BY FaultAssumption DEF Recordings
  <2>1. CASE results[r] = "completed"
    <3>1. /\ r <= begun /\ r \notin (missed \union spoiled) \ broken
          /\ r = slug => /\ op # None /\ op.kind = "end" /\ steps # <<>>
                         /\ Head(steps) \in {"reset", "forget"}
      BY <1>0, <2>1 DEF Verdicts
    <3>2. r <= begun'
      BY <1>0, <1>1, <2>0, <3>1
    <3>3. r \notin (missed' \union spoiled') \ broken'
      BY <1>0, <1>4, <1>6, <3>1
    <3>4. CASE r = slug'
      <4>1. slug' = slug
        BY <1>0, <1>2, <2>0, <3>1, <3>4
      <4>2. Reset \/ Forget
        BY <1>0, <3>1, <3>4, <4>1
        DEF Step, Begin, End, Follow, StopClosing, RecoverClose, Resume,
            Teardown, Record, Select, Acquire, Attach, StopNothing, Detach,
            Stopped, ReleaseSlot, FinalizeSegment, MarkClosing, Successor,
            Complete, ReleaseResources, Reset, Forget, Finish, At, Take
      <4>3. Reset
        BY <2>0, <3>4, <4>2 DEF Forget, ForgetRecording
      <4>4. "forget" \in Words /\ Tail(steps) \in Seq(Words)
        BY <1>0, <4>3 DEF Reset, At, ControlInv, StepsOK, Words
      <4>5. steps' # <<>> /\ Head(steps') = "forget" /\ op' = op
        BY <4>3, <4>4, Cons DEF Reset, GoOn
      <4> QED
        BY <3>1, <3>2, <3>3, <3>4, <4>1, <4>5
    <3> QED
      BY <3>2, <3>3, <3>4
  <2>2. CASE results[r] # "completed"
    <3>1. Complete /\ r = slug /\ failure = None
      BY <1>7, <2>2, CompletedNow
    <3>2. /\ op # None /\ Planned(op.kind, "complete", Tail(steps))
          /\ steps # <<>> /\ Head(steps) = "complete"
      BY <1>0, <3>1, CallersAreNames, AtWord DEF Complete
    <3>3. op.kind = "end" /\ Tail(steps) = <<"reset">>
      BY <3>2 DEF Planned, Stopping
    <3>4. steps' # <<>> /\ Head(steps') = "reset" /\ op' = op
      BY <3>1, <3>3, One DEF Complete, Continue
    <3>5. r \notin (missed \union spoiled) \ broken
      BY <1>0, <3>1, <3>2 DEF GapsKnown, Known
    <3>6. spoiled' = spoiled /\ broken' = broken /\ slug' = slug
      BY <3>1 DEF Complete, session
    <3>7. r <= begun'
      BY <1>3, <3>1, <3>6
    <3> QED
      BY <1>0, <3>2, <3>3, <3>4, <3>5, <3>6, <3>7
  <2> QED
    BY <2>1, <2>2
<1> QED
  BY <1>3, <1>5, <1>7 DEF Verdicts

LEMMA CompleteChain ==
    ASSUME CompleteInv, ChainStep
    PROVE  CompleteInv'
BY ChainFrame, FollowerStands, OperationStands, WindowStands, SwitchStands,
   DrivenStands, ClosingStands, GapsStand, VerdictsStand
DEF CompleteInv

LEMMA CompleteStays ==
    ASSUME CompleteInv, UNCHANGED vars
    PROVE  CompleteInv'
<1>0. SerialInv'
  BY SerialStays DEF CompleteInv
<1>1. /\ UNCHANGED <<currentWindow, introduced, pendingSwitch, command, runner,
                     held, missed, seen, open, wdioWindow, queue>>
      /\ Still
  BY DEF vars, controlVars, session, gaps, chain, reports, browser, follower,
         test, Still
<1>2. OperationsFit' /\ TabsSeen'
  BY <1>1
  DEF CompleteInv, OperationsFit, TabsSeen, Fits, HookFits, Now, Driven, Still
<1>3. Introduced' /\ SwitchPending' /\ CurrentKnown'
  BY <1>1 DEF CompleteInv, Introduced, SwitchPending, CurrentKnown, Now
<1>4. ClosingSettled' /\ GapOfSwitch'
  BY <1>1 DEF CompleteInv, ClosingSettled, GapOfSwitch, Now, Settled, Still
<1>5. WindowCovered' /\ DrivenCovered' /\ GapsKnown' /\ Verdicts'
  BY <1>1
  DEF CompleteInv, WindowCovered, DrivenCovered, Covered, GapsKnown, Known,
      Verdicts, Now, Driven, Settled, Still
<1> QED
  BY <1>0, <1>2, <1>3, <1>4, <1>5 DEF CompleteInv

LEMMA CompleteStep ==
    ASSUME CompleteInv, ~Stray, ~TreeFaults, [Next]_vars
    PROVE  CompleteInv'
BY CompleteChain, CompleteBefore, CompleteRun, CompleteAfter, CompleteReturned,
   CompleteSend, CompletePage, CompleteRunner, CompleteStays
DEF Next, CommandStep, RunnerStep, Finished

LEMMA CompleteStarts ==
    ASSUME Init
    PROVE  CompleteInv
<1>1. SerialInv
  BY SerialInit
<1>2. /\ op = None /\ queue = <<>> /\ steps = <<>> /\ window = None
      /\ slug = 0 /\ closing = None /\ failure = None
      /\ begun = 0 /\ results = [r \in Recordings |-> "none"]
      /\ spoiled = {} /\ missed = {} /\ command = None /\ held = {}
      /\ pendingSwitch = None /\ currentWindow = None
  BY DEF Init, ControlInit
<1>3. \A i \in DOMAIN queue : FALSE
  BY <1>2
<1>4. OperationsFit /\ TabsSeen
  BY <1>2, <1>3 DEF OperationsFit, TabsSeen
<1>5. /\ Introduced /\ SwitchPending /\ CurrentKnown /\ ClosingSettled
      /\ WindowCovered /\ GapOfSwitch /\ DrivenCovered /\ GapsKnown
  BY <1>2, <1>3
  DEF Introduced, SwitchPending, CurrentKnown, ClosingSettled, WindowCovered,
      GapOfSwitch, DrivenCovered, GapsKnown, Now
<1>6. Verdicts
  BY <1>2 DEF Verdicts
<1> QED
  BY <1>1, <1>4, <1>5, <1>6 DEF CompleteInv

\* A recording reported complete shows every action of its test, provided no
\* command outlasts its test and the browser's tree of contexts can be read.
THEOREM CompletedIsCompleteHolds ==
    ASSUME ~Stray, ~TreeFaults
    PROVE  Spec => []CompletedIsComplete
<1>1. Init => CompleteInv
  BY CompleteStarts
<1>2. CompleteInv /\ [Next]_vars => CompleteInv'
  BY CompleteStep
<1>3. CompleteInv => CompletedIsComplete
  BY DEF CompleteInv, Verdicts, CompletedIsComplete
<1> QED
  BY <1>1, <1>2, <1>3, PTL DEF Spec

=============================================================================
